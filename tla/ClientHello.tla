----------------------------- MODULE ClientHello ----------------------------
(***************************************************************************)
(* The TLS messages the tools cut apart: tools/faultinject/                *)
(* tls_clienthello.py, which the on-path proxy rewrites ClientHellos with, *)
(* and the record readers of tools/faultinject/pcap_hello.py.              *)
(*                                                                         *)
(* A function of the code that raises ValueError is one whose operator     *)
(* yields Raised: every caller in the tools catches it and treats the      *)
(* bytes as not being the message it looks for.                            *)
(***************************************************************************)
EXTENDS Bytes

TLS_HANDSHAKE == 22
TLS_CLIENT_HELLO == 1
TLS_SERVER_HELLO == 2
TLS_SUPPORTED_GROUPS == 10
TLS_KEY_SHARE == 51

X25519 == 29
X25519MLKEM768 == 4588
X25519Kyber768Draft00 == 25497

\* group -> offset and length of the post-quantum part of its key share
PQ_COMPONENTS == [group \in {X25519MLKEM768, X25519Kyber768Draft00} |->
                    [offset |-> IF group = X25519MLKEM768 THEN 0 ELSE 32, length |-> 1184]]

Raised == [ok |-> FALSE, value |-> <<>>]
Returned(value) == [ok |-> TRUE, value |-> value]

\* What a function does with the result of one it calls, unless that raised.
Then(result, Use(_)) == IF result.ok THEN Use(result.value) ELSE Raised

-----------------------------------------------------------------------------
\* What the peers put on the wire (RFC 8446, section 4.1).

\* The value of a key share: a hybrid concatenates two public keys.  s.key
\* stands for the bytes of the post-quantum one.
Hybrid(s) ==
    /\ s.group \in DOMAIN PQ_COMPONENTS
    /\ s.size >= PQ_COMPONENTS[s.group].offset + PQ_COMPONENTS[s.group].length
ShareValue(s) ==
    IF ~Hybrid(s) THEN Opaque("value", s.size)
    ELSE LET pq == PQ_COMPONENTS[s.group]
         IN  Opaque("ecdh", pq.offset) \o Num("pq", pq.length, s.key)
             \o Opaque("ecdh", s.size - pq.offset - pq.length)

\* A type, a length and the bytes it counts: an extension, an entry of a key
\* share.
Typed(name, type, content) ==
    Num(name, 2, type) \o Num("length", 2, Size(content)) \o content
Vector(name, content) == Num(name, 2, Size(content)) \o content

ShareEntry(s) == Typed("share group", s.group, ShareValue(s))
Group(g) == [name |-> "group", size |-> 2, value |-> <<g>>]

\* The extensions of hello in the order hello.order lists them; 0 stands for
\* an extension the tools do not look into.
ExtensionPayload(hello, type) ==
    IF type = TLS_SUPPORTED_GROUPS
    THEN Vector("groups length", [k \in DOMAIN hello.groups |-> Group(hello.groups[k])])
    ELSE IF type = TLS_KEY_SHARE
    THEN Vector("shares length", Flat([k \in DOMAIN hello.shares |-> ShareEntry(hello.shares[k])]))
    ELSE Opaque("other extension", 7)
Extension(type, payload) == Typed("extension type", type, payload)

Record(handshakeType, body) ==
    Num("content type", 1, TLS_HANDSHAKE) \o Num("version", 2, 0)
    \o Num("record length", 2, 4 + Size(body))
    \o Num("handshake type", 1, handshakeType) \o Num("handshake length", 3, Size(body))
    \o body

EncodeClientHello(hello) ==
    Record(TLS_CLIENT_HELLO,
        Num("version and random", 34, 0)
        \o Num("session id length", 1, hello.sid) \o Opaque("session id", hello.sid)
        \o Num("suites length", 2, 6) \o Opaque("suites", 6)
        \o Num("methods length", 1, 1) \o Opaque("methods", 1)
        \o Vector("extensions length",
                  Flat([k \in DOMAIN hello.order |->
                          Extension(hello.order[k], ExtensionPayload(hello, hello.order[k]))])))

\* A ServerHello's key share is one entry; that of a HelloRetryRequest, told
\* by its random, is the group alone.
ServerShare(g) == [group |-> g, size |-> 1216, key |-> 1]
AnswerPayload(hello, type) ==
    IF type # TLS_KEY_SHARE THEN Opaque("other extension", 2)
    ELSE IF hello.hrr THEN Num("group", 2, hello.group)
    ELSE ShareEntry(ServerShare(hello.group))
EncodeServerHello(hello) ==
    Record(TLS_SERVER_HELLO,
        Num("version", 2, 0) \o Num("random", 32, IF hello.hrr THEN 1 ELSE 0)
        \o Num("session id length", 1, hello.sid) \o Opaque("session id", hello.sid)
        \o Opaque("suite and method", 3)
        \o Vector("extensions length",
                  Flat([k \in DOMAIN hello.order |->
                          Extension(hello.order[k], AnswerPayload(hello, hello.order[k]))])))

-----------------------------------------------------------------------------
\* tls_clienthello.py

\* The cursor behind a vector whose length field has size bytes.
EndOf(w, cursor, size) == cursor + size + Read(w, cursor, size)

\* Where the extensions begin and end: the cursor moves over the session id,
\* the cipher suites and the compression methods.
AtExtensions(w, cursor, end) ==
    IF cursor + 2 <= Size(w) /\ EndOf(w, cursor, 2) <= end
    THEN Returned(<<cursor + 2, EndOf(w, cursor, 2)>>) ELSE Raised
AtMethods(w, cursor, end) ==
    IF cursor < end THEN AtExtensions(w, EndOf(w, cursor, 1), end) ELSE Raised
AtSuites(w, cursor, end) ==
    IF cursor + 2 <= Size(w) THEN AtMethods(w, EndOf(w, cursor, 2), end) ELSE Raised
AtSessionId(w, cursor, end) ==
    IF cursor < end THEN AtSuites(w, EndOf(w, cursor, 1), end) ELSE Raised

ClientHelloExtensions(w) ==
    IF /\ Size(w) >= 9 /\ Read(w, 0, 1) = TLS_HANDSHAKE
       /\ EndOf(w, 3, 2) <= Size(w) /\ Read(w, 5, 1) = TLS_CLIENT_HELLO
       /\ EndOf(w, 6, 3) <= EndOf(w, 3, 2)
    THEN AtSessionId(w, 9 + 2 + 32, EndOf(w, 6, 3))
    ELSE Raised

\* The [type, length, content] triples between two offsets: extensions, and
\* the entries of a key_share.  One that exceeds the end is the last one.
Triple(w, cursor) ==
    [type |-> Read(w, cursor, 2), from |-> cursor + 4, to |-> cursor + 4 + Read(w, cursor + 2, 2)]
Triples(w, cursor, end) ==
    LET walk[i \in 0 .. Len(w)] ==
            IF i = 0 THEN <<>>
            ELSE LET found == walk[i - 1]
                     here  == IF found = <<>> THEN cursor ELSE Last(found).to
                 IN  IF here >= end THEN found ELSE Append(found, Triple(w, here))
    IN  walk[Len(w)]

Truncated(ts, end) == ts # <<>> /\ Last(ts).to > end

Extensions(w) ==
    Then(ClientHelloExtensions(w), LAMBDA bounds :
        LET found == Triples(w, bounds[1], bounds[2])
        IN  IF Truncated(found, bounds[2]) THEN Raised ELSE Returned(found))

OfType(exts, type) == Kept(exts, {k \in DOMAIN exts : exts[k].type = type})

\* The entries of one key_share extension.
Entries(w, e) == Triples(w, e.from + 2, e.to)
SharesMalformed(w, e) ==
    \/ e.to - e.from < 2
    \/ e.from + 2 + Read(w, e.from, 2) # e.to
    \/ Truncated(Entries(w, e), e.to)

GroupsMalformed(w, e) ==
    \/ e.to - e.from < 2
    \/ Read(w, e.from, 2) # e.to - e.from - 2
    \/ Read(w, e.from, 2) % 2 # 0

FindKeyShare(w) ==
    Then(Extensions(w), LAMBDA exts :
        LET shares == OfType(exts, TLS_KEY_SHARE)
        IN  IF \E k \in DOMAIN shares : SharesMalformed(w, shares[k]) THEN Raised
            ELSE Returned(Flat([k \in DOMAIN shares |-> Entries(w, shares[k])])))

\* The groups of a supported_groups extension, and of those and of the key
\* shares the ones other than the hybrid.
Groups(w, e) == Slice(w, e.from + 2, e.to)
OtherGroups(groups, hybrid) == Kept(groups, {k \in DOMAIN groups : groups[k].value[1] # hybrid})
OtherShares(entries, hybrid) == Kept(entries, {k \in DOMAIN entries : entries[k].type # hybrid})

\* Mutant: the hybrid's key share stays.
RetainedShares(w, e, hybrid) ==
    IF e.type = TLS_SUPPORTED_GROUPS
    THEN Vector("groups length", OtherGroups(Groups(w, e), hybrid))
    ELSE Slice(w, e.from, e.to)

\* The payload of an extension without the hybrid.
Retained(w, e, hybrid) ==
    IF e.type = TLS_SUPPORTED_GROUPS
    THEN Vector("groups length", OtherGroups(Groups(w, e), hybrid))
    ELSE IF e.type = TLS_KEY_SHARE
    THEN LET kept == OtherShares(Entries(w, e), hybrid)
         IN  Vector("shares length",
                    Flat([k \in DOMAIN kept |-> Slice(w, kept[k].from - 4, kept[k].to)]))
    ELSE Slice(w, e.from, e.to)

\* Mutant: what follows the record in the buffer is left out.
RebuiltAlone(w, start, extensions) ==
    Record(TLS_CLIENT_HELLO, Slice(w, 9, start - 2) \o Vector("extensions length", extensions))

\* The record around new extensions: the extensions', handshake's and
\* record's lengths are recomputed, record[record_end:] follows.
Rebuilt(w, start, extensions) ==
    Record(TLS_CLIENT_HELLO, Slice(w, 9, start - 2) \o Vector("extensions length", extensions))
    \o From(w, EndOf(w, 3, 2))

Malformed(w, e) ==
    \/ e.type = TLS_SUPPORTED_GROUPS /\ GroupsMalformed(w, e)
    \/ e.type = TLS_KEY_SHARE /\ SharesMalformed(w, e)

\* new: the payloads of the extensions exts without the hybrid.
WithPayloads(w, exts, new) ==
    IF \A k \in DOMAIN exts : new[k] = Slice(w, exts[k].from, exts[k].to) THEN Returned(w)
    ELSE Returned(Rebuilt(w, exts[1].from - 4,
            Flat([k \in DOMAIN exts |-> Extension(exts[k].type, new[k])])))

StripHybrid(w, hybrid) ==
    Then(Extensions(w), LAMBDA exts :
        IF \E k \in DOMAIN exts : Malformed(w, exts[k]) THEN Raised
        ELSE WithPayloads(w, exts, [k \in DOMAIN exts |-> Retained(w, exts[k], hybrid)]))

\* The bytes from start on, length of them, inverted.
Inverted(w, start, length) ==
    UpTo(w, start)
    \o LET part == Slice(w, start, start + length)
       IN  [k \in DOMAIN part |-> [part[k] EXCEPT !.value = <<0 - @[1]>>]]
    \o From(w, start + length)

\* Mutant: the component is taken at the start of the key share.
ForgeAtStart(w, group) ==
    Then(FindKeyShare(w), LAMBDA shares :
        LET mine == OfType(shares, group)
        IN  IF mine = <<>> THEN Raised
            ELSE Returned(Inverted(w, mine[1].from, PQ_COMPONENTS[group].length)))

ForgePqComponent(w, group) ==
    Then(FindKeyShare(w), LAMBDA shares :
        LET mine == OfType(shares, group)
            pq   == PQ_COMPONENTS[group]
        IN  IF mine = <<>> THEN Raised
            ELSE IF pq.offset + pq.length > mine[1].to - mine[1].from THEN Raised
            ELSE Returned(Inverted(w, mine[1].from + pq.offset, pq.length)))

-----------------------------------------------------------------------------
\* pcap_hello.py

Types(entries) == [k \in DOMAIN entries |-> entries[k].type]
Values(groups) == [k \in DOMAIN groups |-> groups[k].value[1]]

\* _client_hello: the groups of the last supported_groups extension, and
\* the key shares of all key_share extensions, by group.
ReadClientHello(w) ==
    Then(Extensions(w), LAMBDA exts :
        LET groups == OfType(exts, TLS_SUPPORTED_GROUPS)
            shares == OfType(exts, TLS_KEY_SHARE)
        IN  Returned(
              [groups |-> IF groups = <<>> THEN <<>> ELSE Values(Groups(w, Last(groups))),
               shares |-> Flat([k \in DOMAIN shares |-> Types(Entries(w, shares[k]))])]))

\* _server_hello: whether it is a HelloRetryRequest, and the group of its
\* key share (0: none).
HelloAnswer(w, exts, end) ==
    IF Truncated(exts, end) THEN Raised
    ELSE LET shares == OfType(exts, TLS_KEY_SHARE)
         IN  Returned([hrr   |-> Read(w, 11, 32) = 1,
                       group |-> IF shares = <<>> THEN 0 ELSE Read(w, Last(shares).from, 2)])
AtAnswer(w, cursor) ==
    IF EndOf(w, cursor, 2) > EndOf(w, 3, 2) THEN Raised
    ELSE HelloAnswer(w, Triples(w, cursor + 2, EndOf(w, cursor, 2)), EndOf(w, cursor, 2))

ReadServerHello(w) ==
    IF \/ EndOf(w, 3, 2) > Size(w) \/ Read(w, 5, 1) # TLS_SERVER_HELLO \/ EndOf(w, 3, 2) < 47
    THEN Raised
    ELSE AtAnswer(w, EndOf(w, 43, 1) + 3)
=============================================================================
