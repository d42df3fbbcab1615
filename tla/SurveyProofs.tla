---------------------------- MODULE SurveyProofs ----------------------------
(***************************************************************************)
(* The records of the capture-based campaigns against the connections      *)
(* behind them, and what reclassify leaves, for every directory, every set *)
(* of offers and every loss of frames.                                     *)
(***************************************************************************)
EXTENDS Survey, FiniteSetTheorems, TLAPS

Codes == Nat \cup {None}
Texts == {"none", "X25519", "X25519MLKEM768", "X25519Kyber768Draft00", "0x"}
GroupNames == [text : Texts, digits : Nat]
Classes == {"unparsed", "no-hybrid-advertisement", "C1", "C2", "C3", "noncanonical"}

Connection ==
    [groups : Seq(Nat), shares : Seq(Nat), retry : Codes, final : Codes,
     end : {"failed", "completed", "clean"}]
Capture == [file : {"absent", "empty", "pcapng"}, frames : SUBSET (1 .. 4)]
Record ==
    [state : {"none", "raw", "evaluated", "torn"}, pre : BOOLEAN,
     hrr : {"unknown", "yes", "no"}, final : GroupNames,
     groups : Seq(GroupNames), shares : Seq(GroupNames),
     label : Classes \cup {"none"}, typed : BOOLEAN,
     result : {"success", "failure"},
     detail : {"", "handshake-incomplete", "handshake-completed"}]

TypeOK ==
    /\ fault \in FaultTypes
    /\ under \in [Slots -> Labels]
    /\ conn \in [Slots -> Connection]
    /\ pcap \in [Slots -> Capture]
    /\ rec \in [Slots -> Record]
    /\ todo \subseteq Slots
    /\ repair \in {"idle", "walking", "done", "died"}
    /\ deaths \in Nat

\* A capture holds frames of its connection; a client that did not fail had
\* a ServerHello.
Captured(s) ==
    /\ pcap[s].frames \subseteq DOMAIN Wire(conn[s])
    /\ conn[s].end # "failed" => conn[s].final # None

\* What an evaluated record says of its connection.
Faithful(s, r) ==
    /\ r.final # NoName => r.final = group_name(conn[s].final)
    /\ r.hrr = "yes" => Retried(s)
    /\ r.result = "success" => conn[s].final # None
    /\ Configured /\ r.pre => \E h \in Range(Wire(conn[s])) :
            h = Client(CLIENTS[under[s]].groups, CLIENTS[under[s]].shares)
    /\ r.detail = "handshake-completed" => conn[s].end # "failed"
    /\ fault # "negotiation-function" => /\ r.groups = Named(FirstHello(s).groups)
                                         /\ r.shares = Named(FirstHello(s).shares)
    /\ fault = "client-default-v18" /\ r.typed => r.label = classify(r.groups, r.shares)

\* A record file, from the run to its evaluation.
RecordOK(s) ==
    /\ rec[s].state = "raw" => rec[s] = RawRecord(s)
    /\ rec[s].state = "evaluated" => Faithful(s, rec[s])

\* Behind the walk of reclassify no label is stale.
Walk ==
    /\ repair # "idle" => fault = "client-default-v18"
    /\ repair \in {"walking", "done"} =>
          \A s \in WithState("evaluated") : Stale(s) => repair = "walking" /\ s \in todo

IndInv == TypeOK /\ (\A s \in Slots : Captured(s) /\ RecordOK(s)) /\ Walk

-----------------------------------------------------------------------------
(* The Hellos of a connection.                                             *)

\* Which Hello is at which place.
LEMMA WireFacts ==
    ASSUME NEW c, NEW k \in DOMAIN Wire(c)
    PROVE  /\ k \in {1, 2, 3, 4}
           /\ k = 1 => Wire(c)[k] = Client(c.groups, c.shares)
           /\ k = 2 => \/ c.retry # None /\ Wire(c)[k] = RetryRequest(c.retry)
                       \/ c.retry = None /\ c.final # None /\ Wire(c)[k] = ServerHello(c.final)
           /\ k = 3 => c.retry # None /\ Wire(c)[k] = Client(c.groups, <<c.retry>>)
           /\ k = 4 => /\ c.retry # None /\ c.final # None
                       /\ Wire(c)[k] = ServerHello(c.final)
<1> DEFINE first  == Client(c.groups, c.shares)
           retry  == RetryRequest(c.retry)
           second == Client(c.groups, <<c.retry>>)
           answer == ServerHello(c.final)
<1>1. CASE c.retry = None /\ c.final = None
  <2>1. Wire(c) = <<first>>
    BY <1>1 DEF Wire
  <2> HIDE DEF first
  <2>2. k = 1 /\ Wire(c)[1] = first
    BY <2>1
  <2> QED
    BY <2>2 DEF first
<1>2. CASE c.retry = None /\ c.final # None
  <2>1. Wire(c) = <<first, answer>>
    BY <1>2 DEF Wire
  <2> HIDE DEF first, answer
  <2>2. k \in {1, 2} /\ Wire(c)[1] = first /\ Wire(c)[2] = answer
    BY <2>1
  <2> QED
    BY <1>2, <2>2 DEF first, answer
<1>3. CASE c.retry # None /\ c.final = None
  <2>1. Wire(c) = <<first, retry, second>>
    BY <1>3 DEF Wire
  <2> HIDE DEF first, retry, second
  <2>2. k \in {1, 2, 3} /\ Wire(c)[1] = first /\ Wire(c)[2] = retry /\ Wire(c)[3] = second
    BY <2>1
  <2> QED
    BY <1>3, <2>2 DEF first, retry, second
<1>4. CASE c.retry # None /\ c.final # None
  <2>1. Wire(c) = <<first, retry, second, answer>>
    BY <1>4 DEF Wire
  <2> HIDE DEF first, retry, second, answer
  <2>2. /\ k \in {1, 2, 3, 4} /\ Wire(c)[1] = first /\ Wire(c)[2] = retry
        /\ Wire(c)[3] = second /\ Wire(c)[4] = answer
    BY <2>1
  <2> QED
    BY <1>4, <2>2 DEF first, retry, second, answer
<1> QED
  BY <1>1, <1>2, <1>3, <1>4

\* The client's Hellos are the first and the third one.
LEMMA ClientFrames ==
    ASSUME NEW s, Captured(s), NEW k
    PROVE  k \in client_hellos(s) <=> k \in pcap[s].frames \cap {1, 3}
<1>1. k \in pcap[s].frames => k \in DOMAIN Wire(conn[s])
  BY DEF Captured
<1>2. k \in client_hellos(s) <=> k \in pcap[s].frames /\ Wire(conn[s])[k].by = "client"
  BY DEF client_hellos, Hellos
<1>3. k \in pcap[s].frames => (Wire(conn[s])[k].by = "client" <=> k \in {1, 3})
  <2>1. SUFFICES ASSUME k \in pcap[s].frames
                 PROVE  Wire(conn[s])[k].by = "client" <=> k \in {1, 3}
    OBVIOUS
  <2>2. k \in {1, 2, 3, 4}
    BY <1>1, <2>1, WireFacts
  <2> QED
    BY <1>1, <2>1, <2>2, WireFacts DEF Client, RetryRequest, ServerHello
<1> QED
  BY <1>2, <1>3

\* A retry in the capture took place.
LEMMA RetryFrames ==
    ASSUME NEW s, Captured(s), NEW k \in Retries(s)
    PROVE  Retried(s)
<1>1. /\ k \in DOMAIN Wire(conn[s])
      /\ Wire(conn[s])[k].by = "server" /\ Wire(conn[s])[k].hrr
  BY DEF Captured, Retries, server_hellos, Hellos
<1>2. k \in {1, 2, 3, 4}
  BY <1>1, WireFacts
<1> QED
  BY <1>1, <1>2, WireFacts DEF Client, RetryRequest, ServerHello, Retried

\* A ServerHello in the capture is the one with the final group.
LEMMA RealFrames ==
    ASSUME NEW s, Captured(s), NEW k \in RealHellos(s)
    PROVE  /\ k = IF conn[s].retry = None THEN 2 ELSE 4
           /\ conn[s].final # None
           /\ Wire(conn[s])[k].group = conn[s].final
<1>1. /\ k \in DOMAIN Wire(conn[s])
      /\ Wire(conn[s])[k].by = "server" /\ ~Wire(conn[s])[k].hrr
  BY DEF Captured, RealHellos, Retries, server_hellos, Hellos
<1>2. k \in {1, 2, 3, 4}
  BY <1>1, WireFacts
<1> QED
  BY <1>1, <1>2, WireFacts DEF Client, RetryRequest, ServerHello

\* final_group is the final group, or nothing when the frame is lost.
LEMMA FinalGroup ==
    ASSUME NEW s, Captured(s)
    PROVE  final_group(s) \in {None, conn[s].final}
<1>1. CASE RealHellos(s) = {}
  BY <1>1 DEF final_group
<1>2. CASE RealHellos(s) # {}
  <2>1. PICK k \in RealHellos(s) : TRUE
    BY <1>2
  <2>2. k \in {2, 4} /\ \A j \in RealHellos(s) : j = k
    BY RealFrames
  <2>3. \A j \in RealHellos(s) : k >= j
    BY <2>2
  <2>4. Max(RealHellos(s)) \in RealHellos(s)
    BY <2>3 DEF Max
  <2> QED
    BY <1>2, <2>4, RealFrames DEF final_group
<1> QED
  BY <1>1, <1>2

\* FirstHello is what the first frame of the client's in the capture holds.
LEMMA FirstHelloFacts ==
    ASSUME NEW s, Captured(s)
    PROVE  \/ client_hellos(s) = {} /\ FirstHello(s) = NoOffer
           \/ /\ FirstCaptured(s)
              /\ FirstHello(s) = [groups |-> conn[s].groups, shares |-> conn[s].shares]
              /\ Client(FirstHello(s).groups, FirstHello(s).shares) \in Range(Wire(conn[s]))
           \/ /\ ~FirstCaptured(s) /\ Retried(s)
              /\ FirstHello(s) = [groups |-> conn[s].groups, shares |-> <<conn[s].retry>>]
              /\ Client(FirstHello(s).groups, FirstHello(s).shares) \in Range(Wire(conn[s]))
<1>1. CASE client_hellos(s) = {}
  BY <1>1 DEF FirstHello
<1>2. CASE client_hellos(s) # {} /\ 1 \in pcap[s].frames
  <2>1. 1 \in client_hellos(s) /\ \A j \in client_hellos(s) : j \in {1, 3}
    BY <1>2, ClientFrames
  <2>2. \A j \in client_hellos(s) : 1 <= j
    BY <2>1
  <2>3. Min(client_hellos(s)) \in client_hellos(s) /\ Min(client_hellos(s)) <= 1
    BY <2>1, <2>2 DEF Min
  <2>4. Min(client_hellos(s)) = 1
    BY <2>1, <2>3
  <2>5. 1 \in DOMAIN Wire(conn[s]) /\ Wire(conn[s])[1] = Client(conn[s].groups, conn[s].shares)
    BY <1>2, WireFacts DEF Captured
  <2>6. FirstHello(s) = [groups |-> conn[s].groups, shares |-> conn[s].shares]
    BY <1>2, <2>4, <2>5 DEF FirstHello, OfferAt, Client
  <2>7. Client(FirstHello(s).groups, FirstHello(s).shares) \in Range(Wire(conn[s]))
    BY <2>5, <2>6 DEF Range
  <2> QED
    BY <1>2, <2>6, <2>7 DEF FirstCaptured
<1>3. CASE client_hellos(s) # {} /\ 1 \notin pcap[s].frames
  <2>1. client_hellos(s) = {3}
    BY <1>3, ClientFrames
  <2>2. Min(client_hellos(s)) = 3
    <3>1. 3 <= 3
      OBVIOUS
    <3>2. Min({3}) \in {3}
      BY <3>1 DEF Min
    <3> QED
      BY <2>1, <3>2
  <2>3. 3 \in DOMAIN Wire(conn[s])
    BY <2>1, ClientFrames DEF Captured
  <2>4. /\ conn[s].retry # None
        /\ Wire(conn[s])[3] = Client(conn[s].groups, <<conn[s].retry>>)
    BY <2>3, WireFacts
  <2>5. FirstHello(s) = [groups |-> conn[s].groups, shares |-> <<conn[s].retry>>]
    BY <1>3, <2>2, <2>4 DEF FirstHello, OfferAt, Client
  <2>6. Client(FirstHello(s).groups, FirstHello(s).shares) \in Range(Wire(conn[s]))
    BY <2>3, <2>4, <2>5 DEF Range
  <2> QED
    BY <1>3, <2>4, <2>5, <2>6 DEF FirstCaptured, Retried
<1> QED
  BY <1>1, <1>2, <1>3

-----------------------------------------------------------------------------
(* The names of groups.                                                    *)

\* What a name tells of the code it stands for.
LEMMA NameFacts ==
    ASSUME NEW code \in Codes
    PROVE  /\ group_name(code) \in GroupNames
           /\ group_name(code) = NoName => code = None
           /\ group_name(code).text = "X25519" => code = X25519
           /\ group_name(code).text = "X25519MLKEM768" => code = X25519MLKEM768
           /\ IsHybrid(group_name(code)) <=> code \in {X25519MLKEM768, Kyber}
           /\ group_name(code).text # "GREASE"
<1> DEFINE hex == [text |-> "0x", digits |-> code]
<1>1. code = None => group_name(code) = NoName
  BY DEF group_name
<1>2. /\ code = X25519 => group_name(code) = NameOf("X25519")
      /\ code = X25519MLKEM768 => group_name(code) = NameOf("X25519MLKEM768")
      /\ code = Kyber => group_name(code) = NameOf("X25519Kyber768Draft00")
  BY DEF group_name, GROUP_NAMES, None, X25519, X25519MLKEM768, Kyber
<1>3. code \notin {None, X25519, X25519MLKEM768, Kyber} => group_name(code) = hex
  BY DEF group_name, GROUP_NAMES
<1>4. code # None => code \in Nat
  BY DEF Codes
<1> USE DEF GroupNames, Texts, NoName, NameOf, IsHybrid, None, X25519, X25519MLKEM768, Kyber
<1>5. CASE code = None
  BY <1>1, <1>5
<1>6. CASE code \in {X25519, X25519MLKEM768, Kyber}
  BY <1>2, <1>6
<1>7. CASE code \notin {None, X25519, X25519MLKEM768, Kyber}
  <2>1. group_name(code).text = "0x" /\ group_name(code).digits = code
    BY <1>3, <1>7
  <2> QED
    BY <1>3, <1>4, <1>7, <2>1
<1> QED
  BY <1>5, <1>6, <1>7

\* Different groups have different names.
LEMMA NamesInjective ==
    ASSUME NEW a \in Codes, NEW b \in Codes, group_name(a) = group_name(b)
    PROVE  a = b
  BY DEF group_name, GROUP_NAMES, NoName, NameOf, None, X25519, X25519MLKEM768, Kyber, Codes

\* The names of a list of codes.
LEMMA NamedType ==
    ASSUME NEW codes \in Seq(Nat)
    PROVE  /\ Named(codes) \in Seq(GroupNames)
           /\ DOMAIN Named(codes) = DOMAIN codes
           /\ \A i \in DOMAIN codes : codes[i] \in Nat /\ Named(codes)[i] = group_name(codes[i])
<1>1. \A i \in DOMAIN codes : codes[i] \in Nat
  OBVIOUS
<1>2. DOMAIN codes = 1 .. Len(codes) /\ Len(codes) \in Nat
  OBVIOUS
<1>3. \A i \in 1 .. Len(codes) : group_name(codes[i]) \in GroupNames
  BY <1>1, <1>2, NameFacts DEF Codes
<1>4. Named(codes) = [i \in 1 .. Len(codes) |-> group_name(codes[i])]
  BY <1>2 DEF Named
<1> QED
  BY <1>1, <1>2, <1>3, <1>4

-----------------------------------------------------------------------------
(* Evaluation.                                                             *)

\* classify gives one of its labels.
LEMMA ClassifyType ==
    ASSUME NEW groups, NEW shares
    PROVE  classify(groups, shares) \in Classes
  BY DEF classify, Classes

\* So did the rule before the order counted.
LEMMA OlderType ==
    ASSUME NEW groups, NEW shares
    PROVE  ClassifyOlder(groups, shares) \in Classes
  BY ClassifyType DEF ClassifyOlder, Classes

\* The offer of the first Hello that was captured.
LEMMA FirstHelloType ==
    ASSUME TypeOK, NEW s \in Slots, Captured(s)
    PROVE  FirstHello(s) \in [groups : Seq(Nat), shares : Seq(Nat)]
<1>1. /\ conn[s].groups \in Seq(Nat) /\ conn[s].shares \in Seq(Nat)
      /\ Retried(s) => conn[s].retry \in Nat
  BY DEF TypeOK, Connection, Retried, Codes
<1>2. Retried(s) => <<conn[s].retry>> \in Seq(Nat)
  BY <1>1
<1>3. <<>> \in Seq(Nat)
  OBVIOUS
<1>4. \/ FirstHello(s) = NoOffer
      \/ FirstHello(s) = [groups |-> conn[s].groups, shares |-> conn[s].shares]
      \/ FirstHello(s) = [groups |-> conn[s].groups, shares |-> <<conn[s].retry>>] /\ Retried(s)
  BY FirstHelloFacts, Zenon
<1>5. \A g, h \in Seq(Nat) :
         [groups |-> g, shares |-> h] \in [groups : Seq(Nat), shares : Seq(Nat)]
  OBVIOUS
<1> QED
  BY <1>1, <1>2, <1>3, <1>4, <1>5, Zenon DEF NoOffer

\* A precondition that holds is an offer on the wire.
LEMMA PreconditionSound ==
    ASSUME NEW s, Captured(s), client_precondition_v15(s)
    PROVE  \E h \in Range(Wire(conn[s])) :
              h = Client(CLIENTS[under[s]].groups, CLIENTS[under[s]].shares)
<1>1. client_hellos(s) # {} /\ FirstHello(s) = CLIENTS[under[s]]
  BY DEF client_precondition_v15
<1>2. Client(FirstHello(s).groups, FirstHello(s).shares) \in Range(Wire(conn[s]))
  BY <1>1, FirstHelloFacts
<1> QED
  BY <1>1, <1>2

\* What the metrics taken from a capture claim.
LEMMA CaptureSound ==
    ASSUME TypeOK, NEW s \in Slots, Captured(s), rec[s] = RawRecord(s)
    PROVE  /\ FromCapture(s) = [RawRecord(s) EXCEPT !.state = "evaluated",
                                   !.hrr = FromCapture(s).hrr, !.final = FromCapture(s).final]
           /\ FromCapture(s).hrr \in {"yes", "no"}
           /\ FromCapture(s).hrr = "yes" => Retried(s)
           /\ FromCapture(s).final \in GroupNames
           /\ FromCapture(s).final # NoName => FromCapture(s).final = group_name(conn[s].final)
<1> DEFINE h == IF hrr_count(s) > 0 THEN "yes" ELSE "no"
           f == group_name(final_group(s))
<1>1. FromCapture(s) = [RawRecord(s) EXCEPT !.state = "evaluated", !.hrr = h, !.final = f]
  BY DEF FromCapture
<1>2. FromCapture(s).hrr = h /\ FromCapture(s).final = f
  BY <1>1 DEF RawRecord, NoRecord
<1>3. h = "yes" => Retried(s)
  <2>1. Retries(s) = {} => hrr_count(s) = 0
    BY FS_EmptySet DEF hrr_count
  <2>2. h = "yes" => hrr_count(s) > 0
    OBVIOUS
  <2>3. h = "yes" => Retries(s) # {}
    BY <2>1, <2>2
  <2> QED
    BY <2>3, RetryFrames
<1>4. final_group(s) \in {None, conn[s].final} /\ conn[s].final \in Codes /\ None \in Codes
  BY FinalGroup DEF TypeOK, Connection, Codes
<1>5. f \in GroupNames
  BY <1>4, NameFacts
<1>6. group_name(None) = NoName
  BY DEF group_name
<1>7. f # NoName => f = group_name(conn[s].final)
  BY <1>4, <1>6
<1>8. h \in {"yes", "no"}
  OBVIOUS
<1> HIDE DEF h, f
<1> QED
  BY <1>1, <1>2, <1>3, <1>5, <1>7, <1>8

\* No record has been written.
LEMMA NoRecordType == NoRecord \in Record /\ NoRecord.state = "none"
<1>1. NoName \in GroupNames
  BY DEF NoName, NameOf, GroupNames, Texts
<1>2. <<>> \in Seq(GroupNames)
  OBVIOUS
<1>3. NoRecord \in Record
  BY <1>1, <1>2 DEF NoRecord, Record
<1> QED
  BY <1>3 DEF NoRecord

\* The result run_scenario left.
LEMMA RawSound ==
    ASSUME TypeOK, NEW s \in Slots, Captured(s)
    PROVE  /\ RawRecord(s) \in Record
           /\ RawRecord(s).result = "success" => conn[s].final # None
           /\ RawRecord(s).state = "raw" /\ RawRecord(s).hrr = "unknown"
           /\ RawRecord(s).final = NoName /\ RawRecord(s).pre = FALSE
           /\ RawRecord(s).detail = "" /\ RawRecord(s).typed = FALSE
<1> DEFINE r == IF conn[s].end = "clean" THEN "success" ELSE "failure"
<1>1. RawRecord(s) = [NoRecord EXCEPT !.state = "raw", !.result = r]
  BY DEF RawRecord
<1>2. r \in {"success", "failure"} /\ (r = "success" => conn[s].end = "clean")
  OBVIOUS
<1> HIDE DEF r
<1>3. RawRecord(s) \in Record
  BY NoRecordType, <1>1, <1>2 DEF Record
<1>4. RawRecord(s).result = r
  BY NoRecordType, <1>1 DEF Record
<1> QED
  BY <1>1, <1>2, <1>3, <1>4 DEF NoRecord, Captured

\* A record that is marked evaluated, with what the capture gave.
Base(s, b) ==
    /\ b \in Record
    /\ b.state = "evaluated" /\ b.detail = "" /\ b.typed = FALSE
    /\ b.result = "success" => conn[s].final # None
    /\ b.hrr = "yes" => Retried(s)
    /\ b.final # NoName => b.final = group_name(conn[s].final)

\* What evaluate_v1x reads off the capture holds of the connection.
LEMMA BaseSound ==
    ASSUME TypeOK, NEW s \in Slots, Captured(s), rec[s] = RawRecord(s)
    PROVE  Base(s, FromCapture(s)) /\ Base(s, [rec[s] EXCEPT !.state = "evaluated"])
<1> DEFINE raw == RawRecord(s)
           h == FromCapture(s).hrr
           f == FromCapture(s).final
<1>1. /\ raw \in Record
      /\ raw.result = "success" => conn[s].final # None
      /\ raw.hrr = "unknown" /\ raw.final = NoName /\ raw.detail = "" /\ raw.typed = FALSE
  BY RawSound
<1>2. /\ FromCapture(s) = [raw EXCEPT !.state = "evaluated", !.hrr = h, !.final = f]
      /\ h \in {"yes", "no"} /\ f \in GroupNames
      /\ h = "yes" => Retried(s)
      /\ f # NoName => f = group_name(conn[s].final)
  BY CaptureSound
<1> HIDE DEF raw, h, f
<1>3. FromCapture(s) \in Record
  BY <1>1, <1>2 DEF Record
<1>4. /\ FromCapture(s).state = "evaluated" /\ FromCapture(s).detail = ""
      /\ FromCapture(s).typed = raw.typed /\ FromCapture(s).result = raw.result
      /\ FromCapture(s).hrr = h /\ FromCapture(s).final = f
  BY <1>1, <1>2 DEF Record
<1>5. Base(s, FromCapture(s))
  BY <1>1, <1>2, <1>3, <1>4 DEF Base
<1> DEFINE e == [raw EXCEPT !.state = "evaluated"]
<1>6. /\ e \in Record
      /\ e.state = "evaluated" /\ e.detail = "" /\ e.typed = raw.typed
      /\ e.result = raw.result /\ e.hrr = "unknown" /\ e.final = NoName
  BY <1>1 DEF Record
<1> HIDE DEF e
<1>7. Base(s, e)
  BY <1>1, <1>6 DEF Base
<1> QED
  BY <1>5, <1>7 DEF e, raw

\* evaluate_v15 and what its record claims.
LEMMA V15Sound ==
    ASSUME TypeOK, NEW s \in Slots, Captured(s), rec[s] = RawRecord(s),
           fault = "negotiation-function"
    PROVE  /\ evaluate_v15(s) \in Record /\ evaluate_v15(s).state = "evaluated"
           /\ Faithful(s, evaluate_v15(s))
<1> DEFINE read == IsFile(s) /\ pcap[s].file # "empty"
           b == IF read THEN FromCapture(s) ELSE [rec[s] EXCEPT !.state = "evaluated"]
           p == read /\ client_precondition_v15(s)
           d == IF conn[s].end = "failed" THEN "handshake-incomplete" ELSE "handshake-completed"
           e == evaluate_v15(s)
<1>1. Base(s, b)
  BY BaseSound
<1>2. e = [b EXCEPT !.pre = p, !.detail = d]
  BY DEF evaluate_v15
<1>3. p \in BOOLEAN
  BY DEF client_precondition_v15
<1>4. /\ d \in {"handshake-incomplete", "handshake-completed"}
      /\ d = "handshake-completed" => conn[s].end # "failed"
  OBVIOUS
<1>5. p => \E h \in Range(Wire(conn[s])) :
              h = Client(CLIENTS[under[s]].groups, CLIENTS[under[s]].shares)
  BY PreconditionSound
<1> HIDE DEF b, p, d, e, read
<1>6. b \in Record
  BY <1>1 DEF Base
<1>7. e \in Record
  BY <1>2, <1>3, <1>4, <1>6 DEF Record
<1>8. /\ e.state = b.state /\ e.result = b.result /\ e.hrr = b.hrr /\ e.final = b.final
      /\ e.pre = p /\ e.detail = d
  BY <1>2, <1>6 DEF Record
<1>9. e.state = "evaluated"
  BY <1>1, <1>8 DEF Base
<1>10. Faithful(s, e)
  BY <1>1, <1>4, <1>5, <1>8 DEF Base, Faithful
<1> QED
  BY <1>7, <1>9, <1>10 DEF e

\* Read adds the lists of the first ClientHello.
LEMMA ReadSound ==
    ASSUME TypeOK, NEW s \in Slots, Captured(s), rec[s] = RawRecord(s)
    PROVE  /\ Base(s, Read(s))
           /\ Read(s).groups = Named(FirstHello(s).groups)
           /\ Read(s).shares = Named(FirstHello(s).shares)
<1> DEFINE b == IF IsFile(s) THEN FromCapture(s) ELSE [rec[s] EXCEPT !.state = "evaluated"]
           g == Named(FirstHello(s).groups)
           h == Named(FirstHello(s).shares)
<1>1. Base(s, b)
  BY BaseSound
<1>2. Read(s) = [b EXCEPT !.groups = g, !.shares = h]
  BY DEF Read, Lists
<1>3. g \in Seq(GroupNames) /\ h \in Seq(GroupNames)
  BY FirstHelloType, NamedType
<1> HIDE DEF b, g, h
<1>4. b \in Record
  BY <1>1 DEF Base
<1>5. Read(s) \in Record /\ Read(s).groups = g /\ Read(s).shares = h
  BY <1>2, <1>3, <1>4 DEF Record
<1>6. /\ Read(s).state = b.state /\ Read(s).detail = b.detail /\ Read(s).typed = b.typed
      /\ Read(s).result = b.result /\ Read(s).hrr = b.hrr /\ Read(s).final = b.final
  BY <1>2, <1>4 DEF Record
<1>7. Base(s, Read(s))
  BY <1>1, <1>5, <1>6 DEF Base
<1> QED
  BY <1>5, <1>7 DEF g, h

\* evaluate_v16 and what its record claims.
LEMMA V16Sound ==
    ASSUME TypeOK, NEW s \in Slots, Captured(s), rec[s] = RawRecord(s),
           fault \in {"client-default", "default-direct", "server-software"}
    PROVE  /\ evaluate_v16(s) \in Record /\ evaluate_v16(s).state = "evaluated"
           /\ Faithful(s, evaluate_v16(s))
<1> DEFINE b == Read(s)
           p == IF fault = "server-software" THEN IsFile(s) /\ client_precondition_v15(s)
                ELSE FirstHello(s).groups # <<>>
           e == evaluate_v16(s)
<1>1. /\ Base(s, b)
      /\ b.groups = Named(FirstHello(s).groups) /\ b.shares = Named(FirstHello(s).shares)
  BY ReadSound
<1>2. e = [b EXCEPT !.pre = p]
  BY DEF evaluate_v16
<1>3. p \in BOOLEAN
  <2>1. (IsFile(s) /\ client_precondition_v15(s)) \in BOOLEAN
    BY DEF client_precondition_v15
  <2>2. (FirstHello(s).groups # <<>>) \in BOOLEAN
    OBVIOUS
  <2> QED
    BY <2>1, <2>2
<1>4. Configured /\ p => \E h \in Range(Wire(conn[s])) :
              h = Client(CLIENTS[under[s]].groups, CLIENTS[under[s]].shares)
  <2>1. Configured => fault = "server-software"
    BY DEF Configured
  <2>2. Configured /\ p => client_precondition_v15(s)
    BY <2>1
  <2> QED
    BY <2>2, PreconditionSound
<1> HIDE DEF b, p, e
<1>5. b \in Record
  BY <1>1 DEF Base
<1>6. e \in Record
  BY <1>2, <1>3, <1>5 DEF Record
<1>7. /\ e.state = b.state /\ e.result = b.result /\ e.hrr = b.hrr /\ e.final = b.final
      /\ e.groups = b.groups /\ e.shares = b.shares /\ e.detail = b.detail
      /\ e.pre = p
  BY <1>2, <1>5 DEF Record
<1>8. e.state = "evaluated"
  BY <1>1, <1>7 DEF Base
<1>9. Faithful(s, e)
  BY <1>1, <1>4, <1>7 DEF Base, Faithful
<1> QED
  BY <1>6, <1>8, <1>9 DEF e

\* evaluate_v18 and what its record claims.
LEMMA V18Sound ==
    ASSUME TypeOK, NEW s \in Slots, Captured(s), rec[s] = RawRecord(s),
           fault = "client-default-v18"
    PROVE  LET e == evaluate_v18(s)
           IN  /\ e \in Record /\ e.state = "evaluated"
               /\ Faithful(s, e)
               /\ e.typed /\ e.label = classify(e.groups, e.shares)
<1> DEFINE b == Read(s)
           p == b.groups # <<>>
           r == IF IsFile(s) /\ server_hello_count(s) > 0 THEN "success" ELSE "failure"
           l == classify(b.groups, b.shares)
           e == evaluate_v18(s)
<1>1. /\ Base(s, b)
      /\ b.groups = Named(FirstHello(s).groups) /\ b.shares = Named(FirstHello(s).shares)
  BY ReadSound
<1>2. e = [b EXCEPT !.pre = p, !.result = r, !.label = l, !.typed = TRUE]
  BY DEF evaluate_v18
<1>3. p \in BOOLEAN /\ r \in {"success", "failure"} /\ l \in Classes
  BY ClassifyType
<1>4. r = "success" => conn[s].final # None
  <2>1. RealHellos(s) = {} => server_hello_count(s) = 0
    BY FS_EmptySet DEF server_hello_count
  <2>2. r = "success" => server_hello_count(s) > 0
    OBVIOUS
  <2>3. r = "success" => RealHellos(s) # {}
    BY <2>1, <2>2
  <2> QED
    BY <2>3, RealFrames
<1> HIDE DEF b, p, r, e
<1>5. b \in Record
  BY <1>1 DEF Base
<1>6. e \in Record
  <2> HIDE DEF l
  <2> QED
    BY <1>2, <1>3, <1>5 DEF Record
<1>7. /\ e.state = b.state /\ e.result = r /\ e.hrr = b.hrr /\ e.final = b.final
      /\ e.groups = b.groups /\ e.shares = b.shares /\ e.detail = b.detail
      /\ e.label = l /\ e.typed = TRUE
  <2> HIDE DEF l
  <2> QED
    BY <1>2, <1>5 DEF Record
<1>8. e.state = "evaluated" /\ e.label = classify(e.groups, e.shares)
  BY <1>1, <1>7 DEF Base
<1>9. Faithful(s, e)
  BY <1>1, <1>4, <1>7, <1>8 DEF Base, Faithful, Configured
<1> QED
  BY <1>6, <1>7, <1>8, <1>9 DEF e

\* Every evaluator.
LEMMA EvaluatedSound ==
    ASSUME TypeOK, NEW s \in Slots, Captured(s), rec[s] = RawRecord(s)
    PROVE  LET e == Evaluated(s)
           IN  /\ e \in Record /\ e.state = "evaluated"
               /\ Faithful(s, e)
               /\ fault = "client-default-v18" => e.typed /\ e.label = classify(e.groups, e.shares)
<1>1. fault \in {"negotiation-function", "client-default", "default-direct",
                 "server-software", "client-default-v18"}
  BY SurveyAssumption DEF TypeOK
<1>2. CASE fault = "negotiation-function"
  <2>1. Evaluated(s) = evaluate_v15(s)
    BY <1>2 DEF Evaluated
  <2> QED
    BY <1>2, <2>1, V15Sound
<1>3. CASE fault \in {"client-default", "default-direct", "server-software"}
  <2>1. Evaluated(s) = evaluate_v16(s) /\ fault # "client-default-v18"
    BY <1>3 DEF Evaluated
  <2> QED
    BY <1>3, <2>1, V16Sound
<1>4. CASE fault = "client-default-v18"
  <2>1. Evaluated(s) = evaluate_v18(s)
    BY <1>4 DEF Evaluated
  <2> QED
    BY <1>4, <2>1, V18Sound
<1> QED
  BY <1>1, <1>2, <1>3, <1>4

-----------------------------------------------------------------------------
(* The inductive invariant.                                                *)

\* What is said of a slot depends on its connection and its capture alone.
LEMMA Stable ==
    ASSUME NEW s, NEW r,
           fault' = fault, under'[s] = under[s], conn'[s] = conn[s], pcap'[s] = pcap[s]
    PROVE  /\ Captured(s) => Captured(s)'
           /\ RawRecord(s)' = RawRecord(s)
           /\ FirstHello(s)' = FirstHello(s)
           /\ Faithful(s, r) => Faithful(s, r)'
<1>1. FirstHello(s)' = FirstHello(s)
  BY DEF FirstHello, OfferAt, client_hellos, Hellos
<1>2. RawRecord(s)' = RawRecord(s)
  BY DEF RawRecord
<1>3. Captured(s) => Captured(s)'
  BY DEF Captured
<1>4. Faithful(s, r) => Faithful(s, r)'
  BY <1>1 DEF Faithful, Retried, Configured
<1> QED
  BY <1>1, <1>2, <1>3, <1>4

\* A slot that a step leaves alone stays right.
LEMMA Untouched ==
    ASSUME NEW s, RecordOK(s), Captured(s),
           fault' = fault, under'[s] = under[s], conn'[s] = conn[s], pcap'[s] = pcap[s],
           rec'[s] = rec[s]
    PROVE  Captured(s)' /\ RecordOK(s)'
<1>1. PICK r : r = rec[s]
  OBVIOUS
<1>2. Captured(s)' /\ RawRecord(s)' = RawRecord(s) /\ (Faithful(s, r) => Faithful(s, r)')
  BY Stable
<1>3. rec'[s] = r
  BY <1>1
<1> QED
  BY <1>1, <1>2, <1>3 DEF RecordOK

\* Records of before the order was looked at.
LEMMA OlderOK ==
    ASSUME NEW offer \in Older, NEW s,
           fault = "client-default-v18", conn[s] = OlderConnection(offer),
           pcap[s] = [file |-> "pcapng", frames |-> {1, 2}], rec[s] = OlderRecord(offer)
    PROVE  /\ conn[s] \in Connection /\ pcap[s] \in Capture /\ rec[s] \in Record
           /\ Captured(s) /\ RecordOK(s)
<1> DEFINE head == Head(offer.shares)
<1>1. offer.groups \in Seq(Nat) /\ offer.shares \in Seq(Nat) /\ offer.shares # <<>>
  BY SurveyAssumption
<1>2. head \in Nat
  BY <1>1
<1> HIDE DEF head
<1>3. conn[s] = [groups |-> offer.groups, shares |-> offer.shares, retry |-> None,
                 final |-> head, end |-> "clean"]
  BY DEF OlderConnection, head
<1>4. head # None /\ head \in Codes /\ None \in Codes
  BY <1>2 DEF None, Codes
<1>5. conn[s] \in Connection
  BY <1>1, <1>3, <1>4 DEF Connection
<1>6. pcap[s] \in Capture
  BY DEF Capture
<1>7. Wire(conn[s]) = <<Client(offer.groups, offer.shares), ServerHello(head)>>
  BY <1>3, <1>4 DEF Wire
<1>8. Captured(s)
  <2>1. DOMAIN Wire(conn[s]) = 1 .. 2
    BY <1>7
  <2> QED
    BY <1>3, <1>4, <2>1 DEF Captured
<1>9. FirstHello(s) = [groups |-> offer.groups, shares |-> offer.shares]
  <2>1. 1 \in pcap[s].frames
    OBVIOUS
  <2>2. 1 \in client_hellos(s)
    BY <1>8, <2>1, ClientFrames
  <2>3. FirstHello(s) = [groups |-> conn[s].groups, shares |-> conn[s].shares]
    BY <1>8, <2>1, <2>2, FirstHelloFacts DEF FirstCaptured
  <2> QED
    BY <1>3, <2>3
<1> DEFINE g == Named(offer.groups)
           h == Named(offer.shares)
           f == group_name(head)
           l == ClassifyOlder(g, h)
<1>10. g \in Seq(GroupNames) /\ h \in Seq(GroupNames) /\ f \in GroupNames /\ l \in Classes
  BY <1>1, <1>4, NamedType, NameFacts, OlderType
<1>11. rec[s] = [NoRecord EXCEPT !.state = "evaluated", !.pre = TRUE, !.hrr = "no",
                     !.result = "success", !.final = f, !.groups = g, !.shares = h, !.label = l]
  BY DEF OlderRecord, head
<1>12. g = Named(FirstHello(s).groups) /\ h = Named(FirstHello(s).shares)
  BY <1>9
<1> HIDE DEF g, h, f, l
<1>13. rec[s] \in Record
  BY <1>10, <1>11 DEF Record, NoRecord
<1>14. /\ rec[s].state = "evaluated" /\ rec[s].hrr = "no" /\ rec[s].final = f
       /\ rec[s].groups = g /\ rec[s].shares = h /\ rec[s].typed = FALSE
       /\ rec[s].detail = ""
  BY <1>11 DEF NoRecord
<1>15. Faithful(s, rec[s])
  <2>1. conn[s].final = head
    BY <1>3
  <2>2. f = group_name(conn[s].final) /\ conn[s].final # None
    BY <1>4, <2>1 DEF f
  <2>3. ~Configured
    BY DEF Configured
  <2> QED
    BY <1>12, <1>14, <2>2, <2>3 DEF Faithful
<1> QED
  BY <1>5, <1>6, <1>8, <1>13, <1>14, <1>15 DEF RecordOK

\* A directory as the campaign finds it.
LEMMA SurveyInit == Init => IndInv
<1> SUFFICES ASSUME Init PROVE IndInv
  OBVIOUS
<1>1. PICK old \in SUBSET Slots, offer \in [Slots -> Older] :
         /\ fault # "client-default-v18" => old = {}
         /\ conn = [s \in Slots |-> IF s \in old THEN OlderConnection(offer[s]) ELSE NoConnection]
         /\ pcap = [s \in Slots |-> IF s \in old THEN [file |-> "pcapng", frames |-> {1, 2}]
                                    ELSE [file |-> "absent", frames |-> {}]]
         /\ rec = [s \in Slots |-> IF s \in old THEN OlderRecord(offer[s]) ELSE NoRecord]
  BY DEF Init
<1>2. ASSUME NEW s \in Slots
      PROVE  /\ conn[s] \in Connection /\ pcap[s] \in Capture /\ rec[s] \in Record
             /\ Captured(s) /\ RecordOK(s)
  <2>1. CASE s \in old
    <3>1. /\ fault = "client-default-v18" /\ conn[s] = OlderConnection(offer[s])
          /\ pcap[s] = [file |-> "pcapng", frames |-> {1, 2}]
          /\ rec[s] = OlderRecord(offer[s])
      BY <1>1, <2>1
    <3>2. offer[s] \in Older
      OBVIOUS
    <3> QED
      BY <3>1, <3>2, OlderOK
  <2>2. CASE s \notin old
    <3>1. /\ conn[s] = NoConnection /\ rec[s] = NoRecord
          /\ pcap[s] = [file |-> "absent", frames |-> {}]
      BY <1>1, <2>2
    <3>2. conn[s] \in Connection /\ conn[s].end = "failed"
      BY <3>1 DEF NoConnection, Connection, Codes
    <3>3. pcap[s] \in Capture /\ pcap[s].frames = {}
      BY <3>1 DEF Capture
    <3>4. rec[s] \in Record /\ rec[s].state = "none"
      BY <3>1, NoRecordType
    <3>5. Captured(s) /\ RecordOK(s)
      BY <3>2, <3>3, <3>4 DEF Captured, RecordOK
    <3> QED
      BY <3>2, <3>3, <3>4, <3>5
  <2> QED
    BY <2>1, <2>2
<1>3. conn \in [Slots -> Connection] /\ pcap \in [Slots -> Capture] /\ rec \in [Slots -> Record]
  <2>1. /\ conn = [s \in Slots |-> conn[s]] /\ pcap = [s \in Slots |-> pcap[s]]
        /\ rec = [s \in Slots |-> rec[s]]
    BY <1>1
  <2> QED
    BY <1>2, <2>1
<1>4. TypeOK
  BY <1>3 DEF Init, TypeOK
<1>5. Walk
  BY DEF Init, Walk
<1> QED
  BY <1>2, <1>4, <1>5 DEF IndInv

\* A connection that a server and a client make is one, and its capture holds
\* frames of it.
LEMMA ConnectionOK ==
    ASSUME NEW f \in FaultTypes, NEW offer \in Offers[f], NEW c \in Connections(offer),
           NEW p \in Captures(c)
    PROVE  /\ c \in Connection /\ p \in Capture
           /\ p.frames \subseteq DOMAIN Wire(c)
           /\ c.end # "failed" => c.final # None
<1>1. offer.groups \in Seq(Nat) /\ offer.shares \in Seq(Nat)
  BY SurveyAssumption
<1>2. Range(offer.groups) \subseteq Nat
  BY <1>1 DEF Range
<1>3. /\ c \in [groups : {offer.groups}, shares : {offer.shares},
                retry : {None} \cup Range(offer.groups), final : {None} \cup Range(offer.groups),
                end : {"failed", "completed", "clean"}]
      /\ c.final = None => c.end = "failed"
  BY DEF Connections
<1>4. c \in Connection
  BY <1>1, <1>2, <1>3 DEF Connection, Codes
<1>5. /\ p \in [file : {"absent", "empty", "pcapng"}, frames : SUBSET DOMAIN Wire(c)]
  BY DEF Captures
<1>6. DOMAIN Wire(c) \subseteq 1 .. 4
  <2>1. ASSUME NEW k \in DOMAIN Wire(c) PROVE k \in {1, 2, 3, 4}
    BY WireFacts
  <2> QED
    BY <2>1
<1>7. p \in Capture
  BY <1>5, <1>6 DEF Capture
<1> QED
  BY <1>3, <1>4, <1>5, <1>7

\* The label of a record that is not written stays as good as it was.
LEMMA StaleStable ==
    ASSUME NEW s, rec'[s] = rec[s]
    PROVE  Stale(s)' <=> Stale(s)
  BY DEF Stale, current

\* The steps that touch no connection keep the types of them.
LEMMA CampaignTypes ==
    ASSUME TypeOK, UNCHANGED <<fault, campaign>>
    PROVE  /\ fault' \in FaultTypes /\ under' \in [Slots -> Labels']
           /\ conn' \in [Slots -> Connection] /\ pcap' \in [Slots -> Capture]
  BY DEF TypeOK, campaign, Labels, Configured

\* run_scenario writes a raw record of the slot and disturbs no other.
LEMMA RunStep ==
    ASSUME IndInv, NEW s \in Slots, Run(s)
    PROVE  IndInv'
<1>1. /\ TypeOK /\ Walk /\ \A t \in Slots : Captured(t) /\ RecordOK(t)
  BY DEF IndInv
<1>2. /\ rec[s].state = "none"
      /\ rec' = [rec EXCEPT ![s] = RawRecord(s)']
      /\ fault' = fault /\ under' = under /\ todo' = todo /\ repair' = repair /\ deaths' = deaths
  BY DEF Run
<1>3. PICK c, p : /\ c \in UNION {Connections(offer) : offer \in Offers[fault]}
                  /\ p \in Captures(c)
                  /\ conn' = [conn EXCEPT ![s] = c] /\ pcap' = [pcap EXCEPT ![s] = p]
  BY DEF Run
<1>4. /\ c \in Connection /\ p \in Capture
      /\ p.frames \subseteq DOMAIN Wire(c)
      /\ c.end # "failed" => c.final # None
  <2>1. PICK offer \in Offers[fault] : c \in Connections(offer)
    BY <1>3
  <2> QED
    BY <1>1, <1>3, <2>1, ConnectionOK DEF TypeOK
<1>5. /\ conn \in [Slots -> Connection] /\ pcap \in [Slots -> Capture] /\ rec \in [Slots -> Record]
  BY <1>1 DEF TypeOK
<1>6. conn' \in [Slots -> Connection] /\ pcap' \in [Slots -> Capture]
  BY <1>3, <1>4, <1>5
<1>7. conn'[s] = c /\ pcap'[s] = p
  BY <1>3, <1>5
<1>8. RawRecord(s)' \in Record /\ RawRecord(s)'.state = "raw"
  <2> DEFINE r == IF c.end = "clean" THEN "success" ELSE "failure"
  <2>1. RawRecord(s)' = [NoRecord EXCEPT !.state = "raw", !.result = r]
    BY <1>7 DEF RawRecord
  <2>2. r \in {"success", "failure"}
    OBVIOUS
  <2> HIDE DEF r
  <2> QED
    BY NoRecordType, <2>1, <2>2 DEF Record
<1>9. PICK raw \in Record : raw = RawRecord(s)' /\ raw.state = "raw"
  BY <1>8
<1>10. rec' = [rec EXCEPT ![s] = raw]
  BY <1>2, <1>9
<1>11. rec' \in [Slots -> Record] /\ rec'[s] = raw
  BY <1>5, <1>9, <1>10
<1>12. TypeOK'
  BY <1>1, <1>2, <1>6, <1>11 DEF TypeOK, Labels, Configured
<1>13. Captured(s)' /\ RecordOK(s)'
  BY <1>4, <1>7, <1>9, <1>11 DEF Captured, RecordOK
<1>14. ASSUME NEW t \in Slots, t # s
       PROVE  Captured(t)' /\ RecordOK(t)'
  <2>1. conn'[t] = conn[t] /\ pcap'[t] = pcap[t] /\ rec'[t] = rec[t] /\ under'[t] = under[t]
    BY <1>2, <1>3, <1>5, <1>10, <1>14
  <2> QED
    BY <1>1, <1>2, <2>1, Untouched
<1>15. Walk'
  <2>1. ASSUME NEW t \in Slots, rec'[t].state = "evaluated"
        PROVE  t \in WithState("evaluated") /\ (Stale(t)' <=> Stale(t))
    <3>1. t # s
      BY <1>9, <1>11, <2>1
    <3>2. rec'[t] = rec[t]
      BY <1>5, <1>10, <3>1
    <3> QED
      BY <2>1, <3>2, StaleStable DEF WithState
  <2> QED
    BY <1>1, <1>2, <2>1 DEF Walk, WithState
<1> QED
  BY <1>12, <1>13, <1>14, <1>15 DEF IndInv

\* The evaluators keep to the capture, and use the present labels.
LEMMA EvaluateStep ==
    ASSUME IndInv, NEW s \in Slots, Evaluate(s)
    PROVE  IndInv'
<1>1. /\ TypeOK /\ Walk /\ \A t \in Slots : Captured(t) /\ RecordOK(t)
  BY DEF IndInv
<1>2. /\ rec[s].state = "raw" /\ rec' = [rec EXCEPT ![s] = Evaluated(s)]
      /\ UNCHANGED <<fault, campaign>> /\ todo' = todo /\ repair' = repair /\ deaths' = deaths
  BY DEF Evaluate
<1>3. rec[s] = RawRecord(s)
  BY <1>1, <1>2 DEF RecordOK
<1>4. PICK e : e = Evaluated(s)
  OBVIOUS
<1>5. /\ e \in Record /\ e.state = "evaluated" /\ Faithful(s, e)
      /\ fault = "client-default-v18" => e.typed /\ e.label = classify(e.groups, e.shares)
  BY <1>1, <1>3, <1>4, EvaluatedSound
<1>6. rec \in [Slots -> Record] /\ rec' = [rec EXCEPT ![s] = e]
  BY <1>1, <1>2, <1>4 DEF TypeOK
<1>7. rec' \in [Slots -> Record] /\ rec'[s] = e
  BY <1>5, <1>6
<1>8. fault' = fault /\ under' = under /\ conn' = conn /\ pcap' = pcap
  BY <1>2 DEF campaign
<1>9. TypeOK'
  BY <1>1, <1>2, <1>7, CampaignTypes DEF TypeOK
<1>10. Captured(s)' /\ RecordOK(s)'
  <2>1. Captured(s)' /\ Faithful(s, e)'
    BY <1>1, <1>5, <1>8, Stable
  <2> QED
    BY <1>5, <1>7, <2>1 DEF RecordOK
<1>11. ASSUME NEW t \in Slots, t # s
       PROVE  Captured(t)' /\ RecordOK(t)'
  <2>1. rec'[t] = rec[t]
    BY <1>6, <1>11
  <2> QED
    BY <1>1, <1>8, <2>1, Untouched
<1>12. Walk'
  <2>1. fault = "client-default-v18" => ~Stale(s)'
    BY <1>5, <1>7 DEF Stale, current
  <2>2. ASSUME NEW t \in Slots, t # s
        PROVE  rec'[t] = rec[t] /\ (Stale(t)' <=> Stale(t))
    BY <1>6, <2>2, StaleStable
  <2> QED
    BY <1>1, <1>2, <1>8, <2>1, <2>2 DEF Walk, WithState
<1> QED
  BY <1>9, <1>10, <1>11, <1>12 DEF IndInv

\* The steps of reclassify that write no record.
LEMMA QuietStep ==
    ASSUME IndInv, UNCHANGED <<fault, campaign, rec>>,
           todo' \subseteq Slots, repair' \in {"idle", "walking", "done", "died"}, deaths' \in Nat,
           Walk'
    PROVE  IndInv'
<1>1. /\ TypeOK /\ \A t \in Slots : Captured(t) /\ RecordOK(t)
  BY DEF IndInv
<1>2. fault' = fault /\ under' = under /\ conn' = conn /\ pcap' = pcap /\ rec' = rec
  BY DEF campaign
<1>3. TypeOK'
  BY <1>1, <1>2, CampaignTypes DEF TypeOK, campaign
<1>4. \A t \in Slots : Captured(t)' /\ RecordOK(t)'
  BY <1>1, <1>2, Untouched
<1> QED
  BY <1>3, <1>4 DEF IndInv

\* A step of reclassify that writes the record at hand.
LEMMA WriteStep ==
    ASSUME IndInv, UNCHANGED <<fault, campaign>>, NEW a, NEW r \in Record,
           rec' = [rec EXCEPT ![a] = r], rec[a].state = "evaluated",
           r.state \in {"evaluated", "torn"},
           a \in Slots /\ r.state = "evaluated" => Faithful(a, r),
           todo' \subseteq Slots, repair' \in {"idle", "walking", "done", "died"}, deaths' \in Nat,
           Walk'
    PROVE  IndInv'
<1>1. /\ TypeOK /\ \A t \in Slots : Captured(t) /\ RecordOK(t)
  BY DEF IndInv
<1>2. fault' = fault /\ under' = under /\ conn' = conn /\ pcap' = pcap
  BY DEF campaign
<1>3. rec \in [Slots -> Record]
  BY <1>1 DEF TypeOK
<1>4. rec' \in [Slots -> Record]
  BY <1>3
<1>5. TypeOK'
  BY <1>1, <1>4, CampaignTypes DEF TypeOK
<1>6. ASSUME NEW t \in Slots
      PROVE  Captured(t)' /\ RecordOK(t)'
  <2>1. CASE t = a
    <3>1. rec'[t] = r
      BY <1>3, <2>1
    <3>2. Captured(t)' /\ (Faithful(t, r) => Faithful(t, r)')
      BY <1>1, <1>2, Stable
    <3>3. r.state = "evaluated" => Faithful(t, r)'
      BY <2>1, <3>2
    <3> QED
      BY <3>1, <3>2, <3>3 DEF RecordOK
  <2>2. CASE t # a
    <3>1. rec'[t] = rec[t]
      BY <1>3, <2>2
    <3> QED
      BY <1>1, <1>2, <3>1, Untouched
  <2> QED
    BY <2>1, <2>2
<1> QED
  BY <1>5, <1>6 DEF IndInv

\* A stale record is among the files reclassify lists.
LEMMA ReclassifyStep ==
    ASSUME IndInv, Reclassify
    PROVE  IndInv'
<1>1. TypeOK /\ Walk
  BY DEF IndInv
<1>2. /\ UNCHANGED <<fault, campaign, rec>> /\ deaths' = deaths
      /\ fault = "client-default-v18" /\ repair' = "walking" /\ todo' = Files
  BY DEF Reclassify
<1>3. todo' \subseteq Slots /\ deaths' \in Nat
  BY <1>1, <1>2 DEF Files, TypeOK
<1>4. Walk'
  <2>1. \A s \in WithState("evaluated")' : s \in todo'
    BY <1>2 DEF WithState, Files
  <2> QED
    BY <1>2, <2>1 DEF Walk
<1> QED
  BY <1>2, <1>3, <1>4, QuietStep

\* What reclassify passes over is not stale.
LEMMA PassStep ==
    ASSUME IndInv, Pass
    PROVE  IndInv'
<1>1. TypeOK /\ Walk
  BY DEF IndInv
<1>2. PICK a : a = At
  OBVIOUS
<1>3. /\ UNCHANGED <<fault, campaign, rec>> /\ deaths' = deaths /\ repair = "walking"
      /\ ~Stale(a)
      /\ todo' = todo \ {a} /\ repair' = IF todo = {a} THEN "done" ELSE "walking"
  BY <1>2 DEF Pass, Advance
<1>4. todo' \subseteq Slots /\ deaths' \in Nat /\ repair' \in {"done", "walking"}
  BY <1>1, <1>3 DEF TypeOK
<1>5. Walk'
  <2>1. \A s : Stale(s)' <=> Stale(s)
    BY <1>3, StaleStable
  <2>2. WithState("evaluated")' = WithState("evaluated")
    BY <1>3 DEF WithState
  <2>3. \A s \in WithState("evaluated") : Stale(s) => s \in todo /\ s # a
    BY <1>1, <1>3 DEF Walk
  <2>4. \A s \in WithState("evaluated") : Stale(s) => repair' = "walking" /\ s \in todo'
    BY <1>3, <2>3
  <2>5. fault' = "client-default-v18"
    BY <1>1, <1>3 DEF Walk
  <2> QED
    BY <2>1, <2>2, <2>4, <2>5 DEF Walk
<1> QED
  BY <1>3, <1>4, <1>5, QuietStep

\* The rewritten record has its label, and the rest as it was.
LEMMA RepairStep ==
    ASSUME IndInv, Repair
    PROVE  IndInv'
<1>1. /\ TypeOK /\ Walk /\ \A t \in Slots : Captured(t) /\ RecordOK(t)
  BY DEF IndInv
<1>2. PICK a : a = At
  OBVIOUS
<1>3. /\ UNCHANGED <<fault, campaign>> /\ deaths' = deaths /\ repair = "walking"
      /\ rec[a].state = "evaluated"
      /\ rec' = [rec EXCEPT ![a].label = current(a), ![a].typed = TRUE]
      /\ todo' = todo \ {a} /\ repair' = IF todo = {a} THEN "done" ELSE "walking"
  BY <1>2 DEF Repair, Advance, Rewrites
<1>4. todo' \subseteq Slots /\ deaths' \in Nat /\ repair' \in {"done", "walking"}
  BY <1>1, <1>3 DEF TypeOK
<1>5. rec \in [Slots -> Record]
  BY <1>1 DEF TypeOK
<1>6. fault = "client-default-v18" /\ fault' = fault
  BY <1>1, <1>3 DEF Walk
<1>7. ASSUME NEW s \in Slots, s # a
      PROVE  rec'[s] = rec[s] /\ (Stale(s)' <=> Stale(s))
  BY <1>3, <1>5, <1>7, StaleStable
<1>8. PICK l \in Classes : l = current(a)
  BY ClassifyType DEF current
<1>9. CASE a \in Slots
  <2> DEFINE r == [rec[a] EXCEPT !.label = l, !.typed = TRUE]
  <2>1. rec[a] \in Record
    BY <1>5, <1>9
  <2>2. r \in Record
    BY <1>8, <2>1 DEF Record
  <2>3. /\ r.state = rec[a].state /\ r.hrr = rec[a].hrr /\ r.final = rec[a].final
        /\ r.groups = rec[a].groups /\ r.shares = rec[a].shares /\ r.pre = rec[a].pre
        /\ r.result = rec[a].result /\ r.detail = rec[a].detail
        /\ r.label = l /\ r.typed = TRUE
    BY <2>1 DEF Record
  <2>4. rec' = [rec EXCEPT ![a] = r]
    BY <1>3, <1>5, <1>8, <1>9
  <2> HIDE DEF r
  <2>5. r.label = classify(r.groups, r.shares)
    BY <1>8, <2>3 DEF current
  <2>6. Faithful(a, r)
    <3>1. Faithful(a, rec[a])
      BY <1>1, <1>3, <1>9 DEF RecordOK
    <3> QED
      BY <2>3, <2>5, <3>1 DEF Faithful
  <2>7. Walk'
    <3>1. rec'[a] = r
      BY <1>5, <1>9, <2>4
    <3>2. ~Stale(a)'
      BY <2>3, <2>5, <3>1 DEF Stale, current
    <3>3. \A s \in WithState("evaluated")' : s # a => s \in WithState("evaluated")
      BY <1>7 DEF WithState
    <3>4. \A s \in WithState("evaluated")' : Stale(s)' => s \in todo /\ s # a
      BY <1>1, <1>3, <1>7, <3>2, <3>3 DEF Walk, WithState
    <3>5. \A s \in WithState("evaluated")' : Stale(s)' => repair' = "walking" /\ s \in todo'
      BY <1>3, <3>4
    <3> QED
      BY <1>6, <3>5 DEF Walk
  <2>8. r.state = "evaluated"
    BY <1>3, <2>3
  <2> QED
    BY <1>3, <1>4, <2>2, <2>4, <2>6, <2>7, <2>8, WriteStep
<1>10. CASE a \notin Slots
  <2>1. rec' = rec
    BY <1>3, <1>5, <1>10
  <2>2. Walk'
    <3>1. \A s \in WithState("evaluated")' : s \in WithState("evaluated") /\ s # a
      BY <1>10, <2>1 DEF WithState
    <3>2. \A s \in WithState("evaluated")' : Stale(s)' => repair' = "walking" /\ s \in todo'
      BY <1>1, <1>3, <1>7, <3>1 DEF Walk, WithState
    <3> QED
      BY <1>6, <3>2 DEF Walk
  <2> QED
    BY <1>3, <1>4, <2>1, <2>2, QuietStep
<1> QED
  BY <1>9, <1>10

\* Where no file was listed the walk is over at once.
LEMMA NothingToDoStep ==
    ASSUME IndInv, NothingToDo
    PROVE  IndInv'
<1>1. TypeOK /\ Walk
  BY DEF IndInv
<1>2. /\ UNCHANGED <<fault, campaign, rec>> /\ deaths' = deaths /\ todo' = todo
      /\ repair = "walking" /\ todo = {} /\ repair' = "done"
  BY DEF NothingToDo
<1>3. Walk'
  <2>1. \A s \in WithState("evaluated") : ~Stale(s)
    BY <1>1, <1>2 DEF Walk
  <2>2. \A s \in WithState("evaluated")' : ~Stale(s)'
    BY <1>2, <2>1, StaleStable DEF WithState
  <2> QED
    BY <1>1, <1>2, <2>2 DEF Walk
<1> QED
  BY <1>1, <1>2, <1>3, QuietStep DEF TypeOK

\* A walk that died promises nothing.
LEMMA DiedWalk ==
    ASSUME Walk, repair = "walking", repair' = "died", fault' = fault
    PROVE  Walk'
  BY DEF Walk

\* The walk ends at a record it cannot read.
LEMMA RaisesStep ==
    ASSUME IndInv, Raises
    PROVE  IndInv'
<1>1. TypeOK /\ Walk
  BY DEF IndInv
<1>2. /\ UNCHANGED <<fault, campaign, rec>> /\ deaths' = deaths /\ todo' = {}
      /\ repair = "walking" /\ repair' = "died"
  BY DEF Raises
<1> QED
  BY <1>1, <1>2, DiedWalk, QuietStep DEF TypeOK

\* A death in the middle of a write leaves a torn record.
LEMMA DieStep ==
    ASSUME IndInv, Die
    PROVE  IndInv'
<1>1. TypeOK /\ Walk
  BY DEF IndInv
<1>2. /\ UNCHANGED <<fault, campaign>> /\ deaths' = deaths + 1 /\ todo' = {}
      /\ repair = "walking" /\ repair' = "died"
  BY DEF Die
<1>3. deaths' \in Nat /\ todo' \subseteq Slots
  BY <1>1, <1>2 DEF TypeOK
<1>4. Walk'
  BY <1>1, <1>2, DiedWalk
<1>5. CASE rec' = rec
  BY <1>2, <1>3, <1>4, <1>5, QuietStep
<1>6. CASE rec' # rec
  <2>1. PICK a : a = At
    OBVIOUS
  <2>2. rec[a].state = "evaluated" /\ rec' = [rec EXCEPT ![a].state = "torn"]
    BY <1>6, <2>1 DEF Die, Rewrites
  <2>3. rec \in [Slots -> Record]
    BY <1>1 DEF TypeOK
  <2>4. a \in Slots
    BY <1>6, <2>2, <2>3
  <2> DEFINE r == [rec[a] EXCEPT !.state = "torn"]
  <2>5. rec' = [rec EXCEPT ![a] = r]
    BY <2>2, <2>3, <2>4
  <2>6. r \in Record /\ r.state = "torn"
    BY <2>3, <2>4 DEF Record
  <2> HIDE DEF r
  <2> QED
    BY <1>2, <1>3, <1>4, <2>2, <2>5, <2>6, WriteStep
<1> QED
  BY <1>5, <1>6

\* Every step keeps the inductive invariant.
LEMMA SurveyStep == IndInv /\ [Next]_vars => IndInv'
<1> SUFFICES ASSUME IndInv, [Next]_vars PROVE IndInv'
  OBVIOUS
<1>1. CASE \E s \in Slots : Run(s) \/ Evaluate(s)
  BY <1>1, RunStep, EvaluateStep
<1>2. CASE Reclassify
  BY <1>2, ReclassifyStep
<1>3. CASE Step
  BY <1>3, PassStep, RepairStep, NothingToDoStep, RaisesStep DEF Step
<1>4. CASE Die
  BY <1>4, DieStep
<1>5. CASE UNCHANGED vars
  <2>1. TypeOK /\ Walk
    BY DEF IndInv
  <2>2. /\ UNCHANGED <<fault, campaign, rec>> /\ todo' = todo /\ repair' = repair
        /\ deaths' = deaths
    BY <1>5 DEF vars, campaign
  <2>3. Walk'
    BY <1>5, <2>1 DEF vars, Walk, WithState, Stale, current
  <2> QED
    BY <2>1, <2>2, <2>3, QuietStep DEF TypeOK
<1> QED
  BY <1>1, <1>2, <1>3, <1>4, <1>5 DEF Next

\* What is said of connections, captures, records and the walk of reclassify
\* holds in every state of every campaign.
THEOREM SurveyInductive == Spec => []IndInv
  BY SurveyInit, SurveyStep, PTL DEF Spec

-----------------------------------------------------------------------------
(* The properties.                                                         *)

\* A record claims nothing that did not happen, whatever the capture lost.
THEOREM SurveyNothingInvented == Spec => []NothingInvented
<1>1. IndInv => NothingInvented
  <2>1. ASSUME IndInv, NEW s \in WithState("evaluated") PROVE Faithful(s, rec[s])
    BY <2>1 DEF IndInv, RecordOK, WithState
  <2> QED
    BY <2>1 DEF Faithful, NothingInvented, SentConfigured
<1> QED
  BY <1>1, SurveyInductive, PTL

\* When reclassify has ended by itself, every label is that of the present
\* rule, whatever records it found and whatever walks died before.
THEOREM SurveyLabelsRepaired == Spec => []LabelsRepaired
<1>1. IndInv => LabelsRepaired
  <2> SUFFICES ASSUME IndInv, repair = "done", NEW s \in WithState("evaluated")
               PROVE  rec[s].label = classify(Named(FirstHello(s).groups), Named(FirstHello(s).shares))
    BY DEF LabelsRepaired
  <2>1. Faithful(s, rec[s])
    BY DEF IndInv, RecordOK, WithState
  <2>2. fault = "client-default-v18" /\ ~Stale(s)
    BY DEF IndInv, Walk
  <2>3. rec[s].groups = Named(FirstHello(s).groups) /\ rec[s].shares = Named(FirstHello(s).shares)
    BY <2>1, <2>2 DEF Faithful
  <2> QED
    BY <2>2, <2>3 DEF Stale, current
<1> QED
  BY <1>1, SurveyInductive, PTL

\* A list of names has a hybrid exactly when the codes have one, if the code
\* has a name for every hybrid in them.
LEMMA HybridNamed ==
    ASSUME NEW codes \in Seq(Nat), \A g \in Range(codes) : g \notin HybridCodes \ DOMAIN GROUP_NAMES
    PROVE  /\ (\E g \in Range(Named(codes)) : IsHybrid(g)) <=> HybridIn(codes)
           /\ codes # <<>> => /\ Named(codes) # <<>>
                              /\ IsHybrid(Head(Named(codes))) <=> Head(codes) \in HybridCodes
<1>1. \A i \in DOMAIN codes : IsHybrid(Named(codes)[i]) <=> codes[i] \in HybridCodes
  <2> TAKE i \in DOMAIN codes
  <2>1. codes[i] \in Nat /\ Named(codes)[i] = group_name(codes[i])
    BY NamedType
  <2>2. IsHybrid(Named(codes)[i]) <=> codes[i] \in {X25519MLKEM768, Kyber}
    BY <2>1, NameFacts DEF Codes
  <2>3. codes[i] \in Range(codes)
    BY DEF Range
  <2>4. codes[i] \notin HybridCodes \ {X25519, X25519MLKEM768, Kyber}
    BY <2>3 DEF GROUP_NAMES
  <2> QED
    BY <2>2, <2>4 DEF HybridCodes, X25519, X25519MLKEM768, Kyber
<1>2. DOMAIN Named(codes) = DOMAIN codes
  BY DEF Named
<1>3. (\E g \in Range(Named(codes)) : IsHybrid(g)) <=> \E i \in DOMAIN codes : IsHybrid(Named(codes)[i])
  BY <1>2 DEF Range
<1>4. HybridIn(codes) <=> \E i \in DOMAIN codes : codes[i] \in HybridCodes
  BY DEF HybridIn, Range
<1>5. ASSUME codes # <<>>
      PROVE  /\ Named(codes) # <<>>
             /\ IsHybrid(Head(Named(codes))) <=> Head(codes) \in HybridCodes
  <2>1. 1 \in DOMAIN codes /\ Head(codes) = codes[1]
    BY <1>5
  <2>2. Named(codes) # <<>>
    BY <1>2, <2>1
  <2>3. Head(Named(codes)) = Named(codes)[1]
    BY <2>2, NamedType
  <2> QED
    BY <1>1, <2>1, <2>2, <2>3
<1> QED
  BY <1>1, <1>3, <1>4, <1>5

\* Without GREASE in front the first group decides.
LEMMA HybridFirstHead ==
    ASSUME NEW codes \in Seq(Nat), codes # <<>>, Head(codes) \notin GREASE
    PROVE  HybridFirst(codes) <=> Head(codes) \in HybridCodes
<1>1. /\ DOMAIN codes = 1 .. Len(codes) /\ Len(codes) \in Nat
      /\ 1 \in DOMAIN codes /\ Head(codes) = codes[1]
  OBVIOUS
<1>2. ASSUME HybridFirst(codes) PROVE codes[1] \in HybridCodes
  <2>1. PICK i \in DOMAIN codes : /\ codes[i] \in HybridCodes
                                  /\ \A j \in DOMAIN codes : j < i => codes[j] \in GREASE
    BY <1>2 DEF HybridFirst
  <2>2. ~(1 < i)
    BY <1>1, <2>1
  <2>3. i = 1
    BY <1>1, <2>1, <2>2
  <2> QED
    BY <2>1, <2>3
<1>3. ASSUME codes[1] \in HybridCodes PROVE HybridFirst(codes)
  <2>1. \A j \in DOMAIN codes : ~(j < 1)
    BY <1>1
  <2> QED
    BY <1>1, <1>3, <2>1 DEF HybridFirst
<1> QED
  BY <1>1, <1>2, <1>3

\* classify is the true class if the code has a name for every hybrid offered
\* and no GREASE value stands in front.
LEMMA ClassifyIsTrue ==
    ASSUME NEW c, c.groups \in Seq(Nat), c.shares \in Seq(Nat), c.groups # <<>>,
           ~Unnamed(c), ~GreaseFirst(c)
    PROVE  classify(Named(c.groups), Named(c.shares)) = TrueClass(c)
<1> DEFINE g == Named(c.groups)
           h == Named(c.shares)
           adv == \E x \in Range(g) : IsHybrid(x)
           sent == \E x \in Range(h) : IsHybrid(x)
           first == IsHybrid(Head(g))
<1>0. \A x \in Range(c.groups) \cup Range(c.shares) : x \notin HybridCodes \ DOMAIN GROUP_NAMES
  BY DEF Unnamed
<1>1. (adv <=> HybridIn(c.groups)) /\ g # <<>> /\ (first <=> HybridFirst(c.groups))
  <2>1. (adv <=> HybridIn(c.groups)) /\ g # <<>> /\ (first <=> Head(c.groups) \in HybridCodes)
    BY <1>0, HybridNamed
  <2>2. HybridFirst(c.groups) <=> Head(c.groups) \in HybridCodes
    BY HybridFirstHead DEF GreaseFirst
  <2> QED
    BY <2>1, <2>2
<1>2. sent <=> HybridIn(c.shares)
  BY <1>0, HybridNamed
<1>3. adv <=> \E x \in Range(g) : IsHybrid(x)
  OBVIOUS
<1>4. sent <=> \E x \in Range(h) : IsHybrid(x)
  OBVIOUS
<1>5. classify(g, h) =
        IF ~adv THEN "no-hybrid-advertisement"
        ELSE IF sent THEN (IF first THEN "C1" ELSE "noncanonical")
        ELSE (IF first THEN "C2" ELSE "C3")
  <2> HIDE DEF g, h
  <2> QED
    BY <1>1 DEF classify
<1>6. TrueClass(c) =
        IF ~HybridIn(c.groups) THEN "no-hybrid-advertisement"
        ELSE IF HybridIn(c.shares) THEN (IF HybridFirst(c.groups) THEN "C1" ELSE "noncanonical")
        ELSE (IF HybridFirst(c.groups) THEN "C2" ELSE "C3")
  BY DEF TrueClass
<1> HIDE DEF adv, sent, first, g, h
<1>7. classify(g, h) = TrueClass(c)
  BY <1>1, <1>2, <1>5, <1>6
<1> QED
  BY <1>7 DEF g, h

\* A wrong class comes from a retried connection without its first
\* ClientHello, from a hybrid without a name or from GREASE in front, and from
\* nothing else.
THEOREM SurveyWrongClassOnlyBy == Spec => []WrongClassOnlyBy
<1>1. IndInv => WrongClassOnlyBy
  <2> SUFFICES ASSUME IndInv, NEW s \in WithState("evaluated"),
                      fault = "client-default-v18", rec[s].typed,
                      rec[s].label \notin {"unparsed", TrueClass(conn[s])},
                      ~(Retried(s) /\ ~FirstCaptured(s)),
                      ~Unnamed(conn[s]), ~GreaseFirst(conn[s])
               PROVE  FALSE
    BY DEF WrongClassOnlyBy
  <2>1. s \in Slots /\ Captured(s) /\ Faithful(s, rec[s])
    BY DEF IndInv, RecordOK, WithState
  <2>2. conn[s].groups \in Seq(Nat) /\ conn[s].shares \in Seq(Nat)
    BY <2>1 DEF IndInv, TypeOK, Connection
  <2>3. rec[s].label = classify(Named(FirstHello(s).groups), Named(FirstHello(s).shares))
    BY <2>1 DEF Faithful
  <2>4. \A h : classify(Named(<<>>), h) = "unparsed"
    <3>1. Named(<<>>) = <<>>
      BY DEF Named
    <3>2. Range(<<>>) = {}
      BY DEF Range
    <3> QED
      BY <3>1, <3>2 DEF classify
  <2>5. CASE FirstHello(s) = NoOffer
    BY <2>3, <2>4, <2>5 DEF NoOffer
  <2>6. CASE FirstHello(s) = [groups |-> conn[s].groups, shares |-> conn[s].shares]
    <3>1. FirstHello(s).groups = conn[s].groups /\ FirstHello(s).shares = conn[s].shares
      BY <2>6
    <3>2. CASE conn[s].groups = <<>>
      BY <2>3, <2>4, <3>1, <3>2
    <3>3. CASE conn[s].groups # <<>>
      BY <2>2, <2>3, <3>1, <3>3, ClassifyIsTrue
    <3> QED
      BY <3>2, <3>3
  <2> QED
    BY <2>1, <2>5, <2>6, FirstHelloFacts
<1> QED
  BY <1>1, SurveyInductive, PTL

\* The larger set counts at least as much.
LEMMA CountBound ==
    ASSUME NEW S, NEW T, IsFiniteSet(T), S \subseteq T
    PROVE  IsFiniteSet(S) /\ Cardinality(S) \in Nat /\ Cardinality(S) <= Cardinality(T)
  BY FS_Subset, FS_CardinalityType

\* Three disjoint parts count for the whole.
LEMMA CountParts ==
    ASSUME NEW S, IsFiniteSet(S), NEW A, NEW B, NEW C, S = A \cup B \cup C,
           A \cap B = {}, A \cap C = {}, B \cap C = {}
    PROVE  Cardinality(A) + Cardinality(B) + Cardinality(C) = Cardinality(S)
<1>1. /\ IsFiniteSet(A) /\ IsFiniteSet(B) /\ IsFiniteSet(C)
      /\ Cardinality(A) \in Nat /\ Cardinality(B) \in Nat /\ Cardinality(C) \in Nat
  BY CountBound
<1>2. IsFiniteSet(A \cup B) /\ Cardinality(A \cup B) = Cardinality(A) + Cardinality(B) - Cardinality(A \cap B)
  BY <1>1, FS_Union
<1>3. Cardinality((A \cup B) \cup C) =
         Cardinality(A \cup B) + Cardinality(C) - Cardinality((A \cup B) \cap C)
  BY <1>1, <1>2, FS_Union
<1>4. (A \cup B) \cap C = {} /\ Cardinality({}) = 0
  BY FS_EmptySet
<1>5. Cardinality(A \cup B) = Cardinality(A) + Cardinality(B)
  BY <1>1, <1>2, <1>4
<1>6. Cardinality(S) = Cardinality(A \cup B) + Cardinality(C) - 0
  BY <1>3, <1>4
<1> QED
  BY <1>1, <1>5, <1>6

\* A row accounts for each run once and exceeds no column of what the
\* connections did, for every number of runs.
THEOREM SurveyCountsSound == Spec => []CountsSound
<1>1. IndInv => CountsSound
  <2> SUFFICES ASSUME IndInv, NEW client \in Labels
               PROVE  LET row == Tally(client)
                          mine == {s \in Slots : under[s] = client}
                      IN  /\ row.hybrid + row.classical + row.other = row.n
                          /\ row.hybrid <= Cardinality({s \in mine : conn[s].final = X25519MLKEM768})
                          /\ row.classical <= Cardinality({s \in mine : conn[s].final = X25519})
                          /\ row.hrr <= Cardinality({s \in mine : Retried(s)})
                          /\ row.completed <= Cardinality({s \in mine : conn[s].end # "failed"})
                          /\ row.success <= Cardinality({s \in mine : conn[s].final # None})
                          /\ row.precondition <= Cardinality({s \in mine : Configured => SentConfigured(s)})
    BY DEF CountsSound
  <2> DEFINE mine == {s \in Slots : under[s] = client}
             In(b) == {s \in RunsOf(client) : Bucket(rec[s].final) = b}
             Yes == {s \in RunsOf(client) : rec[s].hrr = "yes"}
             Completed == {s \in RunsOf(client) : rec[s].detail = "handshake-completed"}
             Answered == {s \in RunsOf(client) : rec[s].result = "success"}
             Verified == {s \in RunsOf(client) : rec[s].pre}
  <2>1. /\ Tally(client).n = Cardinality(RunsOf(client))
        /\ Tally(client).hybrid = Cardinality(In("hybrid"))
        /\ Tally(client).classical = Cardinality(In("classical"))
        /\ Tally(client).other = Cardinality(In("other"))
        /\ Tally(client).hrr = Cardinality(Yes)
        /\ Tally(client).completed = Cardinality(Completed)
        /\ Tally(client).success = Cardinality(Answered)
        /\ Tally(client).precondition = Cardinality(Verified)
    BY DEF Tally, InBucket
  <2>2. ASSUME NEW s \in RunsOf(client)
        PROVE  s \in mine /\ Faithful(s, rec[s]) /\ conn[s].final \in Codes
    BY DEF RunsOf, WithState, IndInv, RecordOK, TypeOK, Connection
  <2>3. \A T \in SUBSET mine : IsFiniteSet(T)
    BY SurveyAssumption, FS_Subset
  <2>4. Cardinality(In("hybrid")) + Cardinality(In("classical")) + Cardinality(In("other"))
           = Cardinality(RunsOf(client))
    <3>1. \A f : Bucket(f) \in {"hybrid", "classical", "other"}
      BY DEF Bucket
    <3>2. /\ RunsOf(client) = In("hybrid") \cup In("classical") \cup In("other")
          /\ In("hybrid") \cap In("classical") = {} /\ In("hybrid") \cap In("other") = {}
          /\ In("classical") \cap In("other") = {}
      BY <3>1
    <3>3. IsFiniteSet(RunsOf(client))
      BY <2>2, <2>3
    <3> HIDE DEF In
    <3> QED
      BY <3>2, <3>3, CountParts
  <2>5. /\ In("hybrid") \subseteq {s \in mine : conn[s].final = X25519MLKEM768}
        /\ In("classical") \subseteq {s \in mine : conn[s].final = X25519}
    <3>1. ASSUME NEW s \in RunsOf(client)
          PROVE  /\ Bucket(rec[s].final) = "hybrid" => conn[s].final = X25519MLKEM768
                 /\ Bucket(rec[s].final) = "classical" => conn[s].final = X25519
      <4>1. rec[s].final # NoName => rec[s].final = group_name(conn[s].final)
        BY <2>2 DEF Faithful
      <4>2. /\ Bucket(rec[s].final) = "hybrid" => rec[s].final.text = "X25519MLKEM768"
            /\ Bucket(rec[s].final) = "classical" => rec[s].final.text = "X25519"
        BY DEF Bucket
      <4>3. NoName.text = "none"
        BY DEF NoName, NameOf
      <4> QED
        BY <2>2, <4>1, <4>2, <4>3, NameFacts
    <3> QED
      BY <2>2, <3>1
  <2>6. Yes \subseteq {s \in mine : Retried(s)}
    BY <2>2 DEF Faithful
  <2>7. Completed \subseteq {s \in mine : conn[s].end # "failed"}
    BY <2>2 DEF Faithful
  <2>8. /\ Cardinality(In("hybrid")) <= Cardinality({s \in mine : conn[s].final = X25519MLKEM768})
        /\ Cardinality(In("classical")) <= Cardinality({s \in mine : conn[s].final = X25519})
    BY <2>3, <2>5, CountBound
  <2>9. Cardinality(Yes) <= Cardinality({s \in mine : Retried(s)})
    BY <2>3, <2>6, CountBound
  <2>10. Cardinality(Completed) <= Cardinality({s \in mine : conn[s].end # "failed"})
    BY <2>3, <2>7, CountBound
  <2>11. Cardinality(Answered) <= Cardinality({s \in mine : conn[s].final # None})
    <3>1. Answered \subseteq {s \in mine : conn[s].final # None}
      BY <2>2 DEF Faithful
    <3> QED
      BY <2>3, <3>1, CountBound
  <2>12. Cardinality(Verified) <= Cardinality({s \in mine : Configured => SentConfigured(s)})
    <3>1. Verified \subseteq {s \in mine : Configured => SentConfigured(s)}
      BY <2>2 DEF Faithful, SentConfigured
    <3> QED
      BY <2>3, <3>1, CountBound
  <2> QED
    BY <2>1, <2>4, <2>8, <2>9, <2>10, <2>11, <2>12
<1> QED
  BY <1>1, SurveyInductive, PTL

\* The expression of _grease matches a number of four digits exactly when it
\* is one of the sixteen values of RFC 8701.
LEMMA GreaseDigits ==
    ASSUME NEW a \in Nat
    PROVE  /\ a < 65536 /\ (a \div 4096) % 16 = (a \div 16) % 16
           /\ (a \div 256) % 16 = 10 /\ (a \div 1) % 16 = 10
           <=> a \in GREASE
<1>1. ASSUME a < 65536, (a \div 4096) % 16 = (a \div 16) % 16,
             (a \div 256) % 16 = 10, (a \div 1) % 16 = 10
      PROVE  a \in GREASE
  <2>1. PICK x \in 0 .. 15 : x = (a \div 16) % 16
    OBVIOUS
  <2>2. a = 16 * x + 10 + 256 * (16 * x + 10)
    BY <1>1, <2>1
  <2> QED
    BY <2>2 DEF GREASE
<1>2. ASSUME a \in GREASE
      PROVE  /\ a < 65536 /\ (a \div 4096) % 16 = (a \div 16) % 16
             /\ (a \div 256) % 16 = 10 /\ (a \div 1) % 16 = 10
  <2>1. PICK x \in 0 .. 15 : a = 16 * x + 10 + 256 * (16 * x + 10)
    BY <1>2 DEF GREASE
  <2> QED
    BY <2>1
<1> QED
  BY <1>1, <1>2

\* So _grease joins the names of GREASE codes and keeps all others apart.
LEMMA GreaseName ==
    ASSUME NEW a \in Nat
    PROVE  Matches(group_name(a)) <=> a \in GREASE
<1>1. CASE a \in {X25519, X25519MLKEM768, Kyber}
  <2>1. a \notin GREASE
    BY <1>1, GreaseDigits DEF X25519, X25519MLKEM768, Kyber
  <2>2. group_name(a).text # "0x"
    BY <1>1 DEF group_name, GROUP_NAMES, NameOf, None, X25519, X25519MLKEM768, Kyber
  <2> QED
    BY <2>1, <2>2 DEF Matches
<1>2. CASE a \notin {X25519, X25519MLKEM768, Kyber}
  <2>1. group_name(a) = [text |-> "0x", digits |-> a]
    BY <1>2 DEF group_name, GROUP_NAMES, None
  <2>2. group_name(a).text = "0x" /\ group_name(a).digits = a
    BY <2>1
  <2>3. Matches(group_name(a)) <=>
           /\ a < 65536 /\ (a \div 4096) % 16 = (a \div 16) % 16
           /\ (a \div 256) % 16 = 10 /\ (a \div 1) % 16 = 10
    BY <2>2 DEF Matches, Digit
  <2> QED
    BY <2>3, GreaseDigits
<1> QED
  BY <1>1, <1>2

\* Two lists look the same after _grease exactly when they differ in GREASE only.
LEMMA GreaseSame ==
    ASSUME NEW g \in Seq(Nat), NEW h \in Seq(Nat)
    PROVE  Grease(Named(g)) = Grease(Named(h)) <=> Ungreased(g) = Ungreased(h)
<1> DEFINE GN(a) == IF a \in GREASE THEN NameOf("GREASE") ELSE group_name(a)
           UC(a) == IF a \in GREASE THEN None ELSE a
<1>1. ASSUME NEW codes \in Seq(Nat)
      PROVE  /\ Grease(Named(codes)) = [i \in DOMAIN codes |-> GN(codes[i])]
             /\ Ungreased(codes) = [i \in DOMAIN codes |-> UC(codes[i])]
  <2>1. /\ DOMAIN Named(codes) = DOMAIN codes
        /\ \A i \in DOMAIN codes : codes[i] \in Nat /\ Named(codes)[i] = group_name(codes[i])
    BY NamedType
  <2>2. \A i \in DOMAIN codes :
           Matches(Named(codes)[i]) <=> codes[i] \in GREASE
    BY <2>1, GreaseName
  <2>3. Grease(Named(codes)) = [i \in DOMAIN codes |-> GN(codes[i])]
    BY <2>1, <2>2 DEF Grease
  <2> QED
    BY <2>3 DEF Ungreased
<1>2. ASSUME NEW a \in Nat, NEW b \in Nat
      PROVE  GN(a) = GN(b) <=> UC(a) = UC(b)
  <2>1. NameOf("GREASE").text = "GREASE"
    BY DEF NameOf
  <2>2. group_name(a) # NameOf("GREASE") /\ group_name(b) # NameOf("GREASE")
    BY <2>1, NameFacts DEF Codes
  <2>3. a # None /\ b # None
    BY DEF None
  <2>4. group_name(a) = group_name(b) <=> a = b
    BY NamesInjective DEF Codes
  <2> QED
    BY <2>2, <2>3, <2>4
<1> HIDE DEF GN, UC
<1>3. /\ \A i \in DOMAIN g : g[i] \in Nat
      /\ \A i \in DOMAIN h : h[i] \in Nat
  OBVIOUS
<1>4. Grease(Named(g)) = Grease(Named(h)) <=>
         DOMAIN g = DOMAIN h /\ \A i \in DOMAIN g : GN(g[i]) = GN(h[i])
  BY <1>1
<1>5. Ungreased(g) = Ungreased(h) <=>
         DOMAIN g = DOMAIN h /\ \A i \in DOMAIN g : UC(g[i]) = UC(h[i])
  BY <1>1
<1> QED
  BY <1>2, <1>3, <1>4, <1>5

\* Two lists have the same names exactly when they are the same.
LEMMA NamedSame ==
    ASSUME NEW g \in Seq(Nat), NEW h \in Seq(Nat)
    PROVE  Named(g) = Named(h) <=> g = h
<1> SUFFICES ASSUME Named(g) = Named(h) PROVE g = h
  OBVIOUS
<1>1. /\ DOMAIN g = DOMAIN h
      /\ \A i \in DOMAIN g : g[i] \in Nat /\ h[i] \in Nat /\ group_name(g[i]) = group_name(h[i])
  BY NamedType
<1>2. \A i \in DOMAIN g : g[i] = h[i]
  BY <1>1, NamesInjective DEF Codes
<1> QED
  BY <1>1, <1>2

\* Runs whose first ClientHello is in the capture share a row exactly when
\* their offers are the same: in the v16 survey up to GREASE values, in the
\* table of v18 literally, once reclassify is through.
THEOREM SurveyOneRowPerOffer == Spec => []OneRowPerOffer
<1>1. IndInv => OneRowPerOffer
  <2> SUFFICES ASSUME IndInv,
                      NEW s \in {u \in WithState("evaluated") : FirstCaptured(u)},
                      NEW t \in {u \in WithState("evaluated") : FirstCaptured(u)}
               PROVE  /\ fault = "client-default" =>
                            (RowV16(s) = RowV16(t) <=>
                                /\ under[s] = under[t]
                                /\ Ungreased(conn[s].groups) = Ungreased(conn[t].groups)
                                /\ Ungreased(conn[s].shares) = Ungreased(conn[t].shares))
                      /\ fault = "client-default-v18" /\ repair = "done" =>
                            (RowV18(s) = RowV18(t) <=>
                                /\ under[s] = under[t]
                                /\ conn[s].groups = conn[t].groups
                                /\ conn[s].shares = conn[t].shares)
    BY DEF OneRowPerOffer
  <2>1. ASSUME NEW u \in WithState("evaluated"), FirstCaptured(u), fault # "negotiation-function"
        PROVE  /\ conn[u].groups \in Seq(Nat) /\ conn[u].shares \in Seq(Nat)
               /\ rec[u].groups = Named(conn[u].groups) /\ rec[u].shares = Named(conn[u].shares)
    <3>1. u \in Slots /\ Captured(u) /\ Faithful(u, rec[u])
      BY DEF IndInv, RecordOK, WithState
    <3>2. conn[u].groups \in Seq(Nat) /\ conn[u].shares \in Seq(Nat)
      BY <3>1 DEF IndInv, TypeOK, Connection
    <3>3. 1 \in client_hellos(u)
      BY <2>1, <3>1, ClientFrames DEF FirstCaptured
    <3>4. FirstHello(u) = [groups |-> conn[u].groups, shares |-> conn[u].shares]
      BY <2>1, <3>1, <3>3, FirstHelloFacts
    <3>5. rec[u].groups = Named(conn[u].groups) /\ rec[u].shares = Named(conn[u].shares)
      BY <2>1, <3>1, <3>4 DEF Faithful
    <3> QED
      BY <3>2, <3>5
  <2>2. ASSUME fault = "client-default"
        PROVE  RowV16(s) = RowV16(t) <=>
                  /\ under[s] = under[t]
                  /\ Ungreased(conn[s].groups) = Ungreased(conn[t].groups)
                  /\ Ungreased(conn[s].shares) = Ungreased(conn[t].shares)
    <3> DEFINE G(u) == Grease(Named(conn[u].groups))
               H(u) == Grease(Named(conn[u].shares))
    <3>1. /\ G(s) = G(t) <=> Ungreased(conn[s].groups) = Ungreased(conn[t].groups)
          /\ H(s) = H(t) <=> Ungreased(conn[s].shares) = Ungreased(conn[t].shares)
      BY <2>1, <2>2, GreaseSame
    <3>2. RowV16(s) = <<under[s], G(s), H(s)>> /\ RowV16(t) = <<under[t], G(t), H(t)>>
      BY <2>1, <2>2 DEF RowV16
    <3> HIDE DEF G, H
    <3>3. RowV16(s) = RowV16(t) <=> under[s] = under[t] /\ G(s) = G(t) /\ H(s) = H(t)
      BY <3>2
    <3> QED
      BY <3>1, <3>3, Zenon
  <2>3. ASSUME fault = "client-default-v18", repair = "done"
        PROVE  RowV18(s) = RowV18(t) <=>
                  /\ under[s] = under[t]
                  /\ conn[s].groups = conn[t].groups
                  /\ conn[s].shares = conn[t].shares
    <3> DEFINE L(u) == rec[u].label
               G(u) == rec[u].groups
               H(u) == rec[u].shares
    <3>1. L(s) = classify(G(s), H(s)) /\ L(t) = classify(G(t), H(t))
      BY <2>3 DEF IndInv, Walk, Stale, current
    <3>2. /\ G(s) = G(t) <=> conn[s].groups = conn[t].groups
          /\ H(s) = H(t) <=> conn[s].shares = conn[t].shares
      BY <2>1, <2>3, NamedSame
    <3>3. RowV18(s) = <<under[s], L(s), G(s), H(s)>> /\ RowV18(t) = <<under[t], L(t), G(t), H(t)>>
      BY DEF RowV18
    <3> HIDE DEF L, G, H
    <3>4. RowV18(s) = RowV18(t) <=>
             under[s] = under[t] /\ L(s) = L(t) /\ G(s) = G(t) /\ H(s) = H(t)
      BY <3>3
    <3> QED
      BY <3>1, <3>2, <3>4, Zenon
  <2> QED
    BY <2>2, <2>3
<1> QED
  BY <1>1, SurveyInductive, PTL

-----------------------------------------------------------------------------
(* Captures that lost nothing.                                             *)

\* The evaluators had the whole connection before them.
Whole(s) == pcap[s].file = "pcapng" /\ pcap[s].frames = DOMAIN Wire(conn[s])

\* What a record of such a connection says besides its lists and its label.
Told(s, r) ==
    /\ r.final = group_name(conn[s].final)
    /\ r.hrr = IF Retried(s) THEN "yes" ELSE "no"
    /\ Configured => (r.pre <=> CLIENTS[under[s]] =
                                [groups |-> conn[s].groups, shares |-> conn[s].shares])
    /\ fault = "client-default-v18" => (r.result = "success" <=> conn[s].final # None)

WholeTold(s) == rec[s].state = "evaluated" /\ Whole(s) => Told(s, rec[s])

TellInv == IndInv /\ \A s \in Slots : WholeTold(s)

\* Where the Hellos of a connection are.
LEMMA WireHas ==
    ASSUME NEW c
    PROVE  /\ 1 \in DOMAIN Wire(c)
           /\ c.retry # None => 2 \in DOMAIN Wire(c)
           /\ c.final # None => (IF c.retry = None THEN 2 ELSE 4) \in DOMAIN Wire(c)
<1> DEFINE first  == Client(c.groups, c.shares)
           retry  == RetryRequest(c.retry)
           second == Client(c.groups, <<c.retry>>)
           answer == ServerHello(c.final)
<1>1. /\ c.retry = None /\ c.final = None => Wire(c) = <<first>>
      /\ c.retry = None /\ c.final # None => Wire(c) = <<first, answer>>
      /\ c.retry # None /\ c.final = None => Wire(c) = <<first, retry, second>>
      /\ c.retry # None /\ c.final # None => Wire(c) = <<first, retry, second, answer>>
  BY DEF Wire
<1> HIDE DEF first, retry, second, answer
<1>2. /\ DOMAIN <<first>> = 1 .. 1 /\ DOMAIN <<first, answer>> = 1 .. 2
      /\ DOMAIN <<first, retry, second>> = 1 .. 3
      /\ DOMAIN <<first, retry, second, answer>> = 1 .. 4
  OBVIOUS
<1> QED
  BY <1>1, <1>2

\* A whole capture shows whether the server retried.
LEMMA WholeRetries ==
    ASSUME NEW s, Captured(s), Whole(s)
    PROVE  hrr_count(s) > 0 <=> Retried(s)
<1>1. \A k \in Retries(s) : k = 2
  <2> SUFFICES ASSUME NEW k \in Retries(s) PROVE k = 2
    OBVIOUS
  <2>1. /\ k \in DOMAIN Wire(conn[s])
        /\ Wire(conn[s])[k].by = "server" /\ Wire(conn[s])[k].hrr
    BY DEF Captured, Retries, server_hellos, Hellos
  <2>2. k \in {1, 2, 3, 4}
    BY <2>1, WireFacts
  <2> QED
    BY <2>1, <2>2, WireFacts DEF Client, ServerHello
<1>2. ASSUME Retried(s) PROVE 2 \in Retries(s)
  <2>1. conn[s].retry # None /\ 2 \in DOMAIN Wire(conn[s])
    BY <1>2, WireHas DEF Retried
  <2>2. Wire(conn[s])[2] = RetryRequest(conn[s].retry)
    BY <2>1, WireFacts
  <2> QED
    BY <2>1, <2>2 DEF Whole, Retries, server_hellos, Hellos, RetryRequest
<1>3. CASE Retried(s)
  <2>1. Retries(s) = {2}
    BY <1>1, <1>2, <1>3
  <2>2. hrr_count(s) = 1
    BY <2>1, FS_Singleton DEF hrr_count
  <2> QED
    BY <1>3, <2>2
<1>4. CASE ~Retried(s)
  <2>1. Retries(s) = {}
    BY <1>4, RetryFrames
  <2>2. hrr_count(s) = 0
    BY <2>1, FS_EmptySet DEF hrr_count
  <2> QED
    BY <1>4, <2>2
<1> QED
  BY <1>3, <1>4

\* It holds the ServerHello if there was one.
LEMMA WholeAnswer ==
    ASSUME NEW s, Captured(s), Whole(s)
    PROVE  /\ final_group(s) = conn[s].final
           /\ server_hello_count(s) > 0 <=> conn[s].final # None
<1> DEFINE at == IF conn[s].retry = None THEN 2 ELSE 4
<1>1. ASSUME conn[s].final # None PROVE RealHellos(s) = {at}
  <2>1. at \in DOMAIN Wire(conn[s])
    BY <1>1, WireHas
  <2>2. Wire(conn[s])[at] = ServerHello(conn[s].final)
    BY <1>1, <2>1, WireFacts
  <2>3. at \in RealHellos(s)
    BY <2>1, <2>2 DEF Whole, RealHellos, Retries, server_hellos, Hellos, ServerHello
  <2>4. \A k \in RealHellos(s) : k = at
    BY RealFrames
  <2> QED
    BY <2>3, <2>4
<1>2. conn[s].final = None => RealHellos(s) = {}
  BY RealFrames
<1>3. CASE conn[s].final = None
  <2>1. server_hello_count(s) = 0
    BY <1>2, <1>3, FS_EmptySet DEF server_hello_count
  <2> QED
    BY <1>2, <1>3, <2>1 DEF final_group
<1>4. CASE conn[s].final # None
  <2>1. RealHellos(s) = {at}
    BY <1>1, <1>4
  <2>2. server_hello_count(s) = 1
    BY <2>1, FS_Singleton DEF server_hello_count
  <2>3. Max({at}) \in {at}
    <3>1. at >= at
      OBVIOUS
    <3> HIDE DEF at
    <3> QED
      BY <3>1 DEF Max
  <2>4. Max(RealHellos(s)) \in RealHellos(s)
    BY <2>1, <2>3
  <2>5. final_group(s) = conn[s].final
    BY <2>1, <2>4, RealFrames DEF final_group
  <2> QED
    BY <1>4, <2>2, <2>5
<1> QED
  BY <1>3, <1>4

\* Its first ClientHello is the client's first one.
LEMMA WholeFirst ==
    ASSUME NEW s, Captured(s), Whole(s)
    PROVE  /\ client_hellos(s) # {}
           /\ FirstHello(s) = [groups |-> conn[s].groups, shares |-> conn[s].shares]
<1>1. 1 \in pcap[s].frames
  BY WireHas DEF Whole
<1>2. 1 \in client_hellos(s)
  BY <1>1, ClientFrames
<1> QED
  BY <1>1, <1>2, FirstHelloFacts DEF FirstCaptured

\* The precondition on a whole capture.
LEMMA WholePrecondition ==
    ASSUME NEW s, Captured(s), Whole(s)
    PROVE  client_precondition_v15(s) <=>
              CLIENTS[under[s]] = [groups |-> conn[s].groups, shares |-> conn[s].shares]
  BY WholeFirst DEF client_precondition_v15

\* What the evaluators take from a whole capture.
LEMMA WholeCapture ==
    ASSUME TypeOK, NEW s \in Slots, Captured(s), Whole(s), rec[s] = RawRecord(s)
    PROVE  /\ FromCapture(s) \in Record
           /\ FromCapture(s).final = group_name(conn[s].final)
           /\ FromCapture(s).hrr = IF Retried(s) THEN "yes" ELSE "no"
<1> DEFINE h == IF hrr_count(s) > 0 THEN "yes" ELSE "no"
           f == group_name(final_group(s))
<1>1. FromCapture(s) \in Record
  <2>1. Base(s, FromCapture(s))
    BY BaseSound
  <2> QED
    BY <2>1 DEF Base
<1>2. FromCapture(s) = [RawRecord(s) EXCEPT !.state = "evaluated", !.hrr = h, !.final = f]
  BY DEF FromCapture
<1>3. FromCapture(s).hrr = h /\ FromCapture(s).final = f
  BY <1>2 DEF RawRecord, NoRecord
<1>4. f = group_name(conn[s].final)
  BY WholeAnswer
<1>5. h = IF Retried(s) THEN "yes" ELSE "no"
  BY WholeRetries
<1> HIDE DEF h, f
<1> QED
  BY <1>1, <1>3, <1>4, <1>5

\* Each evaluator tells what it read.
LEMMA EvaluatedTold ==
    ASSUME TypeOK, NEW s \in Slots, Captured(s), Whole(s), rec[s] = RawRecord(s)
    PROVE  Told(s, Evaluated(s))
<1> DEFINE b == FromCapture(s)
           c == Read(s)
<1>1. /\ b \in Record /\ b.final = group_name(conn[s].final)
      /\ b.hrr = IF Retried(s) THEN "yes" ELSE "no"
  BY WholeCapture
<1>2. IsFile(s) /\ pcap[s].file # "empty"
  BY DEF Whole, IsFile
<1>3. c \in Record /\ c.final = b.final /\ c.hrr = b.hrr
  <2> DEFINE g == Named(FirstHello(s).groups)
             h == Named(FirstHello(s).shares)
  <2>1. c = [b EXCEPT !.groups = g, !.shares = h]
    BY <1>2 DEF Read, Lists
  <2>2. c \in Record
    <3>1. Base(s, c)
      BY ReadSound
    <3> QED
      BY <3>1 DEF Base
  <2> HIDE DEF b, c, g, h
  <2> QED
    BY <1>1, <2>1, <2>2 DEF Record
<1>4. fault \in {"negotiation-function", "client-default", "default-direct",
                 "server-software", "client-default-v18"}
  BY SurveyAssumption DEF TypeOK
<1> DEFINE p == client_precondition_v15(s)
           e == Evaluated(s)
<1>5. p \in BOOLEAN
  BY DEF client_precondition_v15
<1>6. CASE fault = "negotiation-function"
  <2> DEFINE d == IF conn[s].end = "failed" THEN "handshake-incomplete" ELSE "handshake-completed"
             q == (IsFile(s) /\ pcap[s].file # "empty") /\ p
  <2>1. e = [b EXCEPT !.pre = q, !.detail = d]
    BY <1>2, <1>6 DEF Evaluated, evaluate_v15
  <2>2. q = p
    BY <1>2, <1>5
  <2> HIDE DEF b, e, d, q
  <2>3. e.final = b.final /\ e.hrr = b.hrr /\ e.pre = q
    BY <1>1, <2>1 DEF Record
  <2>4. p <=> CLIENTS[under[s]] = [groups |-> conn[s].groups, shares |-> conn[s].shares]
    BY WholePrecondition
  <2> HIDE DEF p
  <2>5. fault # "client-default-v18"
    BY <1>6
  <2>6. Told(s, e)
    BY <1>1, <2>2, <2>3, <2>4, <2>5 DEF Told
  <2> QED
    BY <2>6 DEF e
<1>7. CASE fault \in {"client-default", "default-direct", "server-software"}
  <2> DEFINE q == IF fault = "server-software" THEN IsFile(s) /\ p ELSE FirstHello(s).groups # <<>>
  <2>1. e = [c EXCEPT !.pre = q]
    BY <1>7 DEF Evaluated, evaluate_v16
  <2>2. Configured => q = p
    BY <1>2, <1>5, <1>7 DEF Configured
  <2> HIDE DEF c, e, q
  <2>3. e.final = c.final /\ e.hrr = c.hrr /\ e.pre = q
    BY <1>3, <2>1 DEF Record
  <2>4. p <=> CLIENTS[under[s]] = [groups |-> conn[s].groups, shares |-> conn[s].shares]
    BY WholePrecondition
  <2> HIDE DEF b, p
  <2>5. fault # "client-default-v18"
    BY <1>7
  <2>6. Told(s, e)
    BY <1>1, <1>3, <2>2, <2>3, <2>4, <2>5 DEF Told
  <2> QED
    BY <2>6 DEF e
<1>8. CASE fault = "client-default-v18"
  <2> DEFINE q == c.groups # <<>>
             r == IF IsFile(s) /\ server_hello_count(s) > 0 THEN "success" ELSE "failure"
             l == classify(c.groups, c.shares)
  <2>1. e = [c EXCEPT !.pre = q, !.result = r, !.label = l, !.typed = TRUE]
    BY <1>8 DEF Evaluated, evaluate_v18
  <2>2. r = "success" <=> conn[s].final # None
    BY <1>2, WholeAnswer
  <2> HIDE DEF b, c, e, q, r, l
  <2>3. e.final = c.final /\ e.hrr = c.hrr /\ e.result = r
    BY <1>3, <2>1 DEF Record
  <2>4. ~Configured
    BY <1>8 DEF Configured
  <2>5. Told(s, e)
    BY <1>1, <1>3, <2>2, <2>3, <2>4 DEF Told
  <2> QED
    BY <2>5 DEF e
<1> QED
  BY <1>4, <1>6, <1>7, <1>8 DEF e

\* Records from before the order counted told what happened, too.
LEMMA TellInit == Init => TellInv
<1> SUFFICES ASSUME Init PROVE TellInv
  OBVIOUS
<1>1. PICK old \in SUBSET Slots, offer \in [Slots -> Older] :
         /\ fault # "client-default-v18" => old = {}
         /\ conn = [s \in Slots |-> IF s \in old THEN OlderConnection(offer[s]) ELSE NoConnection]
         /\ rec = [s \in Slots |-> IF s \in old THEN OlderRecord(offer[s]) ELSE NoRecord]
  BY DEF Init
<1>2. ASSUME NEW s \in Slots, rec[s].state = "evaluated"
      PROVE  Told(s, rec[s])
  <2>1. s \in old
    BY <1>1, <1>2, NoRecordType
  <2>2. /\ fault = "client-default-v18" /\ conn[s] = OlderConnection(offer[s])
        /\ rec[s] = OlderRecord(offer[s])
    BY <1>1, <2>1
  <2>3. PICK head : head = Head(offer[s].shares)
    OBVIOUS
  <2>4. head \in Nat
    <3>1. offer[s] \in Older
      OBVIOUS
    <3>2. offer[s].shares \in Seq(Nat) /\ offer[s].shares # <<>>
      BY <3>1, SurveyAssumption
    <3> QED
      BY <2>3, <3>2
  <2>5. conn[s].final = head /\ conn[s].retry = None
    BY <2>2, <2>3 DEF OlderConnection
  <2>6. rec[s].final = group_name(head) /\ rec[s].hrr = "no" /\ rec[s].result = "success"
    BY <2>2, <2>3 DEF OlderRecord, NoRecord
  <2>7. head # None /\ ~Configured
    BY <2>2, <2>4 DEF None, Configured
  <2> QED
    BY <2>5, <2>6, <2>7 DEF Told, Retried
<1> QED
  BY <1>2, SurveyInit DEF TellInv, WholeTold

\* What is told of a slot depends on its connection and on what the record
\* says besides its label.
LEMMA TellStable ==
    ASSUME NEW s, fault' = fault, under'[s] = under[s], conn'[s] = conn[s], pcap'[s] = pcap[s],
           WholeTold(s),
           rec'[s].state = "evaluated" => rec[s].state = "evaluated",
           rec'[s].final = rec[s].final, rec'[s].hrr = rec[s].hrr,
           rec'[s].pre = rec[s].pre, rec'[s].result = rec[s].result
    PROVE  WholeTold(s)'
  BY DEF WholeTold, Whole, Told, Retried, Configured

\* Only the evaluators write what is told; reclassify writes labels.
LEMMA TellStep == TellInv /\ [Next]_vars => TellInv'
<1> SUFFICES ASSUME TellInv, [Next]_vars PROVE TellInv'
  OBVIOUS
<1>1. IndInv /\ IndInv' /\ \A s \in Slots : WholeTold(s)
  BY SurveyStep DEF TellInv
<1>2. TypeOK /\ \A s \in Slots : Captured(s) /\ RecordOK(s)
  BY <1>1 DEF IndInv
<1>3. conn \in [Slots -> Connection] /\ pcap \in [Slots -> Capture] /\ rec \in [Slots -> Record]
  BY <1>2 DEF TypeOK
<1>4. ASSUME NEW s \in Slots, Run(s), NEW t \in Slots
      PROVE  WholeTold(t)'
  <2>1. PICK c, p : conn' = [conn EXCEPT ![s] = c] /\ pcap' = [pcap EXCEPT ![s] = p]
    BY <1>4 DEF Run
  <2>2. PICK raw : raw = RawRecord(s)'
    OBVIOUS
  <2>3. rec' = [rec EXCEPT ![s] = raw] /\ fault' = fault /\ under' = under
    BY <1>4, <2>2 DEF Run
  <2>4. CASE t = s
    <3>1. rec'[t] = raw
      BY <1>3, <2>3, <2>4
    <3>2. raw.state = "raw"
      <4>1. raw = [NoRecord EXCEPT !.state = "raw",
                        !.result = IF conn'[s].end = "clean" THEN "success" ELSE "failure"]
        BY <2>2 DEF RawRecord
      <4> QED
        BY <4>1 DEF NoRecord
    <3> QED
      BY <3>1, <3>2 DEF WholeTold
  <2>5. CASE t # s
    <3>1. conn'[t] = conn[t] /\ pcap'[t] = pcap[t] /\ rec'[t] = rec[t] /\ under'[t] = under[t]
      BY <1>3, <2>1, <2>3, <2>5
    <3> QED
      BY <1>1, <2>3, <3>1, TellStable
  <2> QED
    BY <2>4, <2>5
<1>5. ASSUME NEW s \in Slots, Evaluate(s), NEW t \in Slots
      PROVE  WholeTold(t)'
  <2>1. PICK e : e = Evaluated(s)
    OBVIOUS
  <2>2. /\ rec[s].state = "raw" /\ rec' = [rec EXCEPT ![s] = e]
        /\ fault' = fault /\ under' = under /\ conn' = conn /\ pcap' = pcap
    BY <1>5, <2>1 DEF Evaluate, campaign
  <2>3. rec[s] = RawRecord(s)
    BY <1>2, <2>2 DEF RecordOK
  <2>4. CASE t = s
    <3>1. rec'[t] = e
      BY <1>3, <2>2, <2>4
    <3>2. Whole(s) => Told(s, e)
      BY <1>2, <2>1, <2>3, EvaluatedTold
    <3>3. (Whole(s)' <=> Whole(s)) /\ (Told(s, e)' <=> Told(s, e))
      BY <2>2 DEF Whole, Told, Retried, Configured
    <3> QED
      BY <2>4, <3>1, <3>2, <3>3 DEF WholeTold
  <2>5. CASE t # s
    <3>1. rec'[t] = rec[t]
      BY <1>3, <2>2, <2>5
    <3> QED
      BY <1>1, <2>2, <3>1, TellStable
  <2> QED
    BY <2>4, <2>5
<1>6. ASSUME Repair, NEW t \in Slots
      PROVE  WholeTold(t)'
  <2>1. PICK a, l : /\ rec' = [rec EXCEPT ![a].label = l, ![a].typed = TRUE]
                    /\ UNCHANGED <<fault, campaign>>
    BY <1>6 DEF Repair
  <2>2. PICK r \in Record : r = rec[t]
    BY <1>3
  <2> DEFINE q == [r EXCEPT !.label = l, !.typed = TRUE]
  <2>3. rec'[t] = r \/ rec'[t] = q
    BY <1>3, <2>1, <2>2
  <2>4. /\ q.state = r.state /\ q.final = r.final /\ q.hrr = r.hrr
        /\ q.pre = r.pre /\ q.result = r.result
    BY DEF Record
  <2> HIDE DEF q
  <2>5. /\ rec'[t].state = r.state /\ rec'[t].final = r.final /\ rec'[t].hrr = r.hrr
        /\ rec'[t].pre = r.pre /\ rec'[t].result = r.result
    BY <2>3, <2>4
  <2> QED
    BY <1>1, <2>1, <2>2, <2>5, TellStable DEF campaign
<1>7. ASSUME Die, NEW t \in Slots
      PROVE  WholeTold(t)'
  <2>1. PICK a : /\ rec' = rec \/ rec' = [rec EXCEPT ![a].state = "torn"]
                 /\ UNCHANGED <<fault, campaign>>
    BY <1>7 DEF Die
  <2>2. PICK r \in Record : r = rec[t]
    BY <1>3
  <2> DEFINE q == [r EXCEPT !.state = "torn"]
  <2>3. rec'[t] = r \/ rec'[t] = q
    BY <1>3, <2>1, <2>2
  <2>4. /\ q.state = "torn" /\ q.final = r.final /\ q.hrr = r.hrr
        /\ q.pre = r.pre /\ q.result = r.result
    BY DEF Record
  <2> HIDE DEF q
  <2>5. /\ rec'[t].state = "evaluated" => r.state = "evaluated"
        /\ rec'[t].final = r.final /\ rec'[t].hrr = r.hrr
        /\ rec'[t].pre = r.pre /\ rec'[t].result = r.result
    BY <2>3, <2>4
  <2> QED
    BY <1>1, <2>1, <2>2, <2>5, TellStable DEF campaign
<1>8. ASSUME UNCHANGED <<fault, campaign, rec>>, NEW t \in Slots
      PROVE  WholeTold(t)'
  BY <1>1, <1>8, TellStable DEF campaign
<1>9. Reclassify \/ Pass \/ NothingToDo \/ Raises \/ UNCHANGED vars
         => UNCHANGED <<fault, campaign, rec>>
  BY DEF Reclassify, Pass, NothingToDo, Raises, vars, campaign
<1>10. \A t \in Slots : WholeTold(t)'
  BY <1>4, <1>5, <1>6, <1>7, <1>8, <1>9 DEF Next, Step
<1> QED
  BY <1>1, <1>10 DEF TellInv

\* Where the capture lost no frame, the record says what happened and all of
\* it: whether the server retried and the group it answered with, which group
\* and share lists the client first sent, whether they were the configured
\* ones, and of v18 whether the server answered, and the class of a client
\* whose offer has no hybrid that the code cannot name and no GREASE in front.
\* With WrongClassOnlyBy and NothingInvented, a record errs by the loss of
\* frames, by an unknown hybrid or by GREASE alone.  (evaluate_v15, evaluate_v16, evaluate_v18, summarize_hellos)
WholeTruth ==
    \A s \in WithState("evaluated") : Whole(s) =>
        /\ Told(s, rec[s])
        /\ fault # "negotiation-function" => /\ rec[s].groups = Named(conn[s].groups)
                                             /\ rec[s].shares = Named(conn[s].shares)
        /\ /\ fault = "client-default-v18" /\ rec[s].typed /\ conn[s].groups # <<>>
           /\ ~Unnamed(conn[s]) /\ ~GreaseFirst(conn[s])
           => rec[s].label = TrueClass(conn[s])

\* The record of a capture without losses is exact, in every directory, for
\* every offer and behind every walk of reclassify.
THEOREM SurveyWholeTruth == Spec => []WholeTruth
<1>1. TellInv => WholeTruth
  <2> SUFFICES ASSUME TellInv, NEW s \in WithState("evaluated"), Whole(s)
               PROVE  /\ Told(s, rec[s])
                      /\ fault # "negotiation-function" => /\ rec[s].groups = Named(conn[s].groups)
                                                           /\ rec[s].shares = Named(conn[s].shares)
                      /\ /\ fault = "client-default-v18" /\ rec[s].typed /\ conn[s].groups # <<>>
                         /\ ~Unnamed(conn[s]) /\ ~GreaseFirst(conn[s])
                         => rec[s].label = TrueClass(conn[s])
    BY DEF WholeTruth
  <2>1. s \in Slots /\ Captured(s) /\ Faithful(s, rec[s])
    BY DEF TellInv, IndInv, RecordOK, WithState
  <2>2. Told(s, rec[s])
    BY <2>1 DEF TellInv, WholeTold, WithState
  <2>3. FirstHello(s).groups = conn[s].groups /\ FirstHello(s).shares = conn[s].shares
    BY <2>1, WholeFirst
  <2>4. fault # "negotiation-function" => /\ rec[s].groups = Named(conn[s].groups)
                                          /\ rec[s].shares = Named(conn[s].shares)
    BY <2>1, <2>3 DEF Faithful
  <2>5. ASSUME fault = "client-default-v18", rec[s].typed, conn[s].groups # <<>>,
               ~Unnamed(conn[s]), ~GreaseFirst(conn[s])
        PROVE  rec[s].label = TrueClass(conn[s])
    <3>1. rec[s].label = classify(rec[s].groups, rec[s].shares)
      BY <2>1, <2>5 DEF Faithful
    <3>2. conn[s].groups \in Seq(Nat) /\ conn[s].shares \in Seq(Nat)
      BY <2>1 DEF TellInv, IndInv, TypeOK, Connection
    <3> QED
      BY <2>4, <2>5, <3>1, <3>2, ClassifyIsTrue
  <2> QED
    BY <2>2, <2>4, <2>5
<1> QED
  BY <1>1, TellInit, TellStep, PTL DEF Spec
=============================================================================
