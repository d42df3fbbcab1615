----------------------------- MODULE ProxyProofs ----------------------------
(***************************************************************************)
(* Safety of run_proxy for every set of sessions, every script length and  *)
(* every recv size, and its refinement of module Splice.                   *)
(***************************************************************************)
EXTENDS Proxy, TLAPS

\* The control state and the bookkeeping of the splice loop fit together:
\* before the loop nothing is open, shut or rewritten; in it a side is shut
\* exactly when its source was removed from open_sockets.
LoopShape ==
    /\ pc \in {"bind", "accept", "connect", "first"} =>
          open = {} /\ shut = {} /\ ~mutated
    /\ pc \in {"select", "serve", "done"} =>
          \A p \in Peers : Other(p) \in shut <=> p \notin open
    /\ pc # "failed" => logged = IF mutated THEN 1 ELSE 0
    /\ pc = "done" /\ ~idle => open = {}

\* Safety in the form that every step preserves.
IndInv == /\ TypeOK
          /\ InOrder
          /\ FirstMatchOnly
          /\ LogIsEvidence
          /\ EofLast
          /\ LoopShape

-----------------------------------------------------------------------------

\* The mutate closures map a buffer of units to a buffer of units.
LEMMA MutateType ==
    ASSUME NEW m \in MutatorNames, NEW d \in Seq(Unit)
    PROVE  Mutate(m, d) \in Seq(Unit)
<1>1. Len(d) >= 2 => Rest(d) \in Seq(Unit)
  BY DEF Rest
<1>2. /\ <<"head", "flipped">> \in Seq(Unit)
      /\ <<"stripped">> \in Seq(Unit)
  BY DEF Unit
<1>3. Len(d) >= 2 => /\ <<"head", "flipped">> \o Rest(d) \in Seq(Unit)
                     /\ <<"stripped">> \o Rest(d) \in Seq(Unit)
  BY <1>1, <1>2
<1> QED
  BY <1>2, <1>3 DEF Mutate, Matches, MutatorNames, ForgePqComponent,
     ForgeSshPqComponent, StripHybrid, StripKexinitAlgorithm

\* A recv on queued data takes a non-empty piece of what was sent.
LEMMA RecvProgress ==
    ASSUME TypeOK, NEW p \in Peers, HasData(p)
    PROVE  /\ RecvEnd(p) \in Nat
           /\ read[p] + 1 <= RecvEnd(p)
           /\ RecvEnd(p) <= sent[p]
           /\ Data(p) \in Seq(Unit)
           /\ Forwarded(p) \in Seq(Unit)
           /\ LogLines(p) \in Nat
<1>1. /\ RecvEnd(p) \in Nat
      /\ read[p] + 1 <= RecvEnd(p)
      /\ RecvEnd(p) <= sent[p]
  BY RecvMaxAssumption DEF TypeOK, HasData, RecvEnd
<1>2. Data(p) \in Seq(Unit)
  BY <1>1 DEF TypeOK, Data
<1>3. Forwarded(p) \in Seq(Unit)
  BY <1>2, MutateType DEF Forwarded, TypeOK
<1> QED
  BY <1>1, <1>2, <1>3 DEF LogLines

\* The shape of every variable survives every step.
LEMMA TypeInvariance ==
    ASSUME TypeOK, [Next]_vars
    PROVE  TypeOK'
<1>p. ASSUME NEW p \in Peers, HasData(p)
      PROVE  /\ RecvEnd(p) \in Nat
             /\ read[p] + 1 <= RecvEnd(p)
             /\ RecvEnd(p) <= sent[p]
             /\ Forwarded(p) \in Seq(Unit)
             /\ LogLines(p) \in Nat
  BY <1>p, RecvProgress
<1> USE DEF TypeOK
<1>r. ASSUME NEW p \in Peers, Relay(p), UNCHANGED <<script, sent>>
      PROVE  /\ read' \in [Peers -> Nat]
             /\ \A q \in Peers : read'[q] <= sent'[q]
             /\ mutated' \in BOOLEAN
             /\ logged' \in Nat
             /\ chunks' \in [Peers -> Seq(Chunk)]
             /\ bytes' \in [Peers -> Nat]
  <2>1. HasData(p)
    BY <1>r DEF Relay
  <2>2. [from |-> read[p] + 1, to |-> RecvEnd(p), out |-> Forwarded(p)] \in Chunk
    BY <2>1, <1>p DEF Chunk
  <2>3. chunks' \in [Peers -> Seq(Chunk)]
    BY <2>2, <1>r DEF Relay
  <2>4. Len(Forwarded(p)) \in Nat
    BY <2>1, <1>p
  <2>5. bytes' \in [Peers -> Nat]
    BY <2>4, <1>r DEF Relay
  <2>6. mutated' \in BOOLEAN
    BY <1>r DEF Relay
  <2>7. /\ read' \in [Peers -> Nat]
        /\ \A q \in Peers : read'[q] <= sent'[q]
        /\ logged' \in Nat
    BY <2>1, <1>p, <1>r DEF Relay
  <2> QED
    BY <2>3, <2>5, <2>6, <2>7
<1>f. ASSUME NEW p \in Peers, RelayRaises(p), UNCHANGED <<script, sent>>
      PROVE  /\ read' \in [Peers -> Nat]
             /\ \A q \in Peers : read'[q] <= sent'[q]
             /\ logged' \in Nat
  <2>1. /\ HasData(p)
        /\ read' = [read EXCEPT ![p] = RecvEnd(p)]
        /\ logged' = logged + LogLines(p)
    BY <1>f DEF RelayRaises
  <2>2. /\ RecvEnd(p) \in Nat
        /\ RecvEnd(p) <= sent[p]
        /\ LogLines(p) \in Nat
    BY <2>1, <1>p
  <2>3. logged' \in Nat
    BY <2>1, <2>2
  <2>4. /\ read' \in [Peers -> Nat]
        /\ \A q \in Peers : read'[q] <= sent'[q]
    BY <2>1, <2>2, <1>f
  <2> QED
    BY <2>3, <2>4
<1>1. CASE Bind \/ BindRaises \/ Accept \/ Connect \/ ConnectRaises
           \/ Select \/ SelectTimeout \/ Finish \/ Dial
  BY <1>1 DEF Bind, BindRaises, Accept, Connect, ConnectRaises, Select,
     SelectTimeout, Finish, Dial, config, peerVars, relayVars, loopVars,
     Spliced, Terminal
<1>2. CASE FirstRecv
  <2> USE <1>2 DEF FirstRecv, config, peerVars, relayVars, Spliced, Terminal
  <2>1. CASE Relay("client") /\ pc' = "select" /\ open' = Peers
    BY <2>1, <1>r DEF Peers
  <2>2. CASE RelayRaises("client") /\ UNCHANGED <<mutated, open>>
    BY <2>2, <1>f DEF Peers, RelayRaises
  <2> QED
    BY <2>1, <2>2 DEF RecvRaises
<1>3. ASSUME NEW p \in Peers, ServeData(p) PROVE TypeOK'
  BY <1>3, <1>r DEF ServeData, ServeNext, config, peerVars, Spliced, Terminal
<1>4. ASSUME NEW p \in Peers, ServeEof(p) PROVE TypeOK'
  BY <1>4 DEF ServeEof, ServeNext, config, peerVars, relayVars, Spliced,
     Terminal, AtEof, Peers, Other
<1>5. ASSUME NEW p \in Peers, ServeRaises(p) PROVE TypeOK'
  BY <1>5, <1>f DEF ServeRaises, RelayRaises, RecvRaises, config, peerVars,
     relayVars, loopVars, Spliced, Terminal
<1>6. ASSUME NEW p \in Peers, Write(p) PROVE TypeOK'
  BY <1>6 DEF Write, config, relayVars, loopVars
<1>8. ASSUME NEW p \in Peers, EndWriting(p) \/ Leave(p) PROVE TypeOK'
  BY <1>8 DEF EndWriting, Leave, config, relayVars, loopVars
<1>7. CASE UNCHANGED vars
  BY <1>7 DEF vars
<1> QED
  BY <1>1, <1>2, <1>3, <1>4, <1>5, <1>6, <1>7, <1>8 DEF Next, ProxyStep, PeerStep

-----------------------------------------------------------------------------

\* What Relay(p) appends, read off chunk by chunk.
LEMMA RelayAppends ==
    ASSUME TypeOK, NEW p \in Peers, Relay(p)
    PROVE  /\ Len(chunks[p]) \in Nat
           /\ DOMAIN chunks[p] = 1 .. Len(chunks[p])
           /\ DOMAIN chunks'[p] = 1 .. Len(chunks[p]) + 1
           /\ Len(chunks'[p]) = Len(chunks[p]) + 1
           /\ \A i \in 1 .. Len(chunks[p]) : chunks'[p][i] = chunks[p][i]
           /\ chunks'[p][Len(chunks[p]) + 1].from = read[p] + 1
           /\ chunks'[p][Len(chunks[p]) + 1].to = RecvEnd(p)
           /\ chunks'[p][Len(chunks[p]) + 1].out = Forwarded(p)
           /\ \A q \in Peers : q # p => chunks'[q] = chunks[q]
           /\ read'[p] = RecvEnd(p)
           /\ \A q \in Peers : q # p => read'[q] = read[q]
<1> DEFINE new == [from |-> read[p] + 1, to |-> RecvEnd(p), out |-> Forwarded(p)]
<1>1. HasData(p)
  BY DEF Relay
<1>2. new \in Chunk
  <2>1. RecvEnd(p) \in Nat /\ Forwarded(p) \in Seq(Unit)
    BY <1>1, RecvProgress
  <2>2. read[p] \in Nat
    BY DEF TypeOK
  <2> QED
    BY <2>1, <2>2 DEF Chunk
<1>3. chunks[p] \in Seq(Chunk)
  BY DEF TypeOK
<1>4. chunks'[p] = Append(chunks[p], new)
  BY DEF Relay, TypeOK
<1>5. /\ \A q \in Peers : q # p => chunks'[q] = chunks[q]
      /\ read'[p] = RecvEnd(p)
      /\ \A q \in Peers : q # p => read'[q] = read[q]
  BY DEF Relay, TypeOK
<1>6. /\ new.from = read[p] + 1
      /\ new.to = RecvEnd(p)
      /\ new.out = Forwarded(p)
  OBVIOUS
<1> HIDE DEF new
<1>7. /\ Len(chunks[p]) \in Nat
      /\ DOMAIN chunks[p] = 1 .. Len(chunks[p])
      /\ DOMAIN chunks'[p] = 1 .. Len(chunks[p]) + 1
      /\ Len(chunks'[p]) = Len(chunks[p]) + 1
      /\ \A i \in 1 .. Len(chunks[p]) : chunks'[p][i] = chunks[p][i]
      /\ chunks'[p][Len(chunks[p]) + 1] = new
  BY <1>2, <1>3, <1>4
<1> QED
  BY <1>5, <1>6, <1>7

\* The last relayed unit of either direction after Relay(p).
LEMMA RelayAdvances ==
    ASSUME TypeOK, NEW p \in Peers, Relay(p)
    PROVE  /\ Relayed(p)' = RecvEnd(p)
           /\ \A q \in Peers : q # p => Relayed(q)' = Relayed(q)
<1>1. chunks'[p] # <<>>
  BY RelayAppends
<1> QED
  BY <1>1, RelayAppends DEF Relayed

\* Relaying keeps the tiling of both streams.
LEMMA RelayInOrder ==
    ASSUME TypeOK, InOrder, NEW p \in Peers, Relay(p), pc # "failed"
    PROVE  InOrder'
<1>0. HasData(p)
  BY DEF Relay
<1>1. ASSUME NEW q \in Peers, q # p
      PROVE  /\ \A i \in DOMAIN chunks'[q] :
                   /\ chunks'[q][i].from <= chunks'[q][i].to
                   /\ chunks'[q][i].from =
                         IF i = 1 THEN 1 ELSE chunks'[q][i-1].to + 1
             /\ Relayed(q)' = read'[q]
  BY <1>1, RelayAppends, RelayAdvances DEF InOrder
<1>2. ASSUME NEW i \in DOMAIN chunks'[p]
      PROVE  /\ chunks'[p][i].from <= chunks'[p][i].to
             /\ chunks'[p][i].from =
                   IF i = 1 THEN 1 ELSE chunks'[p][i-1].to + 1
  <2> DEFINE n == Len(chunks[p])
  <2>1. i \in 1 .. n + 1 /\ n \in Nat
    BY RelayAppends
  <2>2. CASE i \in 1 .. n
    <3>1. i # 1 => i - 1 \in 1 .. n
      BY <2>1, <2>2
    <3>2. /\ chunks[p][i].from <= chunks[p][i].to
          /\ chunks[p][i].from = IF i = 1 THEN 1 ELSE chunks[p][i-1].to + 1
      <4>1. i \in DOMAIN chunks[p]
        BY <2>2, RelayAppends
      <4> QED
        BY <4>1 DEF InOrder
    <3>3. /\ chunks'[p][i] = chunks[p][i]
          /\ i # 1 => chunks'[p][i-1] = chunks[p][i-1]
      BY <2>2, <3>1, RelayAppends
    <3> HIDE DEF n
    <3> QED
      BY <3>2, <3>3
  <2>3. CASE i = n + 1
    <3>1. read[p] = IF n = 0 THEN 0 ELSE chunks[p][n].to
      <4>1. chunks[p] \in Seq(Chunk)
        BY DEF TypeOK
      <4> QED
        BY <4>1 DEF InOrder, Relayed
    <3>2. n # 0 => chunks'[p][n] = chunks[p][n]
      BY <2>1, RelayAppends
    <3>3. read[p] \in Nat
      BY DEF TypeOK
    <3>4. /\ chunks'[p][i].from = read[p] + 1
          /\ chunks'[p][i].to = RecvEnd(p)
      BY <2>3, RelayAppends
    <3>5. read[p] + 1 <= RecvEnd(p)
      BY <1>0, RecvProgress
    <3>6. n # 0 => i - 1 = n /\ i # 1
      BY <2>1, <2>3
    <3>7. n = 0 => i = 1
      BY <2>1, <2>3
    <3> QED
      BY <2>1, <3>1, <3>2, <3>3, <3>4, <3>5, <3>6, <3>7
  <2> QED
    BY <2>1, <2>2, <2>3
<1>3. Relayed(p)' = read'[p]
  BY RelayAppends, RelayAdvances
<1>4. \A q \in Peers : read'[q] \in Nat
  BY <1>0, RecvProgress, RelayAppends DEF TypeOK
<1> QED
  BY <1>1, <1>2, <1>3, <1>4 DEF InOrder

\* Relaying rewrites the first matching chunk of the client and no other, and
\* the flag and the log follow.
LEMMA RelayFirstMatch ==
    ASSUME IndInv, NEW p \in Peers, Relay(p), pc # "failed", pc' # "failed",
           UNCHANGED <<mutator, script>>
    PROVE  /\ FirstMatchOnly'
           /\ LogIsEvidence'
           /\ logged' = IF mutated' THEN 1 ELSE 0
<1> USE DEF IndInv
<1>0. /\ HasData(p)
      /\ mutated' = (mutated \/ Forwarded(p) # Data(p))
      /\ logged' = logged + LogLines(p)
  BY DEF Relay
<1>1. CASE p = "server"
  <2>1. chunks'["client"] = chunks["client"]
    BY <1>1, RelayAppends DEF Peers
  <2>2. Forwarded(p) = Data(p)
    BY <1>1 DEF Forwarded
  <2>3. mutated' = mutated /\ logged' = logged
    <3>1. LogLines(p) = 0
      BY <2>2 DEF LogLines
    <3>2. mutated \in BOOLEAN /\ logged \in Nat
      BY DEF TypeOK
    <3> QED
      BY <1>0, <2>2, <3>1, <3>2
  <2>4. ASSUME NEW i \in DOMAIN chunks'["server"]
        PROVE  chunks'["server"][i].out = Raw("server", chunks["server"][i])'
    <3>1. CASE i \in 1 .. Len(chunks["server"])
      BY <1>1, <3>1, RelayAppends DEF FirstMatchOnly, Raw
    <3>2. CASE i = Len(chunks["server"]) + 1
      BY <1>1, <2>2, <3>2, RelayAppends DEF Raw, Data
    <3> QED
      BY <1>1, <3>1, <3>2, RelayAppends
  <2>5. \A i : Touched(i)' <=> Touched(i)
    BY <2>1 DEF Touched, Raw
  <2>6. FirstMatchOnly'
    BY <2>1, <2>3, <2>4, <2>5 DEF FirstMatchOnly, Raw
  <2>7. LogIsEvidence'
    BY <2>1, <2>3, <2>5 DEF LogIsEvidence
  <2>8. logged' = IF mutated' THEN 1 ELSE 0
    BY <2>3 DEF LoopShape
  <2> QED
    BY <2>6, <2>7, <2>8
<1>2. CASE p = "client"
  <2>0. PICK n \in Nat : n = Len(chunks["client"])
    BY <1>2, RelayAppends
  <2>1. chunks'["server"] = chunks["server"]
    BY <1>2, RelayAppends DEF Peers
  <2>2. /\ n \in Nat
        /\ DOMAIN chunks["client"] = 1 .. n
        /\ DOMAIN chunks'["client"] = 1 .. n + 1
        /\ \A i \in 1 .. n : chunks'["client"][i] = chunks["client"][i]
        /\ chunks'["client"][n + 1].out = Forwarded("client")
        /\ Raw("client", chunks["client"][n + 1])' = Data("client")
    BY <1>2, <2>0, RelayAppends DEF Raw, Data
  <2>3. \A i \in 1 .. n : /\ Touched(i)' <=> Touched(i)
                          /\ Raw("client", chunks["client"][i])'
                               = Raw("client", chunks["client"][i])
    BY <2>2 DEF Touched, Raw
  <2>4. Touched(n + 1)' <=> Forwarded("client") # Data("client")
    BY <2>2 DEF Touched
  <2>5. mutated <=> \E i \in 1 .. n : Touched(i)
    BY <2>2 DEF FirstMatchOnly
  <2>6. Forwarded("client") = IF mutated THEN Data("client")
                              ELSE Mutate(mutator, Data("client"))
    BY DEF Forwarded
  <2>7. ASSUME NEW i \in 1 .. n + 1
        PROVE  chunks'["client"][i].out =
                  IF \E j \in 1 .. i - 1 : Touched(j)'
                  THEN Raw("client", chunks["client"][i])'
                  ELSE Mutate(mutator', Raw("client", chunks["client"][i])')
    <3>1. CASE i \in 1 .. n
      <4>1. (\E j \in 1 .. i - 1 : Touched(j)') <=> \E j \in 1 .. i - 1 : Touched(j)
        <5>1. \A j \in 1 .. i - 1 : j \in 1 .. n
          BY <2>2, <3>1
        <5> QED
          BY <2>3, <5>1
      <4> QED
        BY <2>2, <2>3, <3>1, <4>1 DEF FirstMatchOnly
    <3>2. CASE i = n + 1
      <4>1. (\E j \in 1 .. i - 1 : Touched(j)') <=> mutated
        <5>1. 1 .. i - 1 = 1 .. n
          BY <2>2, <3>2
        <5> QED
          BY <2>3, <2>5, <5>1
      <4> QED
        BY <2>2, <2>6, <3>2, <4>1
    <3> QED
      BY <2>2, <3>1, <3>2
  <2>8. mutated' <=> \E i \in 1 .. n + 1 : Touched(i)'
    <3>1. 1 .. n + 1 = (1 .. n) \cup {n + 1}
      BY <2>2
    <3>2. mutated' <=> (mutated \/ Touched(n + 1)')
      BY <1>0, <1>2, <2>4
    <3> QED
      BY <2>3, <2>5, <3>1, <3>2
  <2>9. \A i \in DOMAIN chunks'["server"] :
           chunks'["server"][i].out = Raw("server", chunks["server"][i])'
    BY <2>1 DEF FirstMatchOnly, Raw
  <2>10. FirstMatchOnly'
    BY <2>2, <2>7, <2>8, <2>9 DEF FirstMatchOnly, Raw
  <2>11. logged' = IF mutated' THEN 1 ELSE 0
    <3>1. logged = IF mutated THEN 1 ELSE 0
      BY DEF LoopShape
    <3>2. CASE Forwarded("client") = Data("client")
      <4>1. logged' = logged + 0
        BY <1>0, <1>2, <3>2 DEF LogLines
      <4>2. mutated' <=> mutated
        BY <1>0, <1>2, <3>2
      <4>3. CASE mutated
        <5>1. logged' = 1
          BY <3>1, <4>1, <4>3
        <5> QED
          BY <4>2, <4>3, <5>1
      <4>4. CASE ~mutated
        <5>1. logged' = 0
          BY <3>1, <4>1, <4>4
        <5> QED
          BY <4>2, <4>4, <5>1
      <4> QED
        BY <4>3, <4>4
    <3>3. CASE Forwarded("client") # Data("client")
      <4>1. ~mutated
        BY <3>3, <2>6
      <4>2. logged' = logged + 1
        BY <1>0, <1>2, <3>3 DEF LogLines
      <4>3. mutated'
        BY <1>0, <1>2, <3>3
      <4>4. logged' = 1
        BY <3>1, <4>1, <4>2
      <4> QED
        BY <4>3, <4>4
    <3> QED
      BY <3>2, <3>3
  <2>12. LogIsEvidence'
    <3>1. logged' = 1 <=> mutated'
      BY <2>11
    <3>2. logged' <= 1
      BY <2>11
    <3> QED
      BY <3>1, <3>2, <2>2, <2>8 DEF LogIsEvidence
  <2> QED
    BY <2>10, <2>11, <2>12
<1> QED
  BY <1>1, <1>2 DEF Peers

\* A call that raises ends the proxy: what was relayed stays as it was.
LEMMA RaiseKeeps ==
    ASSUME IndInv, NEW p \in Peers, pc # "failed", pc' = "failed",
           UNCHANGED <<mutator, script, sent, ended, gone, chunks, shut>>,
           read' \in [Peers -> Nat],
           \A q \in Peers : read[q] <= read'[q],
           logged' = logged + LogLines(p) \/ logged' = logged
    PROVE  InOrder' /\ FirstMatchOnly' /\ LogIsEvidence' /\ EofLast'
<1> USE DEF IndInv
<1>1. \A q \in Peers : Relayed(q)' = Relayed(q)
  BY DEF Relayed
<1>2. \A q \in Peers : Relayed(q) \in Nat /\ read[q] \in Nat /\ read'[q] \in Nat
  BY DEF TypeOK, InOrder
<1>3. InOrder'
  BY <1>1, <1>2 DEF InOrder
<1>4. \A i : Touched(i)' <=> Touched(i)
  BY DEF Touched, Raw
<1>5. FirstMatchOnly'
  BY <1>4 DEF FirstMatchOnly, Raw
<1>6. LogIsEvidence'
  <2>1. CASE mutated
    <3>1. LogLines(p) = 0
      BY <2>1 DEF LogLines, Forwarded
    <3>2. logged = 1
      BY <2>1 DEF LoopShape
    <3>3. logged' = 1
      BY <3>1, <3>2
    <3> QED
      BY <3>3 DEF LogIsEvidence
  <2>2. CASE ~mutated
    <3>1. logged = 0
      BY <2>2 DEF LoopShape
    <3>2. LogLines(p) \in {0, 1}
      BY DEF LogLines
    <3>3. logged' <= 1
      BY <3>1, <3>2
    <3>4. ~ \E i \in DOMAIN chunks["client"] : Touched(i)
      BY <2>2 DEF FirstMatchOnly
    <3> QED
      BY <3>3, <3>4, <1>4 DEF LogIsEvidence
  <2> QED
    BY <2>1, <2>2
<1>7. EofLast'
  BY <1>1 DEF EofLast
<1> QED
  BY <1>3, <1>5, <1>6, <1>7

\* A step that relays nothing and raises nothing keeps the relay's history.
LEMMA QuietKeeps ==
    ASSUME IndInv, pc # "failed", pc' # "failed",
           UNCHANGED <<mutator, script, relayVars>>
    PROVE  /\ InOrder'
           /\ FirstMatchOnly'
           /\ LogIsEvidence'
           /\ \A q \in Peers : Relayed(q)' = Relayed(q)
<1> USE DEF IndInv, relayVars
<1>1. \A q \in Peers : Relayed(q)' = Relayed(q)
  BY DEF Relayed
<1>2. InOrder'
  BY <1>1 DEF InOrder
<1>3. \A i : Touched(i)' <=> Touched(i)
  BY DEF Touched, Raw
<1>4. FirstMatchOnly'
  BY <1>3 DEF FirstMatchOnly, Raw
<1>5. LogIsEvidence'
  BY <1>3 DEF LogIsEvidence
<1> QED
  BY <1>1, <1>2, <1>4, <1>5

-----------------------------------------------------------------------------

\* The invariant holds when run_proxy is entered.
LEMMA InitIndInv == Init => IndInv
<1> SUFFICES ASSUME Init PROVE IndInv
  OBVIOUS
<1>1. TypeOK
  <2>1. PICK s \in Sessions :
           /\ mutator = s.mutator
           /\ script = [p \in Peers |-> IF p = "client" THEN s.client ELSE s.server]
    BY DEF Init
  <2>2. s \in Session
    BY SessionsAssumption
  <2>3. mutator \in MutatorNames /\ script \in [Peers -> Seq(Unit)]
    BY <2>1, <2>2 DEF Session
  <2>4. \A p \in Peers : Len(script[p]) \in Nat
    BY <2>3
  <2>5. <<>> \in Seq(Chunk)
    OBVIOUS
  <2>6. chunks \in [Peers -> Seq(Chunk)]
    BY <2>5 DEF Init
  <2>7. \A p \in Peers : read[p] <= sent[p] /\ sent[p] <= Len(script[p])
    BY <2>4 DEF Init
  <2> QED
    BY <2>3, <2>6, <2>7 DEF Init, TypeOK
<1>2. InOrder /\ FirstMatchOnly /\ LogIsEvidence /\ EofLast /\ LoopShape
  BY DEF Init, InOrder, FirstMatchOnly, LogIsEvidence, EofLast, LoopShape,
     Relayed, Peers
<1> QED
  BY <1>1, <1>2 DEF IndInv

\* Every step of the proxy and of its peers preserves the invariant.
LEMMA NextIndInv ==
    ASSUME IndInv, [Next]_vars
    PROVE  IndInv'
<1>t. TypeOK'
  BY TypeInvariance DEF IndInv
<1>ty. TypeOK
  BY DEF IndInv
<1>r. ASSUME NEW p \in Peers, RelayRaises(p) \/ RecvRaises(p)
      PROVE  /\ pc' = "failed"
             /\ UNCHANGED chunks
             /\ read' \in [Peers -> Nat]
             /\ \A q \in Peers : read[q] <= read'[q]
             /\ logged' = logged + LogLines(p) \/ logged' = logged
  <2>1. CASE RelayRaises(p)
    <3>1. HasData(p)
      BY <2>1 DEF RelayRaises
    <3>2. RecvEnd(p) \in Nat /\ read[p] + 1 <= RecvEnd(p)
      BY <3>1, <1>ty, RecvProgress
    <3>3. /\ read' = [read EXCEPT ![p] = RecvEnd(p)]
          /\ read \in [Peers -> Nat]
      BY <2>1, <1>ty DEF RelayRaises, TypeOK
    <3>4. /\ read' \in [Peers -> Nat]
          /\ \A q \in Peers : read[q] <= read'[q]
      BY <3>2, <3>3
    <3> QED
      BY <2>1, <3>4 DEF RelayRaises
  <2>2. CASE RecvRaises(p)
    BY <2>2, <1>ty DEF RecvRaises, relayVars, TypeOK
  <2> QED
    BY <1>r, <2>1, <2>2
<1>1. CASE Bind \/ Accept \/ Connect
  <2> USE <1>1 DEF Bind, Accept, Connect, config, peerVars, relayVars, loopVars
  <2>1. InOrder' /\ FirstMatchOnly' /\ LogIsEvidence'
          /\ \A q \in Peers : Relayed(q)' = Relayed(q)
    BY QuietKeeps
  <2>2. EofLast'
    BY <2>1 DEF IndInv, EofLast
  <2>3. LoopShape'
    BY DEF IndInv, LoopShape
  <2> QED
    BY <1>t, <2>1, <2>2, <2>3 DEF IndInv
<1>2. CASE BindRaises \/ ConnectRaises
  <2> USE <1>2 DEF BindRaises, ConnectRaises, config, peerVars, relayVars, loopVars
  <2>1. "client" \in Peers
    BY DEF Peers
  <2>2. /\ read' \in [Peers -> Nat]
        /\ \A q \in Peers : read[q] <= read'[q]
    BY <1>ty DEF TypeOK
  <2>3. InOrder' /\ FirstMatchOnly' /\ LogIsEvidence' /\ EofLast'
    BY <2>1, <2>2, RaiseKeeps
  <2>4. LoopShape'
    BY DEF LoopShape
  <2> QED
    BY <1>t, <2>3, <2>4 DEF IndInv
<1>3. CASE FirstRecv
  <2>0. pc = "first" /\ UNCHANGED <<mutator, script, sent, ended, gone, shut, idle>>
    BY <1>3 DEF FirstRecv, config, peerVars
  <2>c. "client" \in Peers
    BY DEF Peers
  <2>1. CASE Relay("client") /\ pc' = "select" /\ open' = Peers
    <3>1. InOrder'
      BY <2>0, <2>1, <2>c, <1>ty, RelayInOrder DEF IndInv
    <3>2. /\ FirstMatchOnly' /\ LogIsEvidence'
          /\ logged' = IF mutated' THEN 1 ELSE 0
      BY <2>0, <2>1, <2>c, RelayFirstMatch
    <3>3. shut' = {}
      BY <2>0 DEF IndInv, LoopShape
    <3>4. EofLast'
      BY <3>3 DEF EofLast
    <3>5. LoopShape'
      BY <2>1, <3>2, <3>3 DEF LoopShape
    <3> QED
      BY <1>t, <3>1, <3>2, <3>4, <3>5 DEF IndInv
  <2>2. CASE AtEof("client") /\ pc' = "select" /\ open' = Peers /\ UNCHANGED relayVars
    <3>1. InOrder' /\ FirstMatchOnly' /\ LogIsEvidence'
      BY <2>0, <2>2, QuietKeeps
    <3>2. shut' = {}
      BY <2>0 DEF IndInv, LoopShape
    <3>3. EofLast'
      BY <3>2 DEF EofLast
    <3>4. LoopShape'
      BY <2>0, <2>2, <3>2 DEF IndInv, LoopShape, relayVars
    <3> QED
      BY <1>t, <3>1, <3>3, <3>4 DEF IndInv
  <2>3. CASE RelayRaises("client") \/ RecvRaises("client")
    <3>1. /\ pc' = "failed"
          /\ UNCHANGED chunks
          /\ read' \in [Peers -> Nat]
          /\ \A q \in Peers : read[q] <= read'[q]
          /\ logged' = logged + LogLines("client") \/ logged' = logged
      BY <2>3, <2>c, <1>r
    <3>2. InOrder' /\ FirstMatchOnly' /\ LogIsEvidence' /\ EofLast'
      BY <2>0, <2>c, <3>1, RaiseKeeps
    <3>3. LoopShape'
      BY <3>1 DEF LoopShape
    <3> QED
      BY <1>t, <3>2, <3>3 DEF IndInv
  <2> QED
    BY <1>3, <2>1, <2>2, <2>3 DEF FirstRecv
<1>4. CASE Select \/ SelectTimeout \/ Finish
  <2> USE <1>4 DEF Select, SelectTimeout, Finish, config, peerVars, relayVars, loopVars
  <2>1. InOrder' /\ FirstMatchOnly' /\ LogIsEvidence'
          /\ \A q \in Peers : Relayed(q)' = Relayed(q)
    BY QuietKeeps
  <2>2. EofLast'
    BY <2>1 DEF IndInv, EofLast
  <2>3. LoopShape'
    BY DEF IndInv, LoopShape
  <2> QED
    BY <1>t, <2>1, <2>2, <2>3 DEF IndInv
<1>5. ASSUME NEW p \in Peers, ServeData(p) PROVE IndInv'
  <2>0. /\ pc = "serve" /\ pc' \in {"select", "serve"}
        /\ p \in open /\ Relay(p)
        /\ UNCHANGED <<mutator, script, sent, ended, gone, open, shut, idle>>
    BY <1>5, <1>ty DEF ServeData, ServeNext, config, peerVars, TypeOK
  <2>1. InOrder'
    BY <2>0, <1>ty, RelayInOrder DEF IndInv
  <2>2. /\ FirstMatchOnly' /\ LogIsEvidence'
        /\ logged' = IF mutated' THEN 1 ELSE 0
    BY <2>0, RelayFirstMatch
  <2>3. Other(p) \notin shut
    BY <2>0 DEF IndInv, LoopShape
  <2>4. \A q \in Peers : q # p => Relayed(q)' = Relayed(q)
    BY <2>0, <1>ty, RelayAdvances
  <2>5. EofLast'
    BY <2>0, <2>3, <2>4 DEF IndInv, EofLast
  <2>6. LoopShape'
    BY <2>0, <2>2 DEF IndInv, LoopShape
  <2> QED
    BY <1>t, <2>1, <2>2, <2>5, <2>6 DEF IndInv
<1>6. ASSUME NEW p \in Peers, ServeEof(p) PROVE IndInv'
  <2>0. /\ pc = "serve" /\ pc' \in {"select", "serve"}
        /\ p \in open /\ AtEof(p)
        /\ open' = open \ {p} /\ shut' = shut \cup {Other(p)}
        /\ UNCHANGED <<mutator, script, sent, ended, gone, idle, relayVars>>
    BY <1>6, <1>ty DEF ServeEof, ServeNext, config, peerVars, TypeOK
  <2>1. InOrder' /\ FirstMatchOnly' /\ LogIsEvidence'
          /\ \A q \in Peers : Relayed(q)' = Relayed(q)
    BY <2>0, QuietKeeps
  <2>2. Relayed(p) = sent[p] /\ p \in ended \cup gone
    <3>1. Relayed(p) = read[p]
      BY <2>0 DEF IndInv, InOrder
    <3>2. read[p] = sent[p]
      BY <2>0, <1>ty DEF AtEof, HasData, TypeOK
    <3> QED
      BY <2>0, <3>1, <3>2 DEF AtEof
  <2>3. \A q \in Peers : q # p => Other(q) # Other(p)
    BY DEF Peers, Other
  <2>4. EofLast'
    BY <2>0, <2>1, <2>2, <2>3 DEF IndInv, EofLast
  <2>5. LoopShape'
    BY <2>0, <2>3 DEF IndInv, LoopShape, relayVars
  <2> QED
    BY <1>t, <2>1, <2>4, <2>5 DEF IndInv
<1>7. ASSUME NEW p \in Peers, ServeRaises(p) PROVE IndInv'
  <2>0. /\ pc = "serve"
        /\ UNCHANGED <<mutator, script, sent, ended, gone, shut>>
        /\ RelayRaises(p) \/ RecvRaises(p)
    BY <1>7 DEF ServeRaises, config, peerVars, loopVars
  <2>1. /\ pc' = "failed"
        /\ UNCHANGED chunks
        /\ read' \in [Peers -> Nat]
        /\ \A q \in Peers : read[q] <= read'[q]
        /\ logged' = logged + LogLines(p) \/ logged' = logged
    BY <2>0, <1>r
  <2>2. InOrder' /\ FirstMatchOnly' /\ LogIsEvidence' /\ EofLast'
    BY <2>0, <2>1, RaiseKeeps
  <2>3. LoopShape'
    BY <2>1 DEF LoopShape
  <2> QED
    BY <1>t, <2>2, <2>3 DEF IndInv
<1>8. CASE PeerStep
  <2>0. /\ pc \notin Terminal
        /\ UNCHANGED <<pc, mutator, script, relayVars, open, shut, idle>>
        /\ \A q \in Peers : q \in ended \cup gone =>
              q \in (ended \cup gone)' /\ sent'[q] = sent[q]
    <3>1. CASE Dial
      BY <3>1 DEF Dial, config, loopVars, Terminal
    <3>2. ASSUME NEW p \in Peers, Write(p) PROVE <2>0!:
      BY <3>2, <1>ty DEF Write, CanWrite, config, loopVars, Terminal, Spliced, TypeOK
    <3>3. ASSUME NEW p \in Peers, EndWriting(p) \/ Leave(p) PROVE <2>0!:
      BY <3>3 DEF EndWriting, Leave, CanWrite, config, loopVars, Terminal, Spliced
    <3> QED
      BY <1>8, <3>1, <3>2, <3>3 DEF PeerStep
  <2>1. InOrder' /\ FirstMatchOnly' /\ LogIsEvidence'
          /\ \A q \in Peers : Relayed(q)' = Relayed(q)
    BY <2>0, QuietKeeps DEF Terminal
  <2>2. EofLast'
    BY <2>0, <2>1 DEF IndInv, EofLast
  <2>3. LoopShape'
    BY <2>0 DEF IndInv, LoopShape, relayVars
  <2> QED
    BY <1>t, <2>1, <2>2, <2>3 DEF IndInv
<1>9. CASE UNCHANGED vars
  <2>1. InOrder' /\ EofLast' /\ LoopShape'
    BY <1>9 DEF vars, IndInv, InOrder, EofLast, LoopShape, Relayed
  <2>2. FirstMatchOnly' /\ LogIsEvidence'
    BY <1>9 DEF vars, IndInv, FirstMatchOnly, LogIsEvidence, Touched, Raw
  <2> QED
    BY <1>t, <2>1, <2>2 DEF IndInv
<1> QED
  BY <1>1, <1>2, <1>3, <1>4, <1>5, <1>6, <1>7, <1>8, <1>9 DEF Next, ProxyStep

-----------------------------------------------------------------------------

\* The invariant holds throughout every run of the proxy.
THEOREM ProxyIndInv == Spec => []IndInv
<1>1. Init => IndInv
  BY InitIndInv
<1>2. IndInv /\ [Next]_vars => IndInv'
  BY NextIndInv
<1> QED
  BY <1>1, <1>2, PTL DEF Spec

\* run_proxy keeps its variables well typed, for every set of sessions and
\* every recv size.
THEOREM ProxyTypeOK == Spec => []TypeOK
<1>1. IndInv => TypeOK
  BY DEF IndInv
<1> QED
  BY <1>1, ProxyIndInv, PTL

\* The relay loop loses, repeats and reorders nothing.
THEOREM ProxyInOrder == Spec => []InOrder
<1>1. IndInv => InOrder
  BY DEF IndInv
<1> QED
  BY <1>1, ProxyIndInv, PTL

\* Exactly the first matching chunk of the client is rewritten.
THEOREM ProxyFirstMatchOnly == Spec => []FirstMatchOnly
<1>1. IndInv => FirstMatchOnly
  BY DEF IndInv
<1> QED
  BY <1>1, ProxyIndInv, PTL

\* The proxy log has a line exactly for a rewritten chunk, but for a proxy
\* that raised.
THEOREM ProxyLogIsEvidence == Spec => []LogIsEvidence
<1>1. IndInv => LogIsEvidence
  BY DEF IndInv
<1> QED
  BY <1>1, ProxyIndInv, PTL

\* End of file never overtakes data.
THEOREM ProxyEofLast == Spec => []EofLast
<1>1. IndInv => EofLast
  BY DEF IndInv
<1> QED
  BY <1>1, ProxyIndInv, PTL

\* Leaving the loop with both sockets at end of file, both streams were
\* relayed to the last unit.
THEOREM ProxyCleanEndDelivers == Spec => []CleanEndDelivers
<1>1. IndInv => CleanEndDelivers
  <2> SUFFICES ASSUME IndInv, pc = "done", ~idle, NEW p \in Peers
               PROVE  Relayed(p) = sent[p]
    BY DEF CleanEndDelivers
  <2>1. open = {}
    BY DEF IndInv, LoopShape
  <2>2. Other(p) \in shut
    BY <2>1 DEF IndInv, LoopShape
  <2> QED
    BY <2>2 DEF IndInv, EofLast
<1> QED
  BY <1>1, ProxyIndInv, PTL

\* Nothing is sent on a socket after its shutdown.
THEOREM ProxySilentAfterShut == Spec => SilentAfterShut
<1>1. IndInv /\ [Next]_vars => [RespectsShut]_vars
  <2> SUFFICES ASSUME IndInv, Next, NEW p \in Peers, Other(p) \in shut
               PROVE  chunks'[p] = chunks[p] /\ Other(p) \in shut'
    BY DEF RespectsShut
  <2>t. TypeOK
    BY DEF IndInv
  <2>1. pc \notin {"bind", "accept", "connect", "first"}
    BY DEF IndInv, LoopShape
  <2>2. ASSUME NEW q \in Peers, ServeData(q)
        PROVE  chunks'[p] = chunks[p] /\ Other(p) \in shut'
    <3>1. q \in open /\ Relay(q) /\ UNCHANGED shut /\ pc = "serve"
      BY <2>2, <2>t DEF ServeData, TypeOK
    <3>2. p \notin open
      BY <3>1 DEF IndInv, LoopShape
    <3> QED
      BY <3>1, <3>2, <2>t, RelayAppends
  <2>3. ASSUME NEW q \in Peers,
               ServeEof(q) \/ ServeRaises(q) \/ Write(q) \/ EndWriting(q) \/ Leave(q)
        PROVE  chunks'[p] = chunks[p] /\ Other(p) \in shut'
    BY <2>3 DEF ServeEof, ServeRaises, RelayRaises, RecvRaises, Write,
       EndWriting, Leave, relayVars, loopVars
  <2> QED
    BY <2>1, <2>2, <2>3 DEF Next, ProxyStep, PeerStep, Bind, BindRaises, Accept,
       Connect, ConnectRaises, FirstRecv, Select, SelectTimeout, Finish, Dial,
       relayVars, loopVars
<1> QED
  BY <1>1, ProxyIndInv, PTL DEF Spec, SilentAfterShut

-----------------------------------------------------------------------------

\* Under the mapping, "a chunk of the client was rewritten" is the flag.
LEMMA UsedIsMutated ==
    ASSUME IndInv, pc # "failed"
    PROVE  Abstract!Used <=> mutated
  BY DEF IndInv, FirstMatchOnly, Touched, Raw, Abstract!Used, Abstract!Raw

\* Relay(p) is a Pass(p) of the abstract relay.
LEMMA RelayPasses ==
    ASSUME IndInv, NEW p \in Peers, Relay(p), pc \in {"first", "serve"},
           Other(p) \notin shut, pc' \notin Terminal,
           UNCHANGED <<mutator, script, sent, shut>>
    PROVE  Abstract!Pass(p)
<1>t. TypeOK
  BY DEF IndInv
<1>0. \A m, d : Abstract!Mutate(m, d) = Mutate(m, d)
  BY DEF Mutate, Matches, Rest, ForgePqComponent, ForgeSshPqComponent,
     StripHybrid, StripKexinitAlgorithm, Abstract!Mutate, Abstract!Matches,
     Abstract!Rest, Abstract!ForgePqComponent, Abstract!ForgeSshPqComponent,
     Abstract!StripHybrid, Abstract!StripKexinitAlgorithm
<1>1. HasData(p)
  BY DEF Relay
<1>2. /\ RecvEnd(p) \in Nat /\ read[p] + 1 <= RecvEnd(p) /\ RecvEnd(p) <= sent[p]
  BY <1>t, <1>1, RecvProgress
<1>3. Abstract!Relayed(p) = read[p]
  BY DEF IndInv, InOrder, Relayed, Abstract!Relayed
<1>4. Abstract!Used <=> mutated
  BY UsedIsMutated
<1>5. RecvEnd(p) \in Abstract!Relayed(p) + 1 .. sent[p]
  BY <1>2, <1>3, <1>t DEF TypeOK
<1>6. chunks' = [chunks EXCEPT ![p] = Append(@,
         [from |-> Abstract!Relayed(p) + 1, to |-> RecvEnd(p),
          out |-> IF p = "client" /\ ~Abstract!Used
                  THEN Abstract!Mutate(mutator,
                          SubSeq(script[p], Abstract!Relayed(p) + 1, RecvEnd(p)))
                  ELSE SubSeq(script[p], Abstract!Relayed(p) + 1, RecvEnd(p))])]
  BY <1>0, <1>3, <1>4 DEF Relay, Forwarded, Data
<1>7. /\ ~(pc \in Terminal)
      /\ p \notin {q \in Peers : Other(q) \in shut}
      /\ UNCHANGED <<mutator, script, sent, {q \in Peers : Other(q) \in shut}, pc \in Terminal>>
  BY DEF Terminal
<1> QED
  BY <1>5, <1>6, <1>7 DEF Abstract!Pass

\* run_proxy implements the abstract relay of module Splice: every socket
\* step is one of its steps or leaves its state alone.
THEOREM ProxyImplementsSplice == Spec => ImplementsSplice
<1>1. Init => Abstract!Init
  <2> SUFFICES ASSUME Init PROVE Abstract!Init
    OBVIOUS
  <2>1. TypeOK
    BY InitIndInv DEF IndInv
  <2>2. /\ mutator \in Abstract!MutatorNames
        /\ script \in [Abstract!Peers -> Seq(Abstract!Unit)]
    BY <2>1 DEF TypeOK, MutatorNames, Peers, Unit, Abstract!MutatorNames,
       Abstract!Peers, Abstract!Unit
  <2> QED
    BY <2>2 DEF Init, Peers, Terminal, Abstract!Init, Abstract!Peers
<1>2. IndInv /\ [Next]_vars => [Abstract!Next]_(Abstract!vars)
  <2> SUFFICES ASSUME IndInv, [Next]_vars
               PROVE  [Abstract!Next]_(Abstract!vars)
    OBVIOUS
  <2>t. TypeOK
    BY DEF IndInv
  <2>p. Abstract!Peers = Peers
    BY DEF Peers, Abstract!Peers
  <2>s. ASSUME pc \notin Terminal, pc' \in Terminal,
               UNCHANGED <<mutator, script, sent, chunks, shut>>
        PROVE  Abstract!Next
    BY <2>s DEF Abstract!Next, Abstract!Stop
  <2>q. ASSUME pc \notin Terminal, pc' \notin Terminal,
               UNCHANGED <<mutator, script, sent, chunks, shut>>
        PROVE  UNCHANGED Abstract!vars
    BY <2>q DEF Abstract!vars
  <2>1. CASE Bind \/ Accept \/ Connect \/ Select
    BY <2>1, <2>q DEF Bind, Accept, Connect, Select, config, peerVars, relayVars,
       loopVars, Terminal
  <2>2. CASE BindRaises \/ ConnectRaises \/ SelectTimeout \/ Finish
    BY <2>2, <2>s DEF BindRaises, ConnectRaises, SelectTimeout, Finish, config,
       peerVars, relayVars, loopVars, Terminal
  <2>3. CASE FirstRecv
    <3>0. pc = "first" /\ UNCHANGED <<mutator, script, sent, shut>>
      BY <2>3 DEF FirstRecv, config, peerVars
    <3>1. CASE Relay("client") /\ pc' = "select"
      <4>1. "client" \in Peers /\ Other("client") \notin shut /\ pc' \notin Terminal
        BY <3>0, <3>1 DEF Peers, IndInv, LoopShape, Terminal
      <4>2. Abstract!Pass("client")
        BY <3>0, <3>1, <4>1, RelayPasses
      <4> QED
        BY <4>1, <4>2, <2>p DEF Abstract!Next
    <3>2. CASE pc' = "select" /\ UNCHANGED relayVars
      BY <3>0, <3>2, <2>q DEF relayVars, Terminal
    <3>3. CASE pc' = "failed" /\ UNCHANGED chunks
      BY <3>0, <3>3, <2>s DEF Terminal
    <3> QED
      BY <2>3, <3>1, <3>2, <3>3 DEF FirstRecv, RelayRaises, RecvRaises, relayVars
  <2>4. ASSUME NEW p \in Peers, ServeData(p) PROVE Abstract!Next
    <3>1. /\ pc = "serve" /\ pc' \notin Terminal /\ p \in open /\ Relay(p)
          /\ UNCHANGED <<mutator, script, sent, shut>>
      BY <2>4, <2>t DEF ServeData, ServeNext, config, peerVars, Terminal, TypeOK
    <3>2. Other(p) \notin shut
      BY <3>1 DEF IndInv, LoopShape
    <3>3. Abstract!Pass(p)
      BY <3>1, <3>2, RelayPasses
    <3> QED
      BY <3>3, <2>p DEF Abstract!Next
  <2>5. ASSUME NEW p \in Peers, ServeEof(p) PROVE Abstract!Next
    <3>1. /\ pc = "serve" /\ pc' \notin Terminal /\ p \in open /\ AtEof(p)
          /\ shut' = shut \cup {Other(p)}
          /\ UNCHANGED <<mutator, script, sent, chunks>>
      BY <2>5, <2>t DEF ServeEof, ServeNext, config, peerVars, relayVars, Terminal, TypeOK
    <3>2. Other(p) \notin shut
      BY <3>1 DEF IndInv, LoopShape
    <3>3. Abstract!Relayed(p) = sent[p]
      <4>1. Relayed(p) = read[p]
        BY <3>1 DEF IndInv, InOrder
      <4>2. read[p] = sent[p]
        BY <3>1, <2>t DEF AtEof, HasData, TypeOK
      <4> QED
        BY <4>1, <4>2 DEF Relayed, Abstract!Relayed
    <3>4. \A q \in Peers : Other(q) = Other(p) => q = p
      BY DEF Peers, Other
    <3>5. {q \in Peers : Other(q) \in shut'} = {q \in Peers : Other(q) \in shut} \cup {p}
      BY <3>1, <3>4
    <3>6. Abstract!Close(p)
      BY <3>1, <3>2, <3>3, <3>5 DEF Abstract!Close, Terminal
    <3> QED
      BY <3>6, <2>p DEF Abstract!Next
  <2>6. ASSUME NEW p \in Peers, ServeRaises(p) PROVE Abstract!Next
    BY <2>6, <2>s DEF ServeRaises, RelayRaises, RecvRaises, config, peerVars,
       relayVars, loopVars, Terminal
  <2>7. ASSUME NEW p \in Peers, Write(p) PROVE Abstract!Next
    <3>1. /\ pc \notin Terminal /\ p \notin ended \cup gone
          /\ sent[p] < Len(script[p])
          /\ sent' = [sent EXCEPT ![p] = @ + 1]
          /\ UNCHANGED <<pc, mutator, script, chunks, shut>>
      BY <2>7 DEF Write, CanWrite, config, relayVars, loopVars, Terminal, Spliced
    <3>2. Other(p) \notin shut
      BY <3>1 DEF IndInv, EofLast
    <3>3. Abstract!Write(p)
      BY <3>1, <3>2 DEF Abstract!Write
    <3> QED
      BY <3>3, <2>p DEF Abstract!Next
  <2>8. ASSUME Dial \/ \E p \in Peers : EndWriting(p) \/ Leave(p)
        PROVE  UNCHANGED Abstract!vars
    BY <2>8 DEF Dial, EndWriting, Leave, config, relayVars, loopVars, Abstract!vars
  <2>9. CASE UNCHANGED vars
    BY <2>9 DEF vars, Abstract!vars
  <2> QED
    BY <2>1, <2>2, <2>3, <2>4, <2>5, <2>6, <2>7, <2>8, <2>9
       DEF Next, ProxyStep, PeerStep
<1> QED
  BY <1>1, <1>2, ProxyIndInv, PTL DEF Spec, ImplementsSplice, Abstract!Spec
=============================================================================
