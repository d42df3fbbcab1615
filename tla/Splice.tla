-------------------------------- MODULE Splice ------------------------------
(***************************************************************************)
(* What the harness expects of its on-path proxy, without sockets, select  *)
(* or threads: two ordered one-way streams, relayed piece by piece; until  *)
(* one piece of the client has been rewritten every piece of the client is *)
(* offered to the mutator; everything else goes through as it came; the    *)
(* end of a stream is passed on only behind all of its data.               *)
(***************************************************************************)
EXTENDS Mutators

VARIABLES mutator,  \* the transform in use
          script,   \* what each peer writes
          sent,     \* how many units of it were written
          chunks,   \* the pieces relayed: [from, to, out] of each stream
          closed,   \* the streams whose end was passed on
          over      \* the proxy has returned or raised

vars == <<mutator, script, sent, chunks, closed, over>>

Peers == {"client", "server"}

Raw(p, c) == SubSeq(script[p], c.from, c.to)

Relayed(p) == IF chunks[p] = <<>> THEN 0 ELSE chunks[p][Len(chunks[p])].to

\* A piece of the client's stream has been rewritten.
Used == \E i \in DOMAIN chunks["client"] :
           chunks["client"][i].out # Raw("client", chunks["client"][i])

Init ==
    /\ mutator \in MutatorNames
    /\ script \in [Peers -> Seq(Unit)]
    /\ sent = [p \in Peers |-> 0]
    /\ chunks = [p \in Peers |-> <<>>]
    /\ closed = {}
    /\ over = FALSE

Write(p) ==
    /\ ~over
    /\ p \notin closed
    /\ sent[p] < Len(script[p])
    /\ sent' = [sent EXCEPT ![p] = @ + 1]
    /\ UNCHANGED <<mutator, script, chunks, closed, over>>

Pass(p) ==
    /\ ~over
    /\ p \notin closed
    /\ \E n \in Relayed(p) + 1 .. sent[p] :
          LET raw == SubSeq(script[p], Relayed(p) + 1, n)
          IN  chunks' = [chunks EXCEPT ![p] = Append(@,
                 [from |-> Relayed(p) + 1, to |-> n,
                  out |-> IF p = "client" /\ ~Used THEN Mutate(mutator, raw)
                                                   ELSE raw])]
    /\ UNCHANGED <<mutator, script, sent, closed, over>>

Close(p) ==
    /\ ~over
    /\ p \notin closed
    /\ Relayed(p) = sent[p]
    /\ closed' = closed \cup {p}
    /\ UNCHANGED <<mutator, script, sent, chunks, over>>

Stop ==
    /\ ~over
    /\ over' = TRUE
    /\ UNCHANGED <<mutator, script, sent, chunks, closed>>

Next == Stop \/ \E p \in Peers : Write(p) \/ Pass(p) \/ Close(p)

Spec == Init /\ [][Next]_vars
=============================================================================
