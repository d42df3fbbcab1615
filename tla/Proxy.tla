-------------------------------- MODULE Proxy -------------------------------
(***************************************************************************)
(* run_proxy (tools/faultinject/mitm_proxy.py): the on-path proxy that     *)
(* splices ONE loopback connection between a client and a server and       *)
(* rewrites at most one message of the client.                             *)
(*                                                                         *)
(* The proxy is one thread; the client, the server and the kernel's        *)
(* buffers run beside it.  A direction of the connection is a script (what *)
(* its sender will write, in order), how much of it was sent, and how much *)
(* the proxy has taken with recv.  chunks records every recv the proxy     *)
(* relayed: the units from .. to of the sender's script, and out, the      *)
(* units handed to sendall in their place.                                 *)
(***************************************************************************)
EXTENDS Mutators, Functions

CONSTANTS Sessions,  \* [mutator, client, server]: a mutator and two scripts
          RecvMax    \* the recv buffer size (16 KiB in the code), in units

Session == [mutator : MutatorNames, client : Seq(Unit), server : Seq(Unit)]

ASSUME SessionsAssumption == Sessions \subseteq Session
ASSUME RecvMaxAssumption == RecvMax \in Nat \ {0}

Peers == {"client", "server"}

\* peers = {client: upstream, upstream: client}
Other(p) == IF p = "client" THEN "server" ELSE "client"

VARIABLES
    pc,        \* where run_proxy is
    mutator,   \* the transform the scenario installed
    script,    \* what each peer writes during the connection
    sent,      \* how many units of its script a peer has written
    read,      \* how many of them the proxy has received
    ended,     \* peers that have shut down their writing side (FIN)
    gone,      \* peers whose socket is closed for good (close, kill, reset)
    dialled,   \* the client's connection is in the listener's backlog
    open,      \* open_sockets
    readable,  \* what is left of the list the last select returned
    mutated,   \* the local flag of run_proxy
    logged,    \* lines the mutator appended to the proxy log
    chunks,    \* history: the relayed receives of each direction
    bytes,     \* the two byte counters of ProxyResult
    shut,      \* peers towards which the proxy did shutdown(SHUT_WR)
    idle       \* history: the loop was left by the 5 s select timeout

vars == <<pc, mutator, script, sent, read, ended, gone, dialled, open,
          readable, mutated, logged, chunks, bytes, shut, idle>>

peerVars == <<sent, ended, gone, dialled>>
config == <<mutator, script>>
relayVars == <<read, mutated, logged, chunks, bytes>>
loopVars == <<open, readable, shut, idle>>

Terminal == {"done", "failed"}
\* The two sockets exist: the client's from accept, upstream from connect.
Spliced == {"first", "select", "serve"}

Init ==
    /\ pc = "bind"
    /\ \E s \in Sessions :
          /\ mutator = s.mutator
          /\ script = [p \in Peers |-> IF p = "client" THEN s.client
                                                       ELSE s.server]
    /\ sent = [p \in Peers |-> 0]
    /\ read = [p \in Peers |-> 0]
    /\ ended = {}
    /\ gone = {}
    /\ dialled = FALSE
    /\ open = {}
    /\ readable = {}
    /\ mutated = FALSE
    /\ logged = 0
    /\ chunks = [p \in Peers |-> <<>>]
    /\ bytes = [p \in Peers |-> 0]
    /\ shut = {}
    /\ idle = FALSE

-----------------------------------------------------------------------------
(***************************************************************************)
(* One recv and what run_proxy does with it.                               *)
(***************************************************************************)

\* recv takes what is queued, at most RecvMax units of it.
RecvEnd(p) == IF sent[p] - read[p] <= RecvMax THEN sent[p]
                                              ELSE read[p] + RecvMax

Data(p) == SubSeq(script[p], read[p] + 1, RecvEnd(p))

HasData(p) == read[p] < sent[p]

\* Mutant: takes the FIN for the end while data is still queued.
AtEofEarly(p) == p \in ended \cup gone

\* recv would return b"": everything was read and the peer writes no more.
AtEof(p) == ~HasData(p) /\ p \in ended \cup gone

\* select reports a socket with data, at end of file, or in error.
IsReadable(p) == HasData(p) \/ p \in ended \cup gone

\* Mutants: without "not mutated"; without "source is client".
ForwardedAlways(p) == IF p = "client" THEN Mutate(mutator, Data(p)) ELSE Data(p)
ForwardedBoth(p) == IF ~mutated THEN Mutate(mutator, Data(p)) ELSE Data(p)

\* "if source is client and not mutated: forwarded = mutate(data)"
Forwarded(p) == IF p = "client" /\ ~mutated THEN Mutate(mutator, Data(p))
                                            ELSE Data(p)

\* Mutant: the closure logs every payload it looks at.
LogLinesAlways(p) == IF p = "client" /\ ~mutated THEN 1 ELSE 0

\* The mutate closure appends a log line exactly when it changes the data.
LogLines(p) == IF Forwarded(p) # Data(p) THEN 1 ELSE 0

\* Mutant: a payload of the client the mutator does not accept is not sent.
RelayMatching(p) ==
    /\ HasData(p)
    /\ read' = [read EXCEPT ![p] = RecvEnd(p)]
    /\ chunks' = IF p = "client" /\ Forwarded(p) = Data(p) THEN chunks
                 ELSE [chunks EXCEPT ![p] =
                         Append(@, [from |-> read[p] + 1, to |-> RecvEnd(p),
                                    out |-> Forwarded(p)])]
    /\ mutated' = (mutated \/ Forwarded(p) # Data(p))
    /\ logged' = logged + LogLines(p)
    /\ bytes' = [bytes EXCEPT ![p] = @ + Len(Forwarded(p))]

\* recv, mutate, sendall and the counter, when no call raises.
Relay(p) ==
    /\ HasData(p)
    /\ read' = [read EXCEPT ![p] = RecvEnd(p)]
    /\ chunks' = [chunks EXCEPT ![p] =
          Append(@, [from |-> read[p] + 1, to |-> RecvEnd(p),
                     out |-> Forwarded(p)])]
    /\ mutated' = (mutated \/ Forwarded(p) # Data(p))
    /\ logged' = logged + LogLines(p)
    /\ bytes' = [bytes EXCEPT ![p] = @ + Len(Forwarded(p))]

\* sendall raises because the target is closed.  The mutate closure has run
\* by then, so its log line is written although nothing was delivered.
RelayRaises(p) ==
    /\ HasData(p)
    /\ Other(p) \in gone
    /\ read' = [read EXCEPT ![p] = RecvEnd(p)]
    /\ logged' = logged + LogLines(p)
    /\ pc' = "failed"
    /\ UNCHANGED <<chunks, bytes>>

\* recv raises (connection reset) on a socket whose peer is gone.
RecvRaises(p) ==
    /\ p \in gone
    /\ pc' = "failed"
    /\ UNCHANGED relayVars

-----------------------------------------------------------------------------
(***************************************************************************)
(* The proxy thread.                                                       *)
(***************************************************************************)

\* bind, listen, ready_event.set()
Bind ==
    /\ pc = "bind"
    /\ pc' = "accept"
    /\ UNCHANGED <<config, peerVars, relayVars, loopVars>>

\* bind raises: the port is taken.  The ready event is never set.
BindRaises ==
    /\ pc = "bind"
    /\ pc' = "failed"
    /\ UNCHANGED <<config, peerVars, relayVars, loopVars>>

\* accept has no timeout: it waits for a client for ever.
Accept ==
    /\ pc = "accept"
    /\ dialled
    /\ pc' = "connect"
    /\ UNCHANGED <<config, peerVars, relayVars, loopVars>>

\* create_connection to the upstream server.
Connect ==
    /\ pc = "connect"
    /\ pc' = "first"
    /\ UNCHANGED <<config, peerVars, relayVars, loopVars>>

ConnectRaises ==
    /\ pc = "connect"
    /\ pc' = "failed"
    /\ UNCHANGED <<config, peerVars, relayVars, loopVars>>

\* The first payload: here mutated is assigned AFTER sendall, so a send that
\* raises leaves it FALSE.
FirstRecv ==
    /\ pc = "first"
    /\ \/ /\ Relay("client")
          /\ pc' = "select"
          /\ open' = Peers
       \/ /\ AtEof("client")
          /\ pc' = "select"
          /\ open' = Peers
          /\ UNCHANGED relayVars
       \/ /\ RelayRaises("client")
          /\ UNCHANGED <<mutated, open>>
       \/ /\ RecvRaises("client")
          /\ UNCHANGED open
    /\ UNCHANGED <<config, peerVars, readable, shut, idle>>

\* select returns every open socket that is readable at that moment.
Select ==
    /\ pc = "select"
    /\ readable' = {p \in open : IsReadable(p)}
    /\ readable' # {}
    /\ pc' = "serve"
    /\ UNCHANGED <<config, peerVars, relayVars, open, shut, idle>>

\* Mutant: the loop is left after five seconds whatever is queued.
SelectTimeoutAnyway ==
    /\ pc = "select"
    /\ open # {}
    /\ idle' = TRUE
    /\ pc' = "done"
    /\ UNCHANGED <<config, peerVars, relayVars, open, readable, shut>>

\* Five seconds without a readable socket: break.
SelectTimeout ==
    /\ pc = "select"
    /\ open # {}
    /\ \A p \in open : ~IsReadable(p)
    /\ idle' = TRUE
    /\ pc' = "done"
    /\ UNCHANGED <<config, peerVars, relayVars, open, readable, shut>>

\* while open_sockets: ... is over; both sockets are closed on the way out.
Finish ==
    /\ pc = "select"
    /\ open = {}
    /\ pc' = "done"
    /\ UNCHANGED <<config, peerVars, relayVars, loopVars>>

\* One iteration of "for source in readable".
ServeNext(p) ==
    /\ readable' = readable \ {p}
    /\ pc' = IF readable' = {} THEN "select" ELSE "serve"

ServeData(p) ==
    /\ pc = "serve"
    /\ p \in readable
    /\ Relay(p)
    /\ ServeNext(p)
    /\ UNCHANGED <<config, peerVars, open, shut, idle>>

\* Mutant: the socket that is at end of file stays in open_sockets.
ServeEofStaysOpen(p) ==
    /\ pc = "serve"
    /\ p \in readable
    /\ AtEof(p)
    /\ shut' = shut \cup {Other(p)}
    /\ ServeNext(p)
    /\ UNCHANGED <<config, peerVars, relayVars, open, idle>>

\* An empty recv: stop reading this side and pass the end of file on; an
\* OSError of shutdown is swallowed.
ServeEof(p) ==
    /\ pc = "serve"
    /\ p \in readable
    /\ AtEof(p)
    /\ open' = open \ {p}
    /\ shut' = shut \cup {Other(p)}
    /\ ServeNext(p)
    /\ UNCHANGED <<config, peerVars, relayVars, idle>>

\* Here mutated is assigned BEFORE sendall.
ServeRaises(p) ==
    /\ pc = "serve"
    /\ p \in readable
    /\ \/ /\ RelayRaises(p)
          /\ mutated' = (mutated \/ Forwarded(p) # Data(p))
       \/ RecvRaises(p)
    /\ UNCHANGED <<config, peerVars, loopVars>>

-----------------------------------------------------------------------------
(***************************************************************************)
(* The two peers.  They may stop at any point; nothing forces them on.     *)
(***************************************************************************)

\* The client reaches the listening socket (its accept queue).
Dial ==
    /\ pc = "accept"
    /\ ~dialled
    /\ dialled' = TRUE
    /\ UNCHANGED <<pc, config, sent, ended, gone, relayVars, loopVars>>

\* The client may write as soon as it is in the backlog, the server once the
\* proxy has connected to it.
CanWrite(p) ==
    /\ pc \in Spliced \/ (p = "client" /\ dialled /\ pc \notin Terminal)
    /\ p \notin ended \cup gone

Write(p) ==
    /\ CanWrite(p)
    /\ sent[p] < Len(script[p])
    /\ sent' = [sent EXCEPT ![p] = @ + 1]
    /\ UNCHANGED <<pc, config, ended, gone, dialled, relayVars, loopVars>>

\* A half close (FIN); the peer still reads.
EndWriting(p) ==
    /\ CanWrite(p)
    /\ ended' = ended \cup {p}
    /\ UNCHANGED <<pc, config, sent, gone, dialled, relayVars, loopVars>>

\* The peer closes its socket or is killed.
Leave(p) ==
    /\ pc \in Spliced \/ (p = "client" /\ dialled /\ pc \notin Terminal)
    /\ p \notin gone
    /\ gone' = gone \cup {p}
    /\ UNCHANGED <<pc, config, sent, ended, dialled, relayVars, loopVars>>

-----------------------------------------------------------------------------
ProxyStep ==
    \/ Bind \/ BindRaises \/ Accept \/ Connect \/ ConnectRaises
    \/ FirstRecv \/ Select \/ SelectTimeout \/ Finish
    \/ \E p \in Peers : ServeData(p) \/ ServeEof(p) \/ ServeRaises(p)

PeerStep ==
    Dial \/ \E p \in Peers : Write(p) \/ EndWriting(p) \/ Leave(p)

Next == ProxyStep \/ PeerStep

Spec == Init /\ [][Next]_vars

\* The operating system runs the proxy thread whenever a call it waits in can
\* return; that includes the select timeout.  Nothing is assumed of the peers.
FairSpec == Spec /\ WF_vars(ProxyStep)

-----------------------------------------------------------------------------
(***************************************************************************)
(* What must hold of the relay.                                            *)
(***************************************************************************)

Chunk == [from : Nat, to : Nat, out : Seq(Unit)]

\* Every variable of run_proxy and of its two peers has the expected shape,
\* and no position of a stream runs past the one it follows.
TypeOK ==
    /\ pc \in {"bind", "accept", "connect"} \cup Spliced \cup Terminal
    /\ mutator \in MutatorNames
    /\ script \in [Peers -> Seq(Unit)]
    /\ sent \in [Peers -> Nat]
    /\ read \in [Peers -> Nat]
    /\ \A p \in Peers : read[p] <= sent[p] /\ sent[p] <= Len(script[p])
    /\ ended \in SUBSET Peers
    /\ gone \in SUBSET Peers
    /\ dialled \in BOOLEAN
    /\ open \in SUBSET Peers
    /\ readable \in SUBSET open
    /\ mutated \in BOOLEAN
    /\ logged \in Nat
    /\ chunks \in [Peers -> Seq(Chunk)]
    /\ bytes \in [Peers -> Nat]
    /\ shut \in SUBSET Peers
    /\ idle \in BOOLEAN

\* The units the sender wrote that make up a relayed chunk.
Raw(p, c) == SubSeq(script[p], c.from, c.to)

\* The last unit of p's stream that was relayed.
Relayed(p) == IF chunks[p] = <<>> THEN 0 ELSE chunks[p][Len(chunks[p])].to

\* The i-th chunk of the client was rewritten.
Touched(i) == chunks["client"][i].out # Raw("client", chunks["client"][i])

\* The relay loses, repeats and reorders nothing: the chunks of a direction
\* tile its stream from the first unit on, and reach as far as the proxy has
\* read, unless a call raised and the connection is over.
InOrder ==
    \A p \in Peers :
        /\ \A i \in DOMAIN chunks[p] :
              /\ chunks[p][i].from <= chunks[p][i].to
              /\ chunks[p][i].from = IF i = 1 THEN 1 ELSE chunks[p][i-1].to + 1
        /\ Relayed(p) <= read[p]
        /\ pc # "failed" => Relayed(p) = read[p]

\* The rewriting the experiment reports on: the first client chunk the
\* mutator accepts is rewritten, wherever the segmentation put it; no chunk
\* before it matched, every chunk after it (a second ClientHello after a
\* HelloRetryRequest, too) and every chunk of the server (whose KEXINIT the
\* mutator would accept) passes as it came.  The flag mutated says so.
FirstMatchOnly ==
    /\ \A i \in DOMAIN chunks["server"] :
          chunks["server"][i].out = Raw("server", chunks["server"][i])
    /\ \A i \in DOMAIN chunks["client"] :
          LET c == chunks["client"][i]
              raw == Raw("client", c)
          IN  c.out = IF \E j \in 1 .. i - 1 : Touched(j)
                      THEN raw ELSE Mutate(mutator, raw)
    /\ pc # "failed" => (mutated <=> \E i \in DOMAIN chunks["client"] : Touched(i))

\* The proxy log is the evidence verify_binding and verify_condition accept:
\* it never has two lines, a rewritten chunk always left its line, and a line
\* without a rewritten chunk is only possible when run_proxy raised.
LogIsEvidence ==
    /\ logged <= 1
    /\ (\E i \in DOMAIN chunks["client"] : Touched(i)) => logged = 1
    /\ logged = 1 => \/ pc = "failed"
                     \/ \E i \in DOMAIN chunks["client"] : Touched(i)

\* End of file never overtakes data: the proxy shuts its sending side towards
\* a peer only when the other peer writes no more and all it wrote was relayed.
EofLast ==
    \A p \in Peers :
        Other(p) \in shut => /\ p \in ended \cup gone
                             /\ Relayed(p) = sent[p]

\* When the loop ends because both sides reached end of file, both streams
\* were relayed to their last unit; only the idle timeout may cut one short.
CleanEndDelivers ==
    pc = "done" /\ ~idle => \A p \in Peers : Relayed(p) = sent[p]

\* A step that sends nothing towards a peer the proxy has shut down, and that
\* does not undo a shutdown.
RespectsShut ==
    \A p \in Peers : Other(p) \in shut => /\ chunks'[p] = chunks[p]
                                          /\ Other(p) \in shut'

\* Nothing is sent on a socket whose sending side the proxy has shut down
\* (sendall would raise), and the shutdown is never undone.
SilentAfterShut == [][RespectsShut]_vars

\* Once the splice loop runs, run_proxy returns or raises: peers that stay
\* silent end it by the select timeout, peers that close end it by EOF.
LoopEnds == pc \in {"select", "serve"} ~> pc \in Terminal

\* Data that reached the loop's sockets is taken and relayed unless a call
\* raises; the timeout never fires over queued data.
QueuedIsRelayed ==
    \A p \in Peers :
        pc \in {"select", "serve"} /\ HasData(p)
            ~> ~HasData(p) \/ pc = "failed"

\* run_proxy implements the two-stream relay of module Splice.
Abstract == INSTANCE Splice WITH
    closed <- {p \in Peers : Other(p) \in shut},
    over   <- pc \in Terminal

ImplementsSplice == Abstract!Spec
=============================================================================
