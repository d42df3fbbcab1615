------------------------------ MODULE Scenario ------------------------------
(***************************************************************************)
(* run_scenario (tools/faultinject/harness.py): one measured handshake.    *)
(* The harness starts a server, optionally a tshark capture and an on-path *)
(* proxy thread, runs the client, tears everything down in a finally block *)
(* and writes the run's JSON record.                                       *)
(*                                                                         *)
(* The server, tshark, the client and the proxy thread run beside the      *)
(* harness and may be slow, die or hang.  Time advances in seconds: Tick   *)
(* is possible only while the harness really waits, and every wait has the *)
(* limit it has in the code.  The proxy is seen from outside: module Proxy *)
(* has its inside (listening = its accept, spliced = from connect on).     *)
(***************************************************************************)
EXTENDS Integers

CONSTANTS Kinds,          \* the shapes of ScenarioSpec to run, see Kind
          WaitLimit,      \* capture file, listener and proxy_ready: 5 s
          Settle,         \* time.sleep(1) after the listener was seen
          CaptureSeconds, \* tshark -a duration:N, spec.capture_seconds
          ClientLimit,    \* run_client timeout: 30 s
          StopLimit,      \* server.wait and the wait after SIGINT: 5 s
          JoinLimit,      \* proxy_thread.join: 5 s
          IdleLimit       \* the proxy's select timeout: 5 s

\* capture: spec.capture_traffic.  proxied: spec.proxy_upstream_port and
\* spec.proxy_mutate are set.  stale: the output directory already holds a
\* pcap of this run id.
Kind == [capture : BOOLEAN, proxied : BOOLEAN, stale : BOOLEAN]

ASSUME KindsAssumption == Kinds \subseteq Kind
ASSUME LimitsAssumption ==
    {WaitLimit, Settle, CaptureSeconds, ClientLimit, StopLimit, JoinLimit,
     IdleLimit} \subseteq Nat \ {0}

VARIABLES
    kind,         \* the ScenarioSpec in use
    at,           \* where run_scenario is
    elapsed,      \* seconds spent in the wait it is in
    raising,      \* an exception is on its way out of the try block
    cut,          \* the place where the finally block was left early, or "none"
    server,       \* the server process
    capture,      \* the tshark process
    age,          \* seconds since tshark began to capture
    pcap,         \* the capture file: "none", "stale" or "fresh"
    proxy,        \* the proxy thread
    proxyErrors,  \* proxy_errors is not empty
    client,       \* the client process
    dialled,      \* the client has connected
    covered,      \* history: tshark was capturing when the client was started
    recorded      \* record.to_json_path was called

vars == <<kind, at, elapsed, raising, cut, server, capture, age, pcap,
          proxy, proxyErrors, client, dialled, covered, recorded>>

serverVars == <<server>>
captureVars == <<capture, age, pcap>>
proxyVars == <<proxy, proxyErrors>>
clientVars == <<client, dialled, covered>>
control == <<kind, cut, recorded>>

Left == {"returned", "raised"}

\* The places of the try block and those of the finally block.
Try == {"capfile", "listener", "settle", "proxy", "ready", "launch", "client"}
Finally == {"terminate", "waitserver", "waitcapture", "waitsigint", "join"}

Init ==
    /\ kind \in Kinds
    /\ at = "start"
    /\ elapsed = 0
    /\ raising = FALSE
    /\ cut = "none"
    /\ server = "none"
    /\ capture = "none"
    /\ age = 0
    /\ pcap = IF kind.stale THEN "stale" ELSE "none"
    /\ proxy = "none"
    /\ proxyErrors = FALSE
    /\ client = "none"
    /\ dialled = FALSE
    /\ covered = FALSE
    /\ recorded = FALSE

-----------------------------------------------------------------------------
(***************************************************************************)
(* The harness thread.                                                     *)
(***************************************************************************)

\* The harness moves on to another place; a wait there starts from zero.
GoTo(place) == at' = place /\ elapsed' = 0

\* An exception inside try: the finally block runs next.
Raise == GoTo("terminate") /\ raising' = TRUE

\* subprocess.Popen(spec.server_cmd), then the capture if there is one.
StartProcesses ==
    /\ at = "start"
    /\ server' = "starting"
    /\ capture' = IF kind.capture THEN "starting" ELSE "none"
    /\ GoTo(IF kind.capture THEN "capfile" ELSE "listener")
    /\ UNCHANGED <<control, raising, age, pcap, proxyVars, clientVars>>

\* Popen of the server raises, outside the try block; or Popen of tshark
\* raises inside it, before capture is bound.
PopenRaises ==
    /\ at = "start"
    /\ \/ GoTo("raised") /\ UNCHANGED <<raising, server>>
       \/ kind.capture /\ server' = "starting" /\ Raise
    /\ UNCHANGED <<control, captureVars, proxyVars, clientVars>>

\* Mutant: the capture file is not waited for.
CaptureFileNotAwaited ==
    /\ at = "capfile"
    /\ GoTo("listener")
    /\ UNCHANGED <<control, raising, serverVars, captureVars, proxyVars, clientVars>>

\* while not pcap_path.exists(): a file left by an earlier run counts too.
CaptureFileSeen ==
    /\ at = "capfile"
    /\ pcap # "none"
    /\ GoTo("listener")
    /\ UNCHANGED <<control, raising, serverVars, captureVars, proxyVars, clientVars>>

CaptureFileMissing ==
    /\ at = "capfile"
    /\ pcap = "none"
    /\ capture = "exited" \/ elapsed >= WaitLimit
    /\ Raise
    /\ UNCHANGED <<control, serverVars, captureVars, proxyVars, clientVars>>

\* wait_for_listener succeeds; the capture is polled once, then sleep(1).
ListenerSeen ==
    /\ at = "listener"
    /\ server = "listening"
    /\ IF kind.capture /\ capture = "exited" THEN Raise
       ELSE /\ GoTo(IF kind.capture THEN "settle" ELSE "proxy")
            /\ UNCHANGED raising
    /\ UNCHANGED <<control, serverVars, captureVars, proxyVars, clientVars>>

\* The server never listens.  Its death is not polled for: the harness
\* retries until the deadline.
ListenerMissing ==
    /\ at = "listener"
    /\ server # "listening"
    /\ elapsed >= WaitLimit
    /\ Raise
    /\ UNCHANGED <<control, serverVars, captureVars, proxyVars, clientVars>>

Settled ==
    /\ at = "settle"
    /\ elapsed >= Settle
    /\ GoTo("proxy")
    /\ UNCHANGED <<control, raising, serverVars, captureVars, proxyVars, clientVars>>

\* proxy_thread.start(), or nothing to start.
StartProxy ==
    /\ at = "proxy"
    /\ proxy' = IF kind.proxied THEN "binding" ELSE "none"
    /\ GoTo(IF kind.proxied THEN "ready" ELSE "launch")
    /\ UNCHANGED <<control, raising, serverVars, captureVars, proxyErrors, clientVars>>

\* proxy_ready.wait(timeout=5): the event is set once the proxy listens.
ProxyReady ==
    /\ at = "ready"
    /\ proxy \notin {"none", "binding"} /\ ~proxyErrors
    /\ GoTo("launch")
    /\ UNCHANGED <<control, raising, serverVars, captureVars, proxyVars, clientVars>>

ProxyNotReady ==
    /\ at = "ready"
    /\ proxy = "binding" \/ proxyErrors
    /\ elapsed >= WaitLimit
    /\ Raise
    /\ UNCHANGED <<control, serverVars, captureVars, proxyVars, clientVars>>

\* run_client starts the client process.
LaunchClient ==
    /\ at = "launch"
    /\ client' = "running"
    /\ covered' = (capture = "capturing")
    /\ GoTo("client")
    /\ UNCHANGED <<control, raising, serverVars, captureVars, proxyVars, dialled>>

ClientReturned ==
    /\ at = "client"
    /\ client = "exited"
    /\ GoTo("terminate")
    /\ UNCHANGED <<control, raising, serverVars, captureVars, proxyVars, clientVars>>

\* Mutant: run_client is called without a timeout.
ClientAwaited ==
    /\ at = "client"
    /\ client = "exited"
    /\ GoTo("terminate")
    /\ UNCHANGED <<control, raising, serverVars, captureVars, proxyVars, clientVars>>

\* subprocess.run kills the client at its timeout and raises.
ClientTimeout ==
    /\ at = "client"
    /\ client = "running"
    /\ elapsed >= ClientLimit
    /\ client' = "killed"
    /\ Raise
    /\ UNCHANGED <<control, serverVars, captureVars, proxyVars, dialled, covered>>

\* finally: server.terminate(), a no-op on a server that is gone.
TerminateServer ==
    /\ at = "terminate"
    /\ server' = IF server = "exited" THEN "exited" ELSE "stopping"
    /\ GoTo("waitserver")
    /\ UNCHANGED <<control, raising, captureVars, proxyVars, clientVars>>

\* Mutant: the server is terminated and not waited for.
ServerNotReaped ==
    /\ at = "waitserver"
    /\ GoTo(IF capture # "none" THEN "waitcapture" ELSE "join")
    /\ UNCHANGED <<control, raising, serverVars, captureVars, proxyVars, clientVars>>

\* server.wait(timeout=5)
ServerReaped ==
    /\ at = "waitserver"
    /\ server = "exited"
    /\ GoTo(IF capture # "none" THEN "waitcapture" ELSE "join")
    /\ UNCHANGED <<control, raising, serverVars, captureVars, proxyVars, clientVars>>

\* TimeoutExpired leaves the finally block at once: the capture is not
\* waited for and the proxy thread is not joined.
FinallyExpired ==
    /\ \/ at = "waitserver" /\ server # "exited"
       \/ at = "waitsigint" /\ capture # "exited"
    /\ elapsed >= StopLimit
    /\ GoTo("raised")
    /\ cut' = at
    /\ UNCHANGED <<kind, recorded, raising, serverVars, captureVars, proxyVars, clientVars>>

\* capture.wait(timeout=spec.capture_seconds + 2), or after the SIGINT.
CaptureReaped ==
    /\ at \in {"waitcapture", "waitsigint"}
    /\ capture = "exited"
    /\ GoTo("join")
    /\ UNCHANGED <<control, raising, serverVars, captureVars, proxyVars, clientVars>>

InterruptCapture ==
    /\ at = "waitcapture"
    /\ capture # "exited"
    /\ elapsed >= CaptureSeconds + 2
    /\ capture' = "stopping"
    /\ GoTo("waitsigint")
    /\ UNCHANGED <<control, raising, serverVars, age, pcap, proxyVars, clientVars>>

\* Mutant: the proxy thread is not joined.
JoinProxyNever ==
    /\ at = "join"
    /\ GoTo(IF raising THEN "raised" ELSE "check")
    /\ UNCHANGED <<control, raising, serverVars, captureVars, proxyVars, clientVars>>

\* proxy_thread.join(timeout=5) returns whether or not the thread has ended.
JoinProxy ==
    /\ at = "join"
    /\ proxy \in {"none", "ended"} \/ elapsed >= JoinLimit
    /\ GoTo(IF raising THEN "raised" ELSE "check")
    /\ UNCHANGED <<control, raising, serverVars, captureVars, proxyVars, clientVars>>

\* Mutant: proxy_errors are not looked at.
RecordAnyway ==
    /\ at = "check"
    /\ GoTo("returned")
    /\ recorded' = TRUE
    /\ UNCHANGED <<kind, cut, raising, serverVars, captureVars, proxyVars, clientVars>>

\* proxy_errors are looked at once; then the logs and the record are written.
Record ==
    /\ at = "check"
    /\ IF proxyErrors THEN /\ GoTo("raised")
                           /\ UNCHANGED recorded
                      ELSE /\ GoTo("returned")
                           /\ recorded' = TRUE
    /\ UNCHANGED <<kind, cut, raising, serverVars, captureVars, proxyVars, clientVars>>

-----------------------------------------------------------------------------
(***************************************************************************)
(* The user: KeyboardInterrupt (Ctrl-C) in the harness thread.             *)
(***************************************************************************)

\* Inside the try block: finally runs next, and subprocess.run kills its client.
Interrupted ==
    /\ at \in Try
    /\ client' = IF client = "running" THEN "killed" ELSE client
    /\ Raise
    /\ UNCHANGED <<control, serverVars, captureVars, proxyVars, dialled, covered>>

\* Inside the finally block, which is left at once: what it has not yet
\* terminated, waited for or joined stays as it is.
FinallyInterrupted ==
    /\ at \in Finally
    /\ GoTo("raised")
    /\ cut' = at
    /\ UNCHANGED <<kind, recorded, raising, serverVars, captureVars, proxyVars, clientVars>>

\* After it, before the record is written.
RecordInterrupted ==
    /\ at = "check"
    /\ GoTo("raised")
    /\ UNCHANGED <<control, raising, serverVars, captureVars, proxyVars, clientVars>>

-----------------------------------------------------------------------------
(***************************************************************************)
(* The processes and the proxy thread.                                     *)
(***************************************************************************)

ServerListens ==
    /\ server = "starting"
    /\ server' = "listening"
    /\ UNCHANGED <<control, at, elapsed, raising, captureVars, proxyVars, clientVars>>

\* The server exits: on its own, or some time after the SIGTERM.
ServerExits ==
    /\ server \in {"starting", "listening", "stopping"}
    /\ at \notin Left
    /\ server' = "exited"
    /\ UNCHANGED <<control, at, elapsed, raising, captureVars, proxyVars, clientVars>>

\* tshark creates (or truncates) its file and starts the duration clock.
CaptureBegins ==
    /\ capture = "starting"
    /\ at \notin Left
    /\ capture' = "capturing"
    /\ pcap' = "fresh"
    /\ UNCHANGED <<control, at, elapsed, raising, serverVars, age, proxyVars, clientVars>>

\* tshark exits: it failed, was interrupted, or its duration is over.
CaptureExits ==
    /\ capture \in {"starting", "capturing", "stopping"}
    /\ at \notin Left
    /\ capture' = "exited"
    /\ UNCHANGED <<control, at, elapsed, raising, serverVars, age, pcap, proxyVars, clientVars>>

ClientDials ==
    /\ client = "running"
    /\ ~dialled
    /\ IF kind.proxied THEN proxy = "listening" ELSE server = "listening"
    /\ dialled' = TRUE
    /\ UNCHANGED <<control, at, elapsed, raising, serverVars, captureVars,
                   proxyVars, client, covered>>

ClientExits ==
    /\ client = "running"
    /\ client' = "exited"
    /\ UNCHANGED <<control, at, elapsed, raising, serverVars, captureVars,
                   proxyVars, dialled, covered>>

ProxyBinds ==
    /\ proxy = "binding"
    /\ proxy' = "listening"
    /\ UNCHANGED <<control, at, elapsed, raising, serverVars, captureVars,
                   proxyErrors, clientVars>>

ProxyAccepts ==
    /\ proxy = "listening"
    /\ dialled
    /\ proxy' = "spliced"
    /\ UNCHANGED <<control, at, elapsed, raising, serverVars, captureVars,
                   proxyErrors, clientVars>>

\* bind fails; or connect, recv or sendall fails because a peer is gone.
ProxyRaises ==
    /\ \/ proxy = "binding"
       \/ proxy = "spliced" /\ (server # "listening" \/ client # "running")
    /\ proxy' = "ended"
    /\ proxyErrors' = TRUE
    /\ UNCHANGED <<control, at, elapsed, raising, serverVars, captureVars, clientVars>>

\* Both peers are at end of file, or the peers were silent for five seconds.
ProxyReturns ==
    /\ proxy = "spliced"
    /\ \/ client # "running" /\ server = "exited"
       \/ elapsed >= IdleLimit
    /\ proxy' = "ended"
    /\ UNCHANGED <<control, at, elapsed, raising, serverVars, captureVars,
                   proxyErrors, clientVars>>

\* What the harness waits for has not happened and its limit is not reached.
Waiting ==
    \/ at = "capfile" /\ pcap = "none" /\ capture # "exited" /\ elapsed < WaitLimit
    \/ at = "listener" /\ server # "listening" /\ elapsed < WaitLimit
    \/ at = "settle" /\ elapsed < Settle
    \/ at = "ready" /\ (proxy = "binding" \/ proxyErrors) /\ elapsed < WaitLimit
    \/ at = "client" /\ client = "running" /\ elapsed < ClientLimit
    \/ at = "waitserver" /\ server # "exited" /\ elapsed < StopLimit
    \/ at = "waitcapture" /\ capture # "exited" /\ elapsed < CaptureSeconds + 2
    \/ at = "waitsigint" /\ capture # "exited" /\ elapsed < StopLimit
    \/ at = "join" /\ proxy \notin {"none", "ended"} /\ elapsed < JoinLimit

\* The proxy thread has work that takes no time; a second is ample for it.
ProxyBusy ==
    \/ proxy = "listening" /\ dialled
    \/ proxy = "spliced" /\ client # "running" /\ server = "exited"

\* A second passes; tshark stops by itself when its duration is over.
Tick ==
    /\ Waiting
    /\ ~ProxyBusy
    /\ elapsed' = elapsed + 1
    /\ IF capture = "capturing"
       THEN /\ age' = age + 1
            /\ capture' = IF age' >= CaptureSeconds THEN "stopping" ELSE capture
       ELSE UNCHANGED <<age, capture>>
    /\ UNCHANGED <<control, at, raising, serverVars, pcap, proxyVars, clientVars>>

-----------------------------------------------------------------------------
HarnessStep ==
    \/ StartProcesses \/ PopenRaises \/ CaptureFileSeen \/ CaptureFileMissing
    \/ ListenerSeen \/ ListenerMissing \/ Settled \/ StartProxy
    \/ ProxyReady \/ ProxyNotReady \/ LaunchClient \/ ClientReturned
    \/ ClientTimeout \/ TerminateServer \/ ServerReaped \/ FinallyExpired
    \/ CaptureReaped \/ InterruptCapture \/ JoinProxy \/ Record

UserStep == Interrupted \/ FinallyInterrupted \/ RecordInterrupted

ProxyStep == ProxyBinds \/ ProxyAccepts \/ ProxyRaises \/ ProxyReturns

ProcessStep ==
    \/ ServerListens \/ ServerExits \/ CaptureBegins \/ CaptureExits
    \/ ClientDials \/ ClientExits

Next == HarnessStep \/ UserStep \/ ProxyStep \/ ProcessStep \/ Tick

Spec == Init /\ [][Next]_vars

\* Time passes and the harness thread and the proxy thread are scheduled; the
\* three processes owe nothing (they may hang for ever), and neither does the
\* user: no wait may count on being interrupted.
FairSpec == Spec /\ WF_vars(HarnessStep) /\ WF_vars(Tick)
                 /\ WF_vars(ProxyAccepts) /\ WF_vars(ProxyReturns)

-----------------------------------------------------------------------------

Places == {"start", "check"} \cup Try \cup Finally \cup Left

\* The limit of the wait at a place; the other places take no time.
Limit(place) ==
    CASE place \in {"capfile", "listener", "ready"} -> WaitLimit
      [] place = "settle"      -> Settle
      [] place = "client"      -> ClientLimit
      [] place \in {"waitserver", "waitsigint"} -> StopLimit
      [] place = "waitcapture" -> CaptureSeconds + 2
      [] place = "join"        -> JoinLimit
      [] OTHER                 -> 0

\* The variables of run_scenario and of the processes have the expected shape,
\* and no wait has lasted longer than its limit.
TypeOK ==
    /\ kind \in Kind
    /\ at \in Places
    /\ elapsed \in 0 .. Limit(at)
    /\ raising \in BOOLEAN
    /\ cut \in Finally \cup {"none"}
    /\ server \in {"none", "starting", "listening", "stopping", "exited"}
    /\ capture \in {"none", "starting", "capturing", "stopping", "exited"}
    /\ age \in Nat
    /\ pcap \in {"none", "stale", "fresh"}
    /\ proxy \in {"none", "binding", "listening", "spliced", "ended"}
    /\ proxyErrors \in BOOLEAN
    /\ client \in {"none", "running", "exited", "killed"}
    /\ dialled \in BOOLEAN
    /\ covered \in BOOLEAN
    /\ recorded \in BOOLEAN

\* Whichever way run_scenario is left (a record, a timeout, a failed Popen, one
\* interrupt or two), its client is gone, the server is left running only if
\* the finally block was left before its server.wait returned, and tshark only
\* if it was left before tshark's own last wait returned: an expired
\* server.wait leaves both, an expired wait after the SIGINT only tshark.
NoOrphans ==
    at \in Left =>
        /\ client # "running"
        /\ server \notin {"none", "exited"} => cut \in {"terminate", "waitserver"}
        /\ capture \notin {"none", "exited"} =>
              cut \in {"terminate", "waitserver", "waitcapture", "waitsigint"}

\* join(timeout=5) is not checked, so a proxy thread can outlive its scenario
\* and keep its port.  After a finally block that ran to its end this happens
\* only when no client ever reached the proxy (accept has no timeout); a proxy
\* that a client reached outlives only a finally block that was left early,
\* by an expired wait or an interrupt, and so never joined it.
OnlyUndialledProxyOutlives ==
    at \in Left /\ proxy \notin {"none", "ended"} => ~dialled \/ cut # "none"

\* A JSON record stands for a complete run: the client ended by itself, no
\* error of the proxy thread was lost, the proxy listened before the client
\* started, and server and capture are finished.
RecordIsSound ==
    recorded => /\ client = "exited"
                /\ ~proxyErrors /\ ~raising
                /\ kind.proxied => proxy \in {"listening", "ended"}
                /\ server = "exited"
                /\ kind.capture => capture = "exited"

\* Without a leftover file, the client is never started before tshark began to
\* capture, and the pcap a record refers to belongs to its own run.
CaptureBeganFirst ==
    kind.capture /\ ~kind.stale /\ client # "none" => pcap = "fresh"

\* Every wait of run_scenario is bounded, the join of a thread stuck in accept
\* included: it returns or raises even if server, tshark and client all hang
\* and nobody interrupts it.
ScenarioEnds == <>(at \in Left)

\* harness.py raises "tshark exited before the capture stabilized": a client
\* is started only while the capture that should see it is running.
CaptureStabilized ==
    kind.capture /\ client # "none" => covered
=============================================================================
