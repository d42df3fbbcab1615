--------------------------- MODULE ScenarioProofs ---------------------------
(***************************************************************************)
(* run_scenario cleans up after itself and records only complete runs, for *)
(* every set of scenario kinds and every choice of the limits.             *)
(***************************************************************************)
EXTENDS Scenario, TLAPS

\* Before a place is reached nothing has been started for it.
NotYet ==
    /\ at = "start" => server = "none" /\ capture = "none"
    /\ at \in {"start", "capfile", "listener", "settle", "proxy"} => proxy = "none"
    /\ at \in {"start", "capfile", "listener", "settle", "proxy", "ready", "launch"} =>
          client = "none" /\ ~raising
    /\ at = "client" => client \in {"running", "exited"} /\ ~raising
    /\ client = "none" => ~dialled
    /\ ~kind.capture => capture = "none"
    /\ at \notin {"start", "raised"} /\ ~raising /\ kind.capture => capture # "none"

\* What the finally block has reaped by the time it is at a place.
Reaped ==
    /\ at \notin {"client"} => client # "running"
    /\ at \in {"waitcapture", "waitsigint", "join", "check", "returned"} =>
          server = "exited"
    /\ at \in {"join", "check", "returned"} => capture \in {"none", "exited"}
    /\ at \in {"terminate", "waitserver", "waitcapture", "waitsigint", "join",
               "check", "returned"} /\ ~raising => client = "exited"
    /\ at \in {"check", "returned"} => ~raising
    /\ at \in {"waitcapture", "waitsigint"} => capture # "none"
    /\ cut # "none" => at = "raised"
    /\ recorded => at = "returned"

\* The proxy thread as the harness may know it.
ProxyKnown ==
    /\ ~kind.proxied => proxy = "none"
    /\ proxyErrors => proxy = "ended"
    /\ client # "none" /\ kind.proxied => proxy \in {"listening", "spliced", "ended"}
    /\ at = "launch" /\ kind.proxied => proxy = "listening"
    /\ kind.proxied /\ proxy \in {"spliced", "ended"} /\ ~proxyErrors => dialled
    /\ proxy = "spliced" => dialled
    \* at join, a second passes only while the thread waits in accept
    /\ at = "join" /\ elapsed > 0 /\ dialled => proxy \in {"none", "ended"}
    /\ at = "check" /\ dialled => proxy \in {"none", "ended"}
    /\ at \in Left /\ cut = "none" /\ dialled => proxy \in {"none", "ended"}
    /\ recorded => ~proxyErrors

\* Without a leftover file, the capture file seen is tshark's own.
PcapKnown ==
    /\ ~kind.stale => pcap # "stale"
    /\ kind.capture /\ at \in {"listener", "settle", "proxy", "ready", "launch"} =>
          pcap # "none"
    /\ kind.capture /\ client # "none" => pcap # "none"

\* Safety in the form that every step preserves.
IndInv == TypeOK /\ NotYet /\ Reaped /\ ProxyKnown /\ PcapKnown /\ NoOrphans

-----------------------------------------------------------------------------

\* Every wait has a limit.
LEMMA LimitNat == \A place : Limit(place) \in Nat
<1> SUFFICES ASSUME NEW place PROVE Limit(place) \in Nat
  OBVIOUS
<1> QED
  BY LimitsAssumption DEF Limit

\* A place is entered with the whole of its limit left.
LEMMA StartsAtZero == \A place : 0 \in 0 .. Limit(place)
BY LimitNat

\* A second passes only below the limit of the wait.
LEMMA TickBounded ==
    ASSUME Waiting, elapsed \in Nat
    PROVE  elapsed + 1 \in 0 .. Limit(at)
<1>1. elapsed < Limit(at)
  BY LimitsAssumption DEF Waiting, Limit
<1> QED
  BY <1>1, LimitNat

\* The invariant holds when run_scenario is entered.
LEMMA InitIndInv == Init => IndInv
<1> SUFFICES ASSUME Init PROVE IndInv
  OBVIOUS
<1>1. kind \in Kind
  BY KindsAssumption DEF Init
<1>2. TypeOK
  BY <1>1, StartsAtZero DEF Init, TypeOK, Places, Finally
<1>3. NotYet /\ Reaped /\ ProxyKnown /\ PcapKnown /\ NoOrphans
  BY DEF Init, NotYet, Reaped, ProxyKnown, PcapKnown, NoOrphans, Left
<1> QED
  BY <1>2, <1>3 DEF IndInv

\* Every step of the harness, of the proxy thread, of the processes and of
\* the clock preserves the invariant.
LEMMA NextIndInv ==
    ASSUME IndInv, [Next]_vars
    PROVE  IndInv'
<1> USE LimitsAssumption, StartsAtZero DEF IndInv, TypeOK, NotYet, Reaped, ProxyKnown,
        PcapKnown, NoOrphans, Places, Try, Finally, Left, GoTo, Raise, Kind, control, serverVars,
        captureVars, proxyVars, clientVars
<1>1. CASE StartProcesses
  BY <1>1 DEF StartProcesses
<1>2. CASE PopenRaises
  <2>1. CASE GoTo("raised") /\ UNCHANGED <<raising, server>>
    BY <1>2, <2>1 DEF PopenRaises
  <2>2. CASE kind.capture /\ server' = "starting" /\ Raise
    BY <1>2, <2>2 DEF PopenRaises
  <2> QED
    BY <1>2, <2>1, <2>2 DEF PopenRaises
<1>3. CASE CaptureFileSeen
  BY <1>3 DEF CaptureFileSeen
<1>4. CASE CaptureFileMissing
  BY <1>4 DEF CaptureFileMissing
<1>5. CASE ListenerSeen
  <2>1. CASE kind.capture /\ capture = "exited"
    BY <1>5, <2>1 DEF ListenerSeen
  <2>2. CASE ~(kind.capture /\ capture = "exited")
    BY <1>5, <2>2 DEF ListenerSeen
  <2> QED
    BY <2>1, <2>2
<1>6. CASE ListenerMissing
  BY <1>6 DEF ListenerMissing
<1>7. CASE Settled
  BY <1>7 DEF Settled
<1>8. CASE StartProxy
  BY <1>8 DEF StartProxy
<1>9. CASE ProxyReady
  BY <1>9 DEF ProxyReady
<1>10. CASE ProxyNotReady
  BY <1>10 DEF ProxyNotReady
<1>11. CASE LaunchClient
  BY <1>11 DEF LaunchClient
<1>12. CASE ClientReturned
  BY <1>12 DEF ClientReturned
<1>13. CASE ClientTimeout
  BY <1>13 DEF ClientTimeout
<1>14. CASE Interrupted
  BY <1>14 DEF Interrupted
<1>15. CASE TerminateServer
  BY <1>15 DEF TerminateServer
<1>16. CASE ServerReaped
  BY <1>16 DEF ServerReaped
<1>17. CASE FinallyExpired
  BY <1>17 DEF FinallyExpired
<1>18. CASE CaptureReaped
  BY <1>18 DEF CaptureReaped
<1>19. CASE InterruptCapture
  BY <1>19 DEF InterruptCapture
<1>20. CASE JoinProxy
  BY <1>20 DEF JoinProxy
<1>21. CASE Record
  <2>1. CASE proxyErrors
    BY <1>21, <2>1 DEF Record
  <2>2. CASE ~proxyErrors
    BY <1>21, <2>2 DEF Record
  <2> QED
    BY <2>1, <2>2
<1>22. CASE ProxyBinds
  BY <1>22 DEF ProxyBinds
<1>23. CASE ProxyAccepts
  BY <1>23 DEF ProxyAccepts
<1>24. CASE ProxyRaises
  BY <1>24 DEF ProxyRaises
<1>25. CASE ProxyReturns
  BY <1>25 DEF ProxyReturns
<1>26. CASE ServerListens
  BY <1>26 DEF ServerListens
<1>27. CASE ServerExits
  BY <1>27 DEF ServerExits
<1>28. CASE CaptureBegins
  BY <1>28 DEF CaptureBegins
<1>29. CASE CaptureExits
  BY <1>29 DEF CaptureExits
<1>30. CASE ClientDials
  BY <1>30 DEF ClientDials
<1>31. CASE ClientExits
  BY <1>31 DEF ClientExits
<1>32. CASE Tick
  <2>1. elapsed' \in 0 .. Limit(at')
    BY <1>32, TickBounded DEF Tick
  <2> QED
    BY <1>32, <2>1 DEF Tick, Waiting, ProxyBusy
<1>33. CASE FinallyInterrupted
  BY <1>33 DEF FinallyInterrupted
<1>34. CASE RecordInterrupted
  BY <1>34 DEF RecordInterrupted
<1>35. CASE UNCHANGED vars
  BY <1>35 DEF vars
<1> QED
  BY <1>1, <1>2, <1>3, <1>4, <1>5, <1>6, <1>7, <1>8, <1>9, <1>10, <1>11, <1>12, <1>13, <1>14, <1>15, <1>16, <1>17, <1>18, <1>19, <1>20, <1>21, <1>22, <1>23, <1>24, <1>25, <1>26, <1>27, <1>28, <1>29, <1>30, <1>31, <1>32, <1>33, <1>34, <1>35
     DEF Next, HarnessStep, UserStep, ProxyStep, ProcessStep

-----------------------------------------------------------------------------

\* The invariant holds throughout every run of run_scenario.
THEOREM ScenarioIndInv == Spec => []IndInv
<1>1. Init => IndInv
  BY InitIndInv
<1>2. IndInv /\ [Next]_vars => IndInv'
  BY NextIndInv
<1> QED
  BY <1>1, <1>2, PTL DEF Spec

\* run_scenario keeps its variables well typed.
THEOREM ScenarioTypeOK == Spec => []TypeOK
<1>1. IndInv => TypeOK
  BY DEF IndInv
<1> QED
  BY <1>1, ScenarioIndInv, PTL

\* However run_scenario is left, the client is gone, and server or tshark is
\* left only when the finally block was left no later than at its own wait.
THEOREM ScenarioNoOrphans == Spec => []NoOrphans
<1>1. IndInv => NoOrphans
  BY DEF IndInv
<1> QED
  BY <1>1, ScenarioIndInv, PTL

\* A proxy thread that outlives its scenario was never reached by a client, or
\* the finally block was left early and did not join it.
THEOREM ScenarioProxyReaped == Spec => []OnlyUndialledProxyOutlives
<1>1. IndInv => OnlyUndialledProxyOutlives
  BY DEF IndInv, ProxyKnown, OnlyUndialledProxyOutlives
<1> QED
  BY <1>1, ScenarioIndInv, PTL

\* A record is written only for a run that completed in every part.
THEOREM ScenarioRecordIsSound == Spec => []RecordIsSound
<1>1. IndInv => RecordIsSound
  <2> SUFFICES ASSUME IndInv, recorded
               PROVE  /\ client = "exited" /\ ~proxyErrors /\ ~raising
                      /\ kind.proxied => proxy \in {"listening", "ended"}
                      /\ server = "exited"
                      /\ kind.capture => capture = "exited"
    BY DEF RecordIsSound
  <2>1. at = "returned" /\ cut = "none"
    BY DEF IndInv, Reaped
  <2>2. client = "exited" /\ ~raising /\ server = "exited"
    BY <2>1 DEF IndInv, Reaped
  <2>3. kind.capture => capture = "exited"
    BY <2>1, <2>2 DEF IndInv, Reaped, NotYet
  <2>4. kind.proxied => proxy \in {"listening", "ended"}
    BY <2>1, <2>2 DEF IndInv, ProxyKnown, Left
  <2>5. ~proxyErrors
    BY DEF IndInv, ProxyKnown
  <2> QED
    BY <2>2, <2>3, <2>4, <2>5
<1> QED
  BY <1>1, ScenarioIndInv, PTL

\* In a fresh output directory the capture has begun before the client.
THEOREM ScenarioCaptureBeganFirst == Spec => []CaptureBeganFirst
<1>1. IndInv => CaptureBeganFirst
  BY DEF IndInv, TypeOK, PcapKnown, CaptureBeganFirst
<1> QED
  BY <1>1, ScenarioIndInv, PTL
=============================================================================
