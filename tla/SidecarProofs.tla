--------------------------- MODULE SidecarProofs ---------------------------
(***************************************************************************)
(* Proofs about module Sidecar, for any peers, names, services and         *)
(* endpoints.                                                              *)
(***************************************************************************)
EXTENDS Sidecar, TLAPS

LEMMA RosterTypes == NoPeers \in Rosters
  BY DEF NoPeers, Rosters

\* The browser's thread keeps the types of what it changes, and changes nothing
\* else.
LEMMA BrowserSteps ==
    ASSUME TypeOK, Browser
    PROVE  /\ known' \subseteq Services /\ peers' \in Rosters
           /\ browsing' \in BOOLEAN
           /\ UNCHANGED <<life, rpc, inf, cmd, request>>
<1>1. PICK s \in Services : AddPeer(s) \/ AddOther(s) \/ RemovePeer(s)
  BY DEF Browser
<1>2. known' \subseteq Services
  BY <1>1 DEF AddPeer, AddOther, RemovePeer, TypeOK
<1>3. peers' \in Rosters
  <2>1. NodeName[s] \in Names
    BY SidecarAssumption
  <2> QED
    BY <1>1, <2>1 DEF AddPeer, AddOther, RemovePeer, TypeOK, Rosters
<1>4. browsing' \in BOOLEAN
  BY <1>1, Zenon DEF AddPeer, AddOther, RemovePeer, RestartRaises, TypeOK
<1>5. UNCHANGED <<life, rpc, inf, cmd, request>>
  BY <1>1 DEF AddPeer, AddOther, RemovePeer, browserFrame, procVars
<1> QED
  BY <1>2, <1>3, <1>4, <1>5

\* Every variable of the sidecar keeps its type.
THEOREM TypeCorrect == Spec => []TypeOK
<1>1. Init => TypeOK
  <2> SUFFICES ASSUME Init
               PROVE  TypeOK
    OBVIOUS
  <2>1. browsing \in BOOLEAN
    BY Zenon DEF Init
  <2> QED
    BY <2>1, RosterTypes DEF Init, TypeOK, Lives, Processes, Requests
<1>2. TypeOK /\ [Next]_vars => TypeOK'
  <2> SUFFICES ASSUME TypeOK, [Next]_vars
               PROVE  TypeOK'
    OBVIOUS
  <2> USE DEF TypeOK, Lives, Processes, Requests, peerVars, procVars, proxyFrame
  <2>1. CASE Browser
    BY <2>1, BrowserSteps
  <2>2. CASE Environment
    BY <2>2 DEF Environment, InferenceExits, RpcExits, StartUpRaises, Close
  <2>3. CASE Lifespan
    BY <2>3 DEF Lifespan, Boot, Announce, StartUp, StartInference, Leave,
                StopChildren, Stopped, LoopEnds
  <2>4. CASE Client
    BY <2>4 DEF Client, Ask, Forward, Received
  <2>5. CASE Proxy
    BY <2>5 DEF Proxy, Reply, Severed, TimesOut
  <2>6. CASE Terminated \/ UNCHANGED vars
    BY <2>6 DEF Terminated, vars
  <2> QED
    BY <2>1, <2>2, <2>3, <2>4, <2>5, <2>6 DEF Next
<1> QED
  BY <1>1, <1>2, PTL DEF Spec

\* No child is stopped under a request, and none runs before it is started or
\* after lifespan() has stopped it (sidecar/main.py, lifespan, proxy_inference).
THEOREM SidecarInvariant == Spec => []SidecarInv
<1>1. Init => ShutdownInv
  BY DEF Init, ShutdownInv
<1>2. TypeOK /\ ShutdownInv /\ [Next]_vars => ShutdownInv'
  <2> SUFFICES ASSUME TypeOK, ShutdownInv, [Next]_vars
               PROVE  ShutdownInv'
    OBVIOUS
  <2> USE DEF ShutdownInv, Serving, peerVars, procVars, proxyFrame
  <2>1. CASE Browser
    BY <2>1, BrowserSteps
  <2>2. CASE Environment
    BY <2>2 DEF Environment, InferenceExits, RpcExits, StartUpRaises, Close
  <2>3. CASE Lifespan
    BY <2>3 DEF Lifespan, Boot, Announce, StartUp, StartInference, Leave,
                StopChildren, Stopped, LoopEnds
  <2>4. CASE Client
    BY <2>4 DEF Client, Ask, Forward, Received
  <2>5. CASE Proxy
    BY <2>5 DEF Proxy, Reply, Severed, TimesOut
  <2>6. CASE Terminated \/ UNCHANGED vars
    BY <2>6 DEF Terminated, vars
  <2> QED
    BY <2>1, <2>2, <2>3, <2>4, <2>5, <2>6 DEF Next
<1> QED
  BY <1>1, <1>2, TypeCorrect, PTL DEF Spec, SidecarInv

\* lifespan() stops all that it has started, whatever has exited by itself and
\* whatever request the shutdown waited for (sidecar/main.py, lifespan).
THEOREM ShutdownIsClean == Spec => []CleanShutdown
<1>1. SidecarInv => CleanShutdown
  BY DEF SidecarInv, ShutdownInv, CleanShutdown
<1> QED
  BY <1>1, SidecarInvariant, PTL

-----------------------------------------------------------------------------
(* Liveness.  What is ENABLED is beyond the provers: that the fair actions *)
(* are enabled where their guards hold is a hypothesis here, which TLC     *)
(* finds true of the instances.                                            *)

\* A shutdown ends, or comes to wait for a client to send or to read something:
\* neither a server that has died nor one that says nothing holds it up
\* (sidecar/main.py, proxy_inference's timeout and lifespan's end).
THEOREM ShutdownAlwaysEnds == FairSpec /\ []GuardsEnable => ShutdownEnds
<1> DEFINE Sent == life = "closing" /\ request = "sent"
           Silent == life = "closing" /\ request = "silent"
           Free == life = "closing" /\ request = "none"
           Leaving == life = "leaving"
           Stopping == life = "stopped"
<1> USE DEF Ended, ClientsTurn, proxyFrame, peerVars, procVars
<1>1. TypeOK /\ [Next]_vars
        => /\ Sent => (Sent \/ Silent \/ ClientsTurn)'
           /\ Silent => (Silent \/ ClientsTurn)'
           /\ Free => (Free \/ Leaving)'
           /\ Leaving => (Leaving \/ Stopping)'
           /\ Stopping => (Stopping \/ Ended)'
  <2> SUFFICES ASSUME TypeOK, [Next]_vars
               PROVE  /\ Sent => (Sent \/ Silent \/ ClientsTurn)'
                      /\ Silent => (Silent \/ ClientsTurn)'
                      /\ Free => (Free \/ Leaving)'
                      /\ Leaving => (Leaving \/ Stopping)'
                      /\ Stopping => (Stopping \/ Ended)'
    OBVIOUS
  <2>1. CASE Browser
    BY <2>1, BrowserSteps
  <2>2. CASE Environment
    BY <2>2 DEF Environment, InferenceExits, RpcExits, StartUpRaises, Close
  <2>3. CASE Lifespan
    BY <2>3 DEF Lifespan, Boot, Announce, StartUp, Leave, StopChildren, LoopEnds
  <2>4. CASE Client
    BY <2>4 DEF Client, Ask, Forward, Received
  <2>5. CASE Proxy
    BY <2>5 DEF Proxy, Reply, Severed, TimesOut
  <2>6. CASE Terminated \/ UNCHANGED vars
    BY <2>6 DEF Terminated, vars
  <2> QED
    BY <2>1, <2>2, <2>3, <2>4, <2>5, <2>6 DEF Next
<1>2. /\ Sent /\ <<Proxy>>_vars => (Silent \/ ClientsTurn)'
      /\ Silent /\ <<Proxy>>_vars => ClientsTurn'
  BY DEF Proxy, Reply, Severed, TimesOut
<1>3. /\ Free /\ <<Lifespan>>_vars => Leaving'
      /\ Leaving /\ <<Lifespan>>_vars => Stopping'
      /\ Stopping /\ <<Lifespan>>_vars => Ended'
  BY DEF Lifespan, Boot, Announce, StartUp, Leave, StopChildren, LoopEnds
<1>4. TypeOK /\ life = "closing" => Sent \/ Silent \/ Free \/ ClientsTurn
  BY DEF TypeOK, Requests
<1>5. /\ Sent \/ Silent => request \in {"sent", "silent"}
      /\ Free \/ Leaving \/ Stopping => LifespanDue
  BY DEF LifespanDue
<1> HIDE DEF Sent, Silent, Free, Leaving, Stopping, Ended, ClientsTurn
<1> QED
  BY <1>1, <1>2, <1>3, <1>4, <1>5, TypeCorrect, PTL
     DEF FairSpec, Spec, GuardsEnable, ShutdownEnds
=============================================================================
