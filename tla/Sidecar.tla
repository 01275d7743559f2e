------------------------------ MODULE Sidecar ------------------------------
(***************************************************************************)
(* The sidecar of a full node (worker/sidecar/main.py, ENABLE_INFERENCE):  *)
(* it runs llama-rpc-server, advertises it, and runs a llama-server of its *)
(* own over itself and the peers that it has discovered by then.           *)
(*                                                                         *)
(* Two threads: zeroconf's ServiceBrowser thread calls the _PeerListener,  *)
(* and the asyncio loop runs lifespan() and the /v1 proxy, of which one    *)
(* request at a time is followed.  Both are cut at their awaits.           *)
(* _stop_proc blocks the loop, so that whatever it does is one step of it. *)
(*                                                                         *)
(* _restart_inference_if_needed does not appear.  The listener asks for it *)
(* with asyncio.ensure_future on the browser's thread, which has no event  *)
(* loop, so that the call raises and no restart ever runs: there is one    *)
(* llama-server at most.                                                   *)
(***************************************************************************)
CONSTANTS
    Names,            \* node names
    Self,             \* NODE_NAME
    Services,         \* mDNS services
    NodeName,         \* the node_name that each service advertises
    StartsWith,       \* <<k, s>>: the full name of service s starts with k
    Endpoints,
    None              \* no peer

ASSUME SidecarAssumption ==
    /\ Self \in Names
    /\ NodeName \in [Services -> Names]
    /\ StartsWith \subseteq Names \X Services
    /\ None \notin Endpoints

VARIABLES
    life,        \* where lifespan() is
    browsing,    \* the browser's thread is alive
    known,       \* the services the browser has reported
    peers,       \* _peer_registry
    rpc,         \* llama-rpc-server
    inf,         \* _inf_proc, llama-server
    cmd,         \* the peers in its --rpc list
    request      \* where the proxy's request is

peerVars == <<browsing, known, peers>>
procVars == <<rpc, inf, cmd>>

vars == <<life, peerVars, procVars, request>>

Lives == {"boot",      \* before the first step
          "rpc",       \* asleep after starting llama-rpc-server
          "browse",    \* asleep for the brief discovery window
          "running",   \* at the yield
          "closing",   \* there still, while uvicorn waits for the request
          "leaving",   \* unregistering from mDNS
          "stopped",   \* children stopped, the loop winding down
          "down",      \* the process has exited after all this
          "failed"}    \* it exited because lifespan() raised at startup

Processes == {"none", "up", "exited"}

Requests == {"none",
             "body",    \* its body is awaited
             "sent",    \* llama-server has it, and works on the reply
             "silent",  \* llama-server has it and says nothing
             "back"}    \* the reply is being sent to the client

Rosters == [Names -> Endpoints \cup {None}]

NoPeers == [n \in Names |-> None]

\* Types of every variable.
TypeOK ==
    /\ life \in Lives
    /\ browsing \in BOOLEAN
    /\ known \subseteq Services
    /\ peers \in Rosters
    /\ rpc \in Processes
    /\ inf \in Processes
    /\ cmd \in Rosters
    /\ request \in Requests

Init ==
    /\ life = "boot"
    /\ browsing = FALSE
    /\ known = {}
    /\ peers = NoPeers
    /\ rpc = "none"
    /\ inf = "none"
    /\ cmd = NoPeers
    /\ request = "none"

Ended == life \in {"down", "failed"}

\* lifespan() has come to its yield, and not gone on.
Serving == life \in {"running", "closing"}

Listed == {n \in Names : peers[n] # None}

-----------------------------------------------------------------------------
(* The browser's thread.                                                   *)

browserFrame == <<life, procVars, request>>

\* asyncio.ensure_future raises: the registry has changed by then, the thread
\* may not survive the exception.
RestartRaises == browsing' \in BOOLEAN

\* add_service of a peer that resolves: its entry is set, new or not.
AddPeer(s) ==
    /\ browsing
    /\ s \notin known
    /\ NodeName[s] # Self
    /\ known' = known \cup {s}
    /\ \E e \in Endpoints : peers' = [peers EXCEPT ![NodeName[s]] = e]
    /\ RestartRaises
    /\ UNCHANGED browserFrame

\* add_service of this node itself, or of one that does not resolve.
AddOther(s) ==
    /\ browsing
    /\ s \notin known
    /\ known' = known \cup {s}
    /\ UNCHANGED <<browsing, peers, browserFrame>>

Gone(s) == {n \in Listed : <<n, s>> \in StartsWith}

\* remove_service: every peer whose key the service's name starts with.
RemovePeer(s) ==
    /\ browsing
    /\ s \in known
    /\ known' = known \ {s}
    /\ peers' = [n \in Names |-> IF n \in Gone(s) THEN None ELSE peers[n]]
    /\ \/ Gone(s) # {} /\ RestartRaises
       \/ Gone(s) = {} /\ UNCHANGED browsing
    /\ UNCHANGED browserFrame

-----------------------------------------------------------------------------
(* The children.                                                           *)

\* _stop_proc: terminate, wait, kill.
Stopped(proc) == IF proc = "up" THEN "exited" ELSE proc

\* _start_inference_server and the assignment to _inf_proc: a process with all
\* the peers of the moment, or None when the model is missing.
StartInference ==
    \/ inf' = "up" /\ cmd' = peers
    \/ UNCHANGED <<inf, cmd>>

\* llama-server exits by itself, and nobody starts it again.
InferenceExits ==
    /\ inf = "up"
    /\ inf' = "exited"
    /\ UNCHANGED <<life, peerVars, rpc, cmd, request>>

\* So does llama-rpc-server.
RpcExits ==
    /\ rpc = "up"
    /\ rpc' = "exited"
    /\ UNCHANGED <<life, peerVars, inf, cmd, request>>

-----------------------------------------------------------------------------
(* lifespan().                                                             *)

\* llama-rpc-server is started.
Boot ==
    /\ life = "boot"
    /\ life' = "rpc"
    /\ rpc' = "up"
    /\ UNCHANGED <<peerVars, inf, cmd, request>>

\* mDNS registration, and the peer browser.
Announce ==
    /\ life = "rpc"
    /\ life' = "browse"
    /\ browsing' = TRUE
    /\ UNCHANGED <<known, peers, procVars, request>>

\* The window is over: the server is started.
StartUp ==
    /\ life = "browse"
    /\ life' = "running"
    /\ StartInference
    /\ UNCHANGED <<peerVars, rpc, request>>

\* An exception before the yield ends the program, and nothing is undone: the
\* RPC server's binary is missing, registration fails, the browser's thread
\* changes the registry while _build_rpc_list iterates over it.
StartUpRaises ==
    /\ life \in {"boot", "rpc", "browse"}
    /\ life' = "failed"
    /\ browsing' = FALSE
    /\ UNCHANGED <<known, peers, procVars, request>>

\* SIGTERM: uvicorn takes no more requests, and waits for the one there is.
Close ==
    /\ life = "running"
    /\ life' = "closing"
    /\ UNCHANGED <<peerVars, procVars, request>>

\* Mutant of Leave: the request is not waited for.
LeaveAtOnce ==
    /\ life = "closing"
    /\ life' = "leaving"
    /\ browsing' = FALSE
    /\ UNCHANGED <<known, peers, procVars, request>>

\* Heartbeat and browser are cancelled, unregistration is awaited.
Leave ==
    /\ life = "closing"
    /\ request = "none"
    /\ life' = "leaving"
    /\ browsing' = FALSE
    /\ UNCHANGED <<known, peers, procVars, request>>

\* Mutant of StopChildren: only llama-rpc-server is stopped.
StopRpcOnly ==
    /\ life = "leaving"
    /\ life' = "stopped"
    /\ rpc' = Stopped(rpc)
    /\ UNCHANGED <<peerVars, inf, cmd, request>>

\* Both children are stopped.
StopChildren ==
    /\ life = "leaving"
    /\ life' = "stopped"
    /\ inf' = Stopped(inf)
    /\ rpc' = Stopped(rpc)
    /\ UNCHANGED <<peerVars, cmd, request>>

LoopEnds ==
    /\ life = "stopped"
    /\ life' = "down"
    /\ UNCHANGED <<peerVars, procVars, request>>

Terminated == Ended /\ UNCHANGED vars

-----------------------------------------------------------------------------
(* proxy_inference.                                                        *)

proxyFrame == <<life, peerVars, procVars>>

\* A request comes in, and _inf_proc runs now: else it is a 503.
Ask ==
    /\ life = "running"
    /\ request = "none"
    /\ inf = "up"
    /\ request' = "body"
    /\ UNCHANGED proxyFrame

\* The client has sent its body, which nothing hurries, or is gone.  llama-server
\* gets the request if it is still there; if not, httpx raises.
Forward ==
    /\ request = "body"
    /\ \/ inf = "up" /\ request' \in {"sent", "silent"}
       \/ request' \in {"none", "back"}
    /\ UNCHANGED proxyFrame

\* llama-server is done with the reply, or falls silent.
Reply ==
    /\ request = "sent" /\ inf = "up"
    /\ request' \in {"back", "silent"}
    /\ UNCHANGED proxyFrame

\* It has gone, with its connections: httpx raises, and the client gets a 500.
Severed ==
    /\ request \in {"sent", "silent"} /\ inf # "up"
    /\ request' = "back"
    /\ UNCHANGED proxyFrame

\* Mutant of TimesOut: the client has no timeout.
TimesOutNever == Severed

\* Nothing from llama-server in 300 seconds: httpx raises.
TimesOut ==
    /\ request = "silent"
    /\ request' = "back"
    /\ UNCHANGED proxyFrame

\* The client has read its reply, which nothing hurries either, or hung up.
Received ==
    /\ request = "back"
    /\ request' = "none"
    /\ UNCHANGED proxyFrame

-----------------------------------------------------------------------------
Browser == \E s \in Services : AddPeer(s) \/ AddOther(s) \/ RemovePeer(s)

Environment ==
    InferenceExits \/ RpcExits \/ StartUpRaises \/ Close

Lifespan == Boot \/ Announce \/ StartUp \/ Leave \/ StopChildren \/ LoopEnds

Client == Ask \/ Forward \/ Received

Proxy == Reply \/ Severed \/ TimesOut

Next == Browser \/ Environment \/ Lifespan \/ Client \/ Proxy \/ Terminated

Spec == Init /\ [][Next]_vars

\* The loop runs what is ready, its sleeps and timeouts end, and a reply that
\* llama-server goes on with has an end.  The client owes nothing.
FairSpec == Spec /\ WF_vars(Lifespan) /\ WF_vars(Proxy)

-----------------------------------------------------------------------------
\* What shutdown rests on: nothing runs before it is started, a request is in
\* the proxy only while lifespan() is at its yield, so that no child is stopped
\* under one, and the children are gone once they are stopped.
ShutdownInv ==
    /\ life = "boot" => rpc = "none"
    /\ life \in {"boot", "rpc", "browse"} => inf = "none"
    /\ request # "none" => Serving
    /\ life \in {"stopped", "down"} => inf # "up" /\ rpc # "up"

\* The invariant of the sidecar, which is inductive.
SidecarInv == TypeOK /\ ShutdownInv

\* "Worker sidecar shut down cleanly" (main.py:264): the children are gone,
\* whatever has exited by itself before and whatever was in the proxy.
CleanShutdown == life = "down" => inf # "up" /\ rpc # "up"

\* The client is to do something next: to send the rest of its body, or to read
\* the reply.
ClientsTurn == request \in {"body", "back"}

\* A request in the proxy holds up the shutdown no longer than its client does,
\* whatever becomes of the server that has it: dead, slow or silent.
ShutdownEnds == life = "closing" ~> Ended \/ ClientsTurn

\* "running llama-server using all discovered cluster workers (including self)
\* as RPC backends" (main.py:9): the server has the peers, and the addresses, of
\* now in its --rpc list.  The code does not keep this: the listener's restarts
\* raise.
AllPeersServed == Serving /\ inf = "up" => cmd = peers

\* Where the loop owes lifespan() its next step.
LifespanDue ==
    \/ life \in {"boot", "rpc", "browse", "leaving", "stopped"}
    \/ life = "closing" /\ request = "none"

\* The guards of the actions that are fair, as TLC finds them enabled.
GuardsEnable ==
    /\ LifespanDue <=> ENABLED <<Lifespan>>_vars
    /\ request \in {"sent", "silent"} <=> ENABLED <<Proxy>>_vars
=============================================================================
