---------------------------- MODULE PhoneClient ----------------------------
(***************************************************************************)
(* The phone as a client (mobile/lib): the nodes that DiscoveryService     *)
(* keeps, InferenceService's choice of one of them for the chat, and the   *)
(* chat screen that asks for it.                                           *)
(*                                                                         *)
(* Dart runs one event at a time; address lookups, pings and replies are   *)
(* awaited, and may come back in any order, with other events in between.  *)
(* All nodes here are full nodes, each at a host that may change.          *)
(***************************************************************************)
EXTENDS Naturals, FiniteSets

CONSTANTS
    Names,     \* node names, and the names of their services
    Contains,  \* <<k, n>>: the name k contains the name n
    Hosts,
    Ram,       \* the memory each node advertises
    Screens,   \* chat screens opened; each selects a node once
    Chat,      \* the selection that chatStream makes
    None

ASSUME PhoneClientAssumption ==
    /\ Contains \subseteq Names \X Names
    /\ Ram \in [Names -> Nat]
    /\ Chat \notin Screens
    /\ None \notin Hosts

VARIABLES
    air,        \* what nsd has reported and not reported lost, and where it is
    lookups,    \* lookups in flight
    nodes,      \* _nodes: the host of each entry
    stale,      \* the entries whose lastSeen is too old
    active,     \* _activeNode
    onDevice,   \* _usingOnDevice
    selecting,  \* the selections in flight
    untried,    \* the candidates each has not pinged yet
    opened,     \* the screens that have been opened
    sheet,      \* the nodes that the picker shows, {} when it is closed
    chat        \* "idle", "choosing", "cluster" or "device"

vars == <<air, lookups, nodes, stale, active, onDevice, selecting, untried,
          opened, sheet, chat>>

discoveryVars == <<air, lookups, nodes, stale>>
sourceVars == <<active, onDevice>>

Nodes == [name : Names, host : Hosts]

Calls == Screens \cup {Chat}

\* Types of every variable.
TypeOK ==
    /\ air \in [Names -> Hosts \cup {None}]
    /\ lookups \subseteq Nodes
    /\ nodes \in [Names -> Hosts \cup {None}]
    /\ stale \subseteq Names
    /\ active \in Nodes \cup {None}
    /\ onDevice \in BOOLEAN
    /\ selecting \subseteq Calls
    /\ untried \in [Calls -> SUBSET Nodes]
    /\ opened \subseteq Screens
    /\ sheet \subseteq Nodes
    /\ chat \in {"idle", "choosing", "cluster", "device"}

Init ==
    /\ air = [n \in Names |-> None]
    /\ lookups = {}
    /\ nodes = [n \in Names |-> None]
    /\ stale = {}
    /\ active = None
    /\ onDevice = FALSE
    /\ selecting = {}
    /\ untried = [c \in Calls |-> {}]
    /\ opened = {}
    /\ sheet = {}
    /\ chat = "idle"

Listed == {n \in Names : nodes[n] # None}

\* inferenceNodes: the entries that are not stale.
Candidates == {[name |-> n, host |-> nodes[n]] : n \in Listed \ stale}

-----------------------------------------------------------------------------
(* DiscoveryService.                                                       *)

clientVars == <<sourceVars, selecting, untried, opened, sheet, chat>>

\* The entry is set, and lastSeen is now.
Add(n, h) ==
    /\ nodes' = [nodes EXCEPT ![n] = h]
    /\ stale' = stale \ {n}

\* ServiceStatus.found with an address: the entry is set at once.
FoundAddress(n) ==
    /\ air[n] = None
    /\ \E h \in Hosts : air' = [air EXCEPT ![n] = h] /\ Add(n, h)
    /\ UNCHANGED <<lookups, clientVars>>

\* Found with a host name, which is looked up first.
FoundName(n) ==
    /\ air[n] = None
    /\ \E h \in Hosts :
          /\ air' = [air EXCEPT ![n] = h]
          /\ lookups' = lookups \cup {[name |-> n, host |-> h]}
    /\ UNCHANGED <<nodes, stale, clientVars>>

\* A lookup comes back, whatever has happened to the service since.
LookupEnds(l) ==
    /\ l \in lookups
    /\ lookups' = lookups \ {l}
    /\ Add(l.name, l.host)
    /\ UNCHANGED <<air, clientVars>>

\* ServiceStatus.lost: every entry whose key contains the service's name.
Lost(n) ==
    /\ air[n] # None
    /\ air' = [air EXCEPT ![n] = None]
    /\ LET gone == {k \in Names : k = n \/ <<k, n>> \in Contains} IN
          /\ nodes' = [k \in Names |-> IF k \in gone THEN None ELSE nodes[k]]
          /\ stale' = stale \ gone
    /\ UNCHANGED <<lookups, clientVars>>

\* Ninety seconds have passed since the service was found.
GrowsStale(n) ==
    /\ n \in Listed \ stale
    /\ stale' = stale \cup {n}
    /\ UNCHANGED <<air, lookups, nodes, clientVars>>

\* Mutant of Prune: a node that is still on the air is kept, and its stale
\* neighbours with it.
PruneAllOrNone ==
    /\ stale # {}
    /\ \A n \in stale : air[n] = None
    /\ nodes' = [n \in Names |-> IF n \in stale THEN None ELSE nodes[n]]
    /\ stale' = {}
    /\ UNCHANGED <<air, lookups, clientVars>>

\* The timer that runs every 30 seconds.
Prune ==
    /\ stale # {}
    /\ nodes' = [n \in Names |-> IF n \in stale THEN None ELSE nodes[n]]
    /\ stale' = {}
    /\ UNCHANGED <<air, lookups, clientVars>>

-----------------------------------------------------------------------------
(* InferenceService.                                                       *)

UseDevice == active' = None /\ onDevice' = TRUE

\* Mutant of Use: a node is chosen and _usingOnDevice left set.
UseNodeOnly(m) == active' = m /\ UNCHANGED onDevice

Use(m) == active' = m /\ onDevice' = FALSE

\* chatStream goes on where selectBestNode returned to it.
Resume(c) ==
    IF c # Chat THEN UNCHANGED chat
    ELSE chat' = IF onDevice' THEN "device" ELSE "cluster"

\* selectBestNode takes its candidates; without any it falls back at once.
Select(c) ==
    /\ c \notin selecting
    /\ \/ /\ Candidates # {}
          /\ selecting' = selecting \cup {c}
          /\ untried' = [untried EXCEPT ![c] = Candidates]
          /\ chat' = IF c = Chat THEN "choosing" ELSE chat
          /\ UNCHANGED sourceVars
       \/ /\ Candidates = {}
          /\ UseDevice
          /\ Resume(c)
          /\ UNCHANGED <<selecting, untried>>

Done(c) ==
    /\ selecting' = selecting \ {c}
    /\ untried' = [untried EXCEPT ![c] = {}]
    /\ Resume(c)

\* The next ping is of a candidate with the most memory, in the order of a sort
\* that need not be stable.
IsNext(c, m) ==
    /\ c \in selecting
    /\ m \in untried[c]
    /\ \A k \in untried[c] : Ram[k.name] <= Ram[m.name]

\* It answers, whatever mDNS says of it: it is the node from now on.
PingAnswered(c, m) ==
    /\ IsNext(c, m)
    /\ Use(m)
    /\ Done(c)
    /\ UNCHANGED <<discoveryVars, opened, sheet>>

\* Mutant of PingFails: after the last candidate nothing falls back.
PingFailsToNothing(c, m) ==
    /\ IsNext(c, m)
    /\ untried' = [untried EXCEPT ![c] = @ \ {m}]
    /\ UNCHANGED <<sourceVars, selecting, chat, discoveryVars, opened, sheet>>

\* An error, a timeout or another status: the next, or the device after all.
PingFails(c, m) ==
    /\ IsNext(c, m)
    /\ \/ /\ untried[c] # {m}
          /\ untried' = [untried EXCEPT ![c] = @ \ {m}]
          /\ UNCHANGED <<sourceVars, selecting, chat>>
       \/ /\ untried[c] = {m}
          /\ UseDevice
          /\ Done(c)
    /\ UNCHANGED <<discoveryVars, opened, sheet>>

pickerVars == <<discoveryVars, selecting, untried, opened, chat>>

\* "Switch" in the banner: a sheet of the candidates of this moment.
OpenPicker ==
    /\ opened # {} /\ sheet = {}
    /\ Candidates # {}
    /\ sheet' = Candidates
    /\ UNCHANGED <<pickerVars, sourceVars>>

\* useNode, of a node on the sheet, whatever has become of it since.
PickNode(m) ==
    /\ m \in sheet
    /\ Use(m)
    /\ sheet' = {}
    /\ UNCHANGED pickerVars

\* useOnDevice.
PickDevice ==
    /\ sheet # {}
    /\ UseDevice
    /\ sheet' = {}
    /\ UNCHANGED pickerVars

\* The sheet is swiped away.
ClosePicker ==
    /\ sheet # {}
    /\ sheet' = {}
    /\ UNCHANGED <<pickerVars, sourceVars>>

-----------------------------------------------------------------------------
(* The chat screen.                                                        *)

\* _init of a screen that is opened.
Open(s) ==
    /\ s \notin opened
    /\ opened' = opened \cup {s}
    /\ Select(s)
    /\ UNCHANGED <<discoveryVars, sheet>>

\* _send and chatStream: from the device, from the node chosen some time ago,
\* or from the one a selection finds now.
Send ==
    /\ opened # {} /\ chat = "idle"
    /\ \/ /\ onDevice
          /\ chat' = "device"
          /\ UNCHANGED <<sourceVars, selecting, untried>>
       \/ /\ ~onDevice /\ active # None
          /\ chat' = "cluster"
          /\ UNCHANGED <<sourceVars, selecting, untried>>
       \/ /\ ~onDevice /\ active = None
          /\ Select(Chat)
    /\ UNCHANGED <<discoveryVars, opened, sheet>>

\* The reply ends, or an error is shown in its place.
ReplyEnds ==
    /\ chat \in {"cluster", "device"}
    /\ chat' = "idle"
    /\ UNCHANGED <<discoveryVars, sourceVars, selecting, untried, opened, sheet>>

-----------------------------------------------------------------------------
Network ==
    \/ \E n \in Names : FoundAddress(n) \/ FoundName(n) \/ Lost(n)

PingEnds(c) == \E m \in untried[c] : PingAnswered(c, m) \/ PingFails(c, m)

Next ==
    \/ Network
    \/ \E l \in lookups : LookupEnds(l)
    \/ \E n \in Names : GrowsStale(n)
    \/ Prune
    \/ \E c \in Calls : PingEnds(c)
    \/ \E m \in Nodes : PickNode(m)
    \/ OpenPicker \/ PickDevice \/ ClosePicker
    \/ \E s \in Screens : Open(s)
    \/ Send \/ ReplyEnds

Spec == Init /\ [][Next]_vars

\* Time passes, the timer fires, pings and replies end or time out, a screen
\* that is shown selects.
FairSpec ==
    /\ Spec
    /\ \A n \in Names : WF_vars(GrowsStale(n))
    /\ WF_vars(Prune)
    /\ \A s \in Screens : WF_vars(PingEnds(s))
    /\ WF_vars(PingEnds(Chat))
    /\ WF_vars(ReplyEnds)

-----------------------------------------------------------------------------
\* The banner and chatStream never see both sources at once, however many
\* selections and choices overlap: the reply that is streaming comes from one.
OneSource == ~(onDevice /\ active # None)

\* An entry that is not where the service is, because a lookup came back after
\* the service was lost or had moved, does not stay.
GhostsExpire ==
    \A n \in Names :
        (nodes[n] # None /\ nodes[n] # air[n]) ~> (nodes[n] = None \/ nodes[n] = air[n])

\* Every message gets its reply or its error: no ping that fails, or selection
\* that overlaps, leaves the chat waiting.
ChatAnswers == chat # "idle" ~> chat = "idle"

\* A selection is under way for as long as it has a candidate left to ping, and
\* the message waits exactly as long as its own: a selection that has fallen
\* through its list and not come back would keep the message for ever, and a
\* second one for the same message would answer it twice.
SelectionAlive ==
    /\ \A c \in Calls : c \in selecting <=> untried[c] # {}
    /\ Chat \in selecting <=> chat = "choosing"

\* The invariant of the client, which is inductive: types, one source at a time,
\* and no selection or message left hanging.
ClientInv == TypeOK /\ OneSource /\ SelectionAlive

\* There is a candidate that selection c pings next.
PingCan(c) == \E m \in untried[c] : IsNext(c, m)

\* What the fair actions need, no more and no less.
GuardsEnable ==
    /\ PingCan(Chat) <=> ENABLED <<PingEnds(Chat)>>_vars
    /\ \A s \in Screens : PingCan(s) <=> ENABLED <<PingEnds(s)>>_vars
    /\ chat \in {"cluster", "device"} <=> ENABLED <<ReplyEnds>>_vars
    /\ \A n \in Names : n \in Listed \ stale <=> ENABLED <<GrowsStale(n)>>_vars
    /\ stale # {} <=> ENABLED <<Prune>>_vars
=============================================================================
