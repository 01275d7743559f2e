---------------------------- MODULE PhoneWorker ----------------------------
(***************************************************************************)
(* The phone as a worker (mobile/lib/services/worker_service.dart, with    *)
(* register() and unregister() of discovery_service.dart): WorkerService's *)
(* start() and stop(), which the one button of the worker screen calls.    *)
(*                                                                         *)
(* Dart runs one event at a time, but both are asynchronous, and _running, *)
(* which they test and which the button is labelled after, changes only at *)
(* their end: a second tap starts a second call that runs beside the       *)
(* first.  A call is cut at its awaits.                                    *)
(*                                                                         *)
(* No native process appears: _startNativeRpcServer and its counterpart    *)
(* are delays that succeed.                                                *)
(***************************************************************************)
EXTENDS Naturals, FiniteSets

CONSTANTS
    Calls,          \* taps on the button; each is one call
    Registrations,  \* nsd registrations
    None            \* _registration is null

ASSUME PhoneAssumption == None \notin Registrations \cup Calls

VARIABLES
    running,       \* _running
    registered,    \* _registered
    registration,  \* _registration
    advertised,    \* the registrations the network knows of
    service,       \* the foreground service: "on" or "off"
    uptimers,      \* the calls whose uptime timer ticks
    uptimer,       \* the call whose timer is _uptimeTimer
    at,            \* where each call is
    handle,        \* the registration that each unregister() is withdrawing
    hasty          \* history: the taps made while another's call ran

vars == <<running, registered, registration, advertised, service, uptimers,
          uptimer, at, handle, hasty>>

Places == {"new",
           "screen",      \* in _savePrefs and _getRamGb, before start()
           "native",      \* in _startNativeRpcServer
           "background",  \* in FlutterBackgroundService.startService
           "register",    \* in registerService
           "unregister",  \* in unregisterService
           "stopNative",  \* in _stopNativeRpcServer
           "over"}

\* Types of every variable.
TypeOK ==
    /\ running \in BOOLEAN
    /\ registered \in BOOLEAN
    /\ registration \in Registrations \cup {None}
    /\ advertised \subseteq Registrations
    /\ service \in {"on", "off"}
    /\ uptimers \subseteq Calls
    /\ uptimer \in Calls \cup {None}
    /\ at \in [Calls -> Places]
    /\ handle \in [Calls -> Registrations \cup {None}]
    /\ hasty \subseteq Calls

Init ==
    /\ running = FALSE
    /\ registered = FALSE
    /\ registration = None
    /\ advertised = {}
    /\ service = "off"
    /\ uptimers = {}
    /\ uptimer = None
    /\ at = [c \in Calls |-> "new"]
    /\ handle = [c \in Calls |-> None]
    /\ hasty = {}

Go(c, place) == at' = [at EXCEPT ![c] = place]

InFlight == {c \in Calls : at[c] \notin {"new", "over"}}

airVars == <<registered, registration, advertised>>
timerVars == <<uptimers, uptimer>>

-----------------------------------------------------------------------------
\* Any tap: was another call in flight?
Tap(c) == hasty' = IF InFlight = {} THEN hasty ELSE hasty \cup {c}

\* A tap on "Start Worker".
TapStart(c) ==
    /\ at[c] = "new" /\ ~running
    /\ Tap(c)
    /\ Go(c, "screen")
    /\ UNCHANGED <<running, airVars, service, timerVars, handle>>

\* start() tests _running, or finds the screen gone.
Start(c) ==
    /\ at[c] = "screen"
    /\ \/ ~running /\ Go(c, "native")
       \/ Go(c, "over")
    /\ UNCHANGED <<running, airVars, service, timerVars, handle, hasty>>

\* The delay that stands for the native server is over.
NativeStarted(c) ==
    /\ at[c] = "native"
    /\ Go(c, "background")
    /\ UNCHANGED <<running, airVars, service, timerVars, handle, hasty>>

\* startService returns, or throws out of start().
ServiceStarted(c) ==
    /\ at[c] = "background"
    /\ \/ service' = "on" /\ Go(c, "register")
       \/ Go(c, "over") /\ UNCHANGED service
    /\ UNCHANGED <<running, airVars, timerVars, handle, hasty>>

\* Mutant of RegisterFails: the flags are set all the same.
RegisterFailsUnseen(c) ==
    /\ at[c] = "register"
    /\ registered' = TRUE
    /\ running' = TRUE
    /\ Go(c, "over")
    /\ UNCHANGED <<registration, advertised, service, timerVars, handle, hasty>>

\* registerService throws out of start(): the foreground service stays.
RegisterFails(c) ==
    /\ at[c] = "register"
    /\ Go(c, "over")
    /\ UNCHANGED <<running, airVars, service, timerVars, handle, hasty>>

\* registerService returns, and start() ends.
Registered(c) ==
    /\ at[c] = "register"
    /\ \E r \in Registrations \ advertised :
          registration' = r /\ advertised' = advertised \cup {r}
    /\ registered' = TRUE
    /\ running' = TRUE
    /\ uptimers' = uptimers \cup {c}
    /\ uptimer' = c
    /\ Go(c, "over")
    /\ UNCHANGED <<service, handle, hasty>>

\* A tap on "Stop Worker": stop() begins at once, and unregister() keeps the
\* _registration of the moment.
TapStop(c) ==
    /\ at[c] = "new" /\ running
    /\ Tap(c)
    /\ handle' = [handle EXCEPT ![c] = registration]
    /\ \/ registration # None /\ Go(c, "unregister") /\ UNCHANGED registered
       \/ registration = None /\ Go(c, "stopNative") /\ registered' = FALSE
    /\ UNCHANGED <<running, registration, advertised, service, timerVars>>

\* Mutant of Unregistered: the registration is withdrawn, not forgotten.
Remembered(c) ==
    /\ at[c] = "unregister"
    /\ advertised' = advertised \ {handle[c]}
    /\ registered' = FALSE
    /\ Go(c, "stopNative")
    /\ UNCHANGED <<running, registration, service, timerVars, handle, hasty>>

\* unregisterService returns: _registration is cleared, whatever it is by now.
Unregistered(c) ==
    /\ at[c] = "unregister"
    /\ advertised' = advertised \ {handle[c]}
    /\ registration' = None
    /\ registered' = FALSE
    /\ Go(c, "stopNative")
    /\ UNCHANGED <<running, service, timerVars, handle, hasty>>

\* Mutant of UnregisterFails: the registration is forgotten all the same.
UnregisterFailsForgets(c) ==
    /\ at[c] = "unregister"
    /\ registration' = None
    /\ Go(c, "over")
    /\ UNCHANGED <<running, registered, advertised, service, timerVars, handle, hasty>>

\* It throws out of stop(): the worker goes on running.
UnregisterFails(c) ==
    /\ at[c] = "unregister"
    /\ Go(c, "over")
    /\ UNCHANGED <<running, airVars, service, timerVars, handle, hasty>>

\* Mutant of Stopped: the timer is not cancelled.
StoppedTicking(c) ==
    /\ at[c] = "stopNative"
    /\ service' = "off"
    /\ uptimer' = None
    /\ running' = FALSE
    /\ Go(c, "over")
    /\ UNCHANGED <<airVars, uptimers, handle, hasty>>

\* The delay is over, and stop() ends.
Stopped(c) ==
    /\ at[c] = "stopNative"
    /\ service' = "off"
    /\ uptimers' = uptimers \ {uptimer}
    /\ uptimer' = None
    /\ running' = FALSE
    /\ Go(c, "over")
    /\ UNCHANGED <<airVars, handle, hasty>>

\* Every tap has been made.
Finished == (\A c \in Calls : at[c] = "over") /\ UNCHANGED vars

Next ==
    \/ \E c \in Calls :
          \/ TapStart(c) \/ Start(c) \/ NativeStarted(c) \/ ServiceStarted(c)
          \/ Registered(c) \/ RegisterFails(c)
          \/ TapStop(c) \/ Unregistered(c) \/ UnregisterFails(c) \/ Stopped(c)
    \/ Finished

Spec == Init /\ [][Next]_vars

-----------------------------------------------------------------------------
AtRest == InFlight = {}

\* The user has waited for the end of each call before the next tap.
patient == hasty = {}

\* "registers this device as a worker node when active" (discovery_service.dart
\* :9): between calls the phone is advertised exactly when it is running, under
\* the one registration it can withdraw, whatever failed before.  A user who
\* taps while a call runs can break it: two starts make two registrations.
ActiveIffAdvertised ==
    patient /\ AtRest => /\ running <=> advertised # {}
                         /\ advertised \subseteq {registration}

\* One uptime timer ticks while the phone runs and none after stop(), so that
\* the uptime shown counts seconds.
UptimeCounts ==
    patient /\ AtRest => /\ uptimers = {uptimer} \ {None}
                         /\ running <=> uptimer # None

\* What is advertised and cannot be withdrawn any more.
Leaked == advertised \ {registration}

\* However taps overlap and calls fail, each tap that did not wait costs at most
\* one registration that nobody can withdraw any more, and no other tap does.
LeaksBounded == Cardinality(Leaked) <= Cardinality(hasty)

\* However taps overlap, the registration that a later unregister() would
\* withdraw is one that the network has.
HandleIsLive == registration # None => registration \in advertised

\* What holds however taps overlap, and is inductive: types and HandleIsLive.
PhoneInv == TypeOK /\ HandleIsLive
=============================================================================
