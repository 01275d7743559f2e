------------------------- MODULE PhoneWorkerProofs -------------------------
(***************************************************************************)
(* PhoneWorker's types and invariants, for any number of taps and          *)
(* registrations.                                                          *)
(***************************************************************************)
EXTENDS PhoneWorker, TLAPS

\* Every variable keeps its type.
THEOREM TypeCorrect == Spec => []TypeOK
<1>1. Init => TypeOK
    BY DEF Init, TypeOK, Places
<1>2. TypeOK /\ [Next]_vars => TypeOK'
    <2> SUFFICES ASSUME TypeOK, [Next]_vars PROVE TypeOK'
        OBVIOUS
    <2> USE DEF airVars, timerVars
    <2>1. ASSUME NEW c \in Calls, NEW place \in Places, Go(c, place)
          PROVE  at' \in [Calls -> Places]
        BY <2>1 DEF Go, TypeOK
    <2>2. ASSUME NEW c \in Calls, Tap(c)
          PROVE  hasty' \subseteq Calls
        BY <2>2 DEF Tap, TypeOK
    <2>3. ASSUME NEW c \in Calls, TapStart(c) PROVE TypeOK'
        BY <2>3, <2>2, <2>1 DEF TapStart, TypeOK, Places
    <2>4. ASSUME NEW c \in Calls,
                 Start(c) \/ NativeStarted(c) \/ RegisterFails(c) \/ UnregisterFails(c)
          PROVE  TypeOK'
        BY <2>4, <2>1 DEF Start, NativeStarted, RegisterFails, UnregisterFails,
                          TypeOK, Places
    <2>5. ASSUME NEW c \in Calls, ServiceStarted(c) PROVE TypeOK'
        BY <2>5, <2>1 DEF ServiceStarted, TypeOK, Places
    <2>6. ASSUME NEW c \in Calls, Registered(c) PROVE TypeOK'
        BY <2>6, <2>1 DEF Registered, TypeOK, Places
    <2>7. ASSUME NEW c \in Calls, TapStop(c) PROVE TypeOK'
        <3>1. registered' \in BOOLEAN
            BY <2>7 DEF TapStop, TypeOK
        <3> QED
            BY <2>7, <2>2, <2>1, <3>1 DEF TapStop, TypeOK, Places
    <2>8. ASSUME NEW c \in Calls, Unregistered(c) PROVE TypeOK'
        BY <2>8, <2>1 DEF Unregistered, TypeOK, Places
    <2>9. ASSUME NEW c \in Calls, Stopped(c) PROVE TypeOK'
        BY <2>9, <2>1 DEF Stopped, TypeOK, Places
    <2>10. CASE UNCHANGED vars
        BY <2>10 DEF vars, TypeOK
    <2> QED
        BY <2>3, <2>4, <2>5, <2>6, <2>7, <2>8, <2>9, <2>10 DEF Next, Finished
<1> QED
    BY <1>1, <1>2, PTL DEF Spec

\* However taps overlap, _registration is one that the network has.
THEOREM HandleAlwaysLive == Spec => []HandleIsLive
<1>1. Init => HandleIsLive
    BY DEF Init, HandleIsLive
<1>2. HandleIsLive /\ [Next]_vars => HandleIsLive'
    <2> SUFFICES ASSUME HandleIsLive, [Next]_vars PROVE HandleIsLive'
        OBVIOUS
    <2>1. ASSUME NEW c \in Calls, Registered(c) PROVE HandleIsLive'
        BY <2>1 DEF Registered, HandleIsLive
    <2>2. ASSUME NEW c \in Calls, Unregistered(c) PROVE HandleIsLive'
        BY <2>2 DEF Unregistered, HandleIsLive
    <2>3. UNCHANGED <<registration, advertised>> => HandleIsLive'
        BY DEF HandleIsLive
    <2>4. ASSUME NEW c \in Calls,
                 \/ TapStart(c) \/ Start(c) \/ NativeStarted(c) \/ ServiceStarted(c)
                 \/ RegisterFails(c) \/ TapStop(c) \/ UnregisterFails(c) \/ Stopped(c)
          PROVE  UNCHANGED <<registration, advertised>>
        BY <2>4 DEF TapStart, Start, NativeStarted, ServiceStarted, RegisterFails,
                    TapStop, UnregisterFails, Stopped, airVars
    <2>5. UNCHANGED vars => UNCHANGED <<registration, advertised>>
        BY DEF vars
    <2> QED
        BY <2>1, <2>2, <2>3, <2>4, <2>5 DEF Next, Finished
<1> QED
    BY <1>1, <1>2, PTL DEF Spec

\* The phone's invariant, for any number of taps and registrations.
THEOREM PhoneInvariant == Spec => []PhoneInv
BY TypeCorrect, HandleAlwaysLive, PTL DEF PhoneInv

-----------------------------------------------------------------------------
(* A patient user.                                                         *)

\* The calls that are in start(), or on the way to it.
Starting == {c \in Calls : at[c] \in {"screen", "native", "background", "register"}}

At(place) == {c \in Calls : at[c] = place}

\* What a patient user's phone looks like at every place of the one call there
\* is: a start has nothing to clean up, an unregister() withdraws the one
\* registration there is, and the delay of stop() has nothing on the air.
PatientInv ==
    patient =>
        /\ \A c, d \in InFlight : c = d
        /\ running => uptimer # None /\ uptimers = {uptimer}
        /\ ~running => /\ uptimer = None /\ uptimers = {}
                       /\ advertised = {}
        /\ running /\ At("stopNative") = {} => /\ registration # None
                                               /\ advertised = {registration}
        /\ Starting # {} => ~running
        /\ At("unregister") \cup At("stopNative") # {} => running
        /\ At("stopNative") # {} => advertised = {}
        /\ \A c \in At("unregister") : handle[c] = registration

\* PatientInv is inductive, with the types.
LEMMA PatientPreserved == Spec => []PatientInv
<1>1. Init => PatientInv
    BY DEF Init, PatientInv, patient, InFlight, Starting, At
<1>2. TypeOK /\ PatientInv /\ [Next]_vars => PatientInv'
    <2> SUFFICES ASSUME TypeOK, PatientInv, [Next]_vars, hasty' = {} PROVE PatientInv'
        BY DEF PatientInv, patient
    <2> USE DEF airVars, timerVars, InFlight, Starting, At, Go, patient
    <2>1. ASSUME NEW c \in Calls, TapStart(c) PROVE PatientInv'
        BY <2>1 DEF TapStart, Tap, PatientInv, TypeOK, Places
    <2>2. ASSUME NEW c \in Calls, Start(c) \/ NativeStarted(c) PROVE PatientInv'
        BY <2>2 DEF Start, NativeStarted, PatientInv, TypeOK, Places
    <2>3. ASSUME NEW c \in Calls, ServiceStarted(c) \/ RegisterFails(c)
          PROVE  PatientInv'
        BY <2>3 DEF ServiceStarted, RegisterFails, PatientInv, TypeOK, Places
    <2>4. ASSUME NEW c \in Calls, UnregisterFails(c) PROVE PatientInv'
        BY <2>4 DEF UnregisterFails, PatientInv, TypeOK, Places
    <2>5. ASSUME NEW c \in Calls, Registered(c) PROVE PatientInv'
        BY <2>5, PhoneAssumption DEF Registered, PatientInv, TypeOK, Places
    <2>6. ASSUME NEW c \in Calls, TapStop(c) PROVE PatientInv'
        <3>1. patient /\ InFlight = {} /\ running
            BY <2>6 DEF TapStop, Tap
        <3>2. registration # None /\ advertised = {registration}
            BY <3>1 DEF PatientInv
        <3>3. /\ handle' = [handle EXCEPT ![c] = registration]
              /\ at' = [at EXCEPT ![c] = "unregister"]
            BY <2>6, <3>2 DEF TapStop
        <3>4. InFlight' = {c} /\ At("unregister")' = {c} /\ At("stopNative")' = {}
              /\ Starting' = {}
            BY <3>1, <3>3 DEF TypeOK, Places
        <3>5. \A d \in At("unregister")' : handle'[d] = registration
            BY <3>3, <3>4 DEF TypeOK
        <3>6. UNCHANGED <<running, registration, advertised, uptimers, uptimer>>
            BY <2>6 DEF TapStop
        <3> HIDE DEF InFlight, Starting, At
        <3> QED
            BY <3>1, <3>2, <3>4, <3>5, <3>6 DEF PatientInv
    <2>7. ASSUME NEW c \in Calls, Unregistered(c) PROVE PatientInv'
        BY <2>7 DEF Unregistered, PatientInv, TypeOK, Places
    <2>8. ASSUME NEW c \in Calls, Stopped(c) PROVE PatientInv'
        BY <2>8 DEF Stopped, PatientInv, TypeOK, Places
    <2>9. CASE UNCHANGED vars
        BY <2>9 DEF vars, PatientInv
    <2> QED
        BY <2>1, <2>2, <2>3, <2>4, <2>5, <2>6, <2>7, <2>8, <2>9 DEF Next, Finished
<1> QED
    BY <1>1, <1>2, TypeCorrect, PTL DEF Spec

\* For a user who waits for each tap to end, the phone is advertised exactly
\* while it runs, under the registration it can withdraw.
THEOREM PatientIsAdvertised == Spec => []ActiveIffAdvertised
<1>1. TypeOK /\ PatientInv => ActiveIffAdvertised
    BY DEF PatientInv, ActiveIffAdvertised, AtRest, InFlight, At, TypeOK
<1> QED
    BY <1>1, TypeCorrect, PatientPreserved, PTL

\* For such a user one uptime timer ticks while it runs, and none after.
THEOREM PatientSeesUptime == Spec => []UptimeCounts
<1>1. TypeOK /\ PatientInv => UptimeCounts
    BY DEF PatientInv, UptimeCounts, TypeOK
<1> QED
    BY <1>1, TypeCorrect, PatientPreserved, PTL
=============================================================================
