------------------------- MODULE PhoneClientProofs -------------------------
(***************************************************************************)
(* The phone as a client, for any number of nodes, hosts and screens: the  *)
(* types, OneSource, SelectionAlive, and the steps of its liveness.        *)
(***************************************************************************)
EXTENDS PhoneClient, FunctionTheorems, FiniteSetTheorems, WellFoundedInduction, TLAPS

\* What a selection that begins does to the variables it may touch.
LEMMA SelectTypes ==
    ASSUME TypeOK, NEW c \in Calls, Select(c)
    PROVE  /\ active' \in {active, None}
           /\ onDevice' \in BOOLEAN
           /\ selecting' \subseteq Calls
           /\ untried' \in [Calls -> SUBSET Nodes]
           /\ chat' \in {"idle", "choosing", "cluster", "device"}
<1>1. Candidates \subseteq Nodes
    BY DEF Candidates, Listed, Nodes, TypeOK
<1>2. CASE Candidates # {}
    BY <1>1, <1>2 DEF Select, TypeOK, sourceVars
<1>3. CASE Candidates = {}
    <2>1. UseDevice /\ Resume(c) /\ UNCHANGED <<selecting, untried>>
        BY <1>3 DEF Select
    <2>2. onDevice' \in BOOLEAN
        BY <2>1, Zenon DEF UseDevice
    <2> QED
        BY <2>1, <2>2 DEF TypeOK, UseDevice, Resume
<1> QED
    BY <1>2, <1>3

\* What the end of a selection does.
LEMMA DoneTypes ==
    ASSUME TypeOK, NEW c \in Calls, Done(c)
    PROVE  /\ selecting' \subseteq Calls
           /\ untried' \in [Calls -> SUBSET Nodes]
           /\ chat' \in {"idle", "choosing", "cluster", "device"}
BY DEF Done, Resume, TypeOK

\* Every variable keeps its type.
THEOREM TypeCorrect == Spec => []TypeOK
<1>1. Init => TypeOK
    BY DEF Init, TypeOK
<1>2. TypeOK /\ [Next]_vars => TypeOK'
    <2> SUFFICES ASSUME TypeOK, [Next]_vars PROVE TypeOK'
        OBVIOUS
    <2> USE DEF sourceVars, discoveryVars, clientVars, pickerVars
    <2>1. ASSUME NEW n \in Names, FoundAddress(n) \/ FoundName(n) PROVE TypeOK'
        BY <2>1 DEF FoundAddress, FoundName, Add, Nodes, TypeOK
    <2>2. ASSUME NEW n \in Names, Lost(n) PROVE TypeOK'
        BY <2>2 DEF Lost, TypeOK
    <2>3. ASSUME NEW l \in lookups, LookupEnds(l) PROVE TypeOK'
        <3>1. l.name \in Names /\ l.host \in Hosts
            BY DEF Nodes, TypeOK
        <3> QED
            BY <2>3, <3>1 DEF LookupEnds, Add, TypeOK
    <2>4. ASSUME NEW n \in Names, GrowsStale(n) PROVE TypeOK'
        BY <2>4 DEF GrowsStale, Listed, TypeOK
    <2>5. CASE Prune
        BY <2>5 DEF Prune, TypeOK
    <2>6. ASSUME NEW c \in Calls, NEW m \in untried[c], PingAnswered(c, m)
          PROVE  TypeOK'
        <3>1. m \in Nodes
            BY DEF TypeOK
        <3>2. onDevice' \in BOOLEAN
            BY <2>6, Zenon DEF PingAnswered, Use
        <3> QED
            BY <2>6, <3>1, <3>2, DoneTypes DEF PingAnswered, Use, TypeOK
    <2>7. ASSUME NEW c \in Calls, NEW m \in untried[c], PingFails(c, m)
          PROVE  TypeOK'
        <3>1. CASE untried[c] # {m}
            BY <2>7, <3>1 DEF PingFails, TypeOK
        <3>2. CASE untried[c] = {m}
            <4>1. UseDevice /\ Done(c) /\ UNCHANGED <<discoveryVars, opened, sheet>>
                BY <2>7, <3>2 DEF PingFails
            <4>2. onDevice' \in BOOLEAN
                BY <4>1, Zenon DEF UseDevice
            <4> QED
                BY <4>1, <4>2, DoneTypes DEF UseDevice, TypeOK
        <3> QED
            BY <3>1, <3>2
    <2>8. ASSUME NEW m \in Nodes, PickNode(m) PROVE TypeOK'
        <3>1. onDevice' \in BOOLEAN
            BY <2>8, Zenon DEF PickNode, Use
        <3> QED
            BY <2>8, <3>1 DEF PickNode, Use, TypeOK
    <2>9. CASE PickDevice
        <3>1. onDevice' \in BOOLEAN
            BY <2>9, Zenon DEF PickDevice, UseDevice
        <3> QED
            BY <2>9, <3>1 DEF PickDevice, UseDevice, TypeOK
    <2>14. CASE OpenPicker \/ ClosePicker
        <3>1. Candidates \subseteq Nodes
            BY DEF Candidates, Listed, Nodes, TypeOK
        <3> QED
            BY <2>14, <3>1 DEF OpenPicker, ClosePicker, TypeOK
    <2>10. ASSUME NEW s \in Screens, Open(s) PROVE TypeOK'
        <3>1. s \in Calls
            BY DEF Calls
        <3> QED
            BY <2>10, <3>1, SelectTypes DEF Open, TypeOK
    <2>11. CASE Send
        <3>1. CASE Select(Chat)
            <4>1. Chat \in Calls
                BY DEF Calls
            <4> QED
                BY <2>11, <3>1, <4>1, SelectTypes DEF Send, TypeOK
        <3>2. CASE ~Select(Chat)
            BY <2>11, <3>2 DEF Send, TypeOK
        <3> QED
            BY <3>1, <3>2
    <2>12. CASE ReplyEnds
        BY <2>12 DEF ReplyEnds, TypeOK
    <2>13. CASE UNCHANGED vars
        BY <2>13 DEF vars, TypeOK
    <2> QED
        BY <2>1, <2>2, <2>3, <2>4, <2>5, <2>6, <2>7, <2>8, <2>9, <2>10,
           <2>11, <2>12, <2>13, <2>14 DEF Next, Network, PingEnds
<1> QED
    BY <1>1, <1>2, PTL DEF Spec

\* Whatever selections, choices and messages overlap, the phone never has a
\* node and its own model at once.
THEOREM SourceIsOne == Spec => []OneSource
<1>1. Init => OneSource
    BY DEF Init, OneSource
<1>2. OneSource /\ [Next]_vars => OneSource'
    <2> SUFFICES ASSUME OneSource, [Next]_vars PROVE OneSource'
        OBVIOUS
    <2>1. UNCHANGED sourceVars => OneSource'
        BY DEF sourceVars, OneSource
    <2>2. UseDevice => OneSource'
        BY DEF UseDevice, OneSource
    <2>3. ASSUME NEW m, Use(m) PROVE OneSource'
        BY <2>3 DEF Use, OneSource
    <2>4. ASSUME NEW c, Select(c) PROVE OneSource'
        BY <2>1, <2>2, <2>4 DEF Select
    <2>5. ASSUME NEW c, PingEnds(c) PROVE OneSource'
        BY <2>1, <2>2, <2>3, <2>5 DEF PingEnds, PingAnswered, PingFails, sourceVars
    <2>6. Send => OneSource'
        BY <2>1, <2>4 DEF Send
    <2>7. ASSUME NEW s, Open(s) PROVE OneSource'
        BY <2>4, <2>7 DEF Open
    <2>8. ASSUME NEW m, PickNode(m) PROVE OneSource'
        BY <2>3, <2>8 DEF PickNode
    <2>9. PickDevice => OneSource'
        BY <2>2 DEF PickDevice
    <2>10. \/ UNCHANGED vars \/ Network \/ Prune \/ ReplyEnds
           \/ OpenPicker \/ ClosePicker
           => UNCHANGED sourceVars
        BY DEF vars, Network, FoundAddress, FoundName, Lost, Prune, ReplyEnds,
               OpenPicker, ClosePicker, clientVars, sourceVars
    <2>11. ASSUME NEW l, LookupEnds(l) PROVE UNCHANGED sourceVars
        BY <2>11 DEF LookupEnds, clientVars
    <2>12. ASSUME NEW n, GrowsStale(n) PROVE UNCHANGED sourceVars
        BY <2>12 DEF GrowsStale, clientVars
    <2> QED
        BY <2>1, <2>5, <2>6, <2>7, <2>8, <2>9, <2>10, <2>11, <2>12 DEF Next
<1> QED
    BY <1>1, <1>2, PTL DEF Spec

\* A selection has come back when it has nothing left to try, and the message
\* has gone on with it (inference_service.dart, selectBestNode and chatStream).
THEOREM SelectionsStayAlive == Spec => []SelectionAlive
<1>1. Init => SelectionAlive
    BY PhoneClientAssumption DEF Init, SelectionAlive, Calls
<1>2. TypeOK /\ SelectionAlive /\ [Next]_vars => SelectionAlive'
  <2> SUFFICES ASSUME TypeOK, SelectionAlive, [Next]_vars
               PROVE  SelectionAlive'
      OBVIOUS
  <2> USE PhoneClientAssumption DEF TypeOK, SelectionAlive, Calls
  <2>1. ASSUME NEW c \in Calls, Select(c), c = Chat => chat = "idle"
        PROVE  SelectionAlive'
      BY <2>1 DEF Select, Resume
  <2>2. ASSUME NEW c \in Calls, c \in selecting, Done(c)
        PROVE  SelectionAlive'
      BY <2>2 DEF Done, Resume
  <2>3. ASSUME NEW c \in Calls, PingEnds(c)
        PROVE  SelectionAlive'
    <3>1. PICK m \in untried[c] : PingAnswered(c, m) \/ PingFails(c, m)
        BY <2>3 DEF PingEnds
    <3>2. CASE Done(c)
        BY <3>1, <3>2, <2>2 DEF PingAnswered, PingFails, IsNext
    <3>3. CASE ~Done(c)
        BY <3>1, <3>3 DEF PingAnswered, PingFails, IsNext
    <3> QED
        BY <3>2, <3>3
  <2>4. CASE \E s \in Screens : Open(s)
      BY <2>4, <2>1 DEF Open
  <2>5. CASE Send
      BY <2>5, <2>1 DEF Send
  <2>6. CASE ReplyEnds
      BY <2>6 DEF ReplyEnds
  <2>7. CASE UNCHANGED <<selecting, untried, chat>>
      BY <2>7
  <2> QED
      BY <2>3, <2>4, <2>5, <2>6, <2>7
         DEF Next, Network, FoundAddress, FoundName, LookupEnds, Lost, GrowsStale,
             Prune, PickNode, OpenPicker, PickDevice, ClosePicker,
             pickerVars, discoveryVars, clientVars, vars
<1> QED
    BY <1>1, <1>2, TypeCorrect, PTL DEF Spec

\* Among finitely many candidates one has the most memory: the set of those
\* with more is a smallest one for it, and so empty.
LEMMA MostMemory ==
    ASSUME NEW U \in SUBSET Nodes, IsFiniteSet(U), U # {}
    PROVE  \E m \in U : \A k \in U : Ram[k.name] <= Ram[m.name]
<1> DEFINE Bigger(m) == {k \in U : Ram[m.name] < Ram[k.name]}
           T == {Bigger(m) : m \in U}
           R == StrictSubsetOrdering(U)
<1>1. T \subseteq FiniteSubsetsOf(U) /\ T # {}
  <2>1. ASSUME NEW m \in U
        PROVE  Bigger(m) \in FiniteSubsetsOf(U)
      BY FS_Subset DEF FiniteSubsetsOf
  <2> QED
      BY <2>1
<1>2. IsWellFoundedOn(R, FiniteSubsetsOf(U))
    BY FS_StrictSubsetOrderingWellFounded
<1>3. PICK B \in T : \A C \in T : <<C, B>> \notin R
  <2> HIDE DEF T, R
  <2> QED
      BY <1>1, <1>2, WFMin
<1>4. PICK m \in U : B = Bigger(m)
    BY <1>3
<1>5. ASSUME NEW k \in U, Ram[m.name] < Ram[k.name]
      PROVE  FALSE
  <2>1. \A n \in U : Ram[n.name] \in Nat
      BY PhoneClientAssumption DEF Nodes
  <2>2. Bigger(k) \subseteq B /\ k \in B /\ k \notin Bigger(k)
      BY <1>4, <1>5, <2>1
  <2>3. <<Bigger(k), B>> \in R
      BY <2>2, <1>4 DEF StrictSubsetOrdering
  <2> QED
      BY <1>3, <2>3
<1> QED
  <2>1. \A n \in U : Ram[n.name] \in Nat
      BY PhoneClientAssumption DEF Nodes
  <2> QED
      BY <1>5, <2>1

\* The list that a selection takes is finite if there are finitely many names.
LEMMA CandidatesFinite ==
    ASSUME IsFiniteSet(Names)
    PROVE  IsFiniteSet(Candidates)
<1> DEFINE f == [n \in Listed \ stale |-> [name |-> n, host |-> nodes[n]]]
<1>1. IsFiniteSet(Listed \ stale)
    BY FS_Subset DEF Listed
<1>2. f \in Surjection(Listed \ stale, Candidates)
    BY Fun_IsSurj DEF Candidates
<1> HIDE DEF f
<1> QED
    BY <1>1, <1>2, FS_Surjection

\* A selection that is under way has a next candidate to ping, one with the
\* most memory of those it has left, whatever overlaps with it: the loop of
\* selectBestNode cannot get stuck between two pings.
THEOREM NextAlwaysExists ==
    ASSUME IsFiniteSet(Names)
    PROVE  Spec => [](\A c \in selecting : \E m \in untried[c] : IsNext(c, m))
<1> DEFINE Finite == \A c \in Calls : IsFiniteSet(untried[c])
           HasNext == \A c \in selecting : \E m \in untried[c] : IsNext(c, m)
<1>1. Init => Finite
    BY FS_EmptySet DEF Init
<1>2. TypeOK /\ Finite /\ [Next]_vars => Finite'
  <2> SUFFICES ASSUME TypeOK, Finite, [Next]_vars
               PROVE  Finite'
      OBVIOUS
  <2>1. ASSUME NEW c \in Calls, Select(c)
        PROVE  Finite'
      BY <2>1, CandidatesFinite DEF Select, TypeOK
  <2>2. ASSUME NEW c \in Calls, PingEnds(c)
        PROVE  Finite'
    <3>1. PICK m \in untried[c] : PingAnswered(c, m) \/ PingFails(c, m)
        BY <2>2 DEF PingEnds
    <3>2. \/ untried' = untried
          \/ untried' = [untried EXCEPT ![c] = {}]
          \/ untried' = [untried EXCEPT ![c] = untried[c] \ {m}]
        BY <3>1 DEF PingAnswered, PingFails, Done
    <3>3. IsFiniteSet({}) /\ IsFiniteSet(untried[c] \ {m})
        BY FS_EmptySet, FS_RemoveElement
    <3>4. untried \in [Calls -> SUBSET Nodes]
        BY DEF TypeOK
    <3> QED
        BY <3>2, <3>3, <3>4
  <2>3. CASE (\E s \in Screens : Open(s)) \/ Send
      BY <2>3, <2>1 DEF Open, Send, Calls
  <2>4. CASE UNCHANGED untried
      BY <2>4
  <2> QED
      BY <2>2, <2>3, <2>4
         DEF Next, Network, FoundAddress, FoundName, LookupEnds, Lost, GrowsStale,
             Prune, PickNode, OpenPicker, PickDevice, ClosePicker, ReplyEnds,
             pickerVars, discoveryVars, clientVars, vars
<1>3. TypeOK /\ SelectionAlive /\ Finite => HasNext
  <2> SUFFICES ASSUME TypeOK, SelectionAlive, Finite, NEW c \in selecting
               PROVE  \E m \in untried[c] : IsNext(c, m)
      OBVIOUS
  <2>1. untried[c] \in SUBSET Nodes /\ IsFiniteSet(untried[c]) /\ untried[c] # {}
      BY DEF TypeOK, SelectionAlive
  <2>2. PICK m \in untried[c] : \A k \in untried[c] : Ram[k.name] <= Ram[m.name]
      BY <2>1, MostMemory
  <2> QED
      BY <2>2 DEF IsNext
<1> QED
    BY <1>1, <1>2, <1>3, TypeCorrect, SelectionsStayAlive, PTL DEF Spec

\* The client's invariant, for any nodes, screens and overlaps.
THEOREM ClientInvariant == Spec => []ClientInv
BY TypeCorrect, SourceIsOne, SelectionsStayAlive, PTL DEF ClientInv

-----------------------------------------------------------------------------
(* Liveness.  What is ENABLED is beyond the provers: GuardsEnable, that    *)
(* the fair actions can be taken when their guards hold, is a hypothesis.  *)
(* Each theorem is one step of a descent: what is left to ping, or to look *)
(* up, shrinks.                                                            *)

\* While the message waits for its selection, only a ping's end changes what it
\* has left to try.
LEMMA ChoosingSteps ==
    ASSUME TypeOK, [Next]_vars, chat = "choosing"
    PROVE  \/ UNCHANGED <<chat, untried[Chat]>>
           \/ PingEnds(Chat)
<1> USE PhoneClientAssumption DEF TypeOK, Calls
<1>1. ASSUME NEW c \in Screens, Done(c)
      PROVE  UNCHANGED <<chat, untried[Chat]>>
    BY <1>1 DEF Done, Resume
<1>2. ASSUME NEW c \in Screens, PingEnds(c)
      PROVE  UNCHANGED <<chat, untried[Chat]>>
  <2>1. PICK m \in untried[c] : PingAnswered(c, m) \/ PingFails(c, m)
      BY <1>2 DEF PingEnds
  <2> QED
      BY <1>1, <2>1 DEF PingAnswered, PingFails
<1>3. ASSUME NEW c \in Screens, Open(c)
      PROVE  UNCHANGED <<chat, untried[Chat]>>
    BY <1>3 DEF Open, Select, Resume
<1>4. ~Send /\ ~ReplyEnds
    BY DEF Send, ReplyEnds
<1> QED
    BY <1>2, <1>3, <1>4
       DEF Next, Network, FoundAddress, FoundName, LookupEnds, Lost, GrowsStale,
           Prune, PickNode, OpenPicker, PickDevice, ClosePicker,
             pickerVars, discoveryVars, clientVars, vars

\* A message that waits for its selection, with the candidates U untried, comes
\* to be answered from somewhere or has fewer left: ChatAnswers but for the
\* induction on U (selectBestNode's loop).
THEOREM ChatAdvances ==
    ASSUME IsFiniteSet(Names), NEW U \in SUBSET Nodes
    PROVE  FairSpec /\ []GuardsEnable =>
              (chat = "choosing" /\ untried[Chat] = U ~>
                  \/ chat \in {"cluster", "device"}
                  \/ chat = "choosing" /\ untried[Chat] \subseteq U /\ untried[Chat] # U)
<1> DEFINE Waits == chat = "choosing" /\ untried[Chat] = U
           Served == chat \in {"cluster", "device"}
           Fewer == chat = "choosing" /\ untried[Chat] \subseteq U /\ untried[Chat] # U
           HasNext == \A c \in selecting : \E m \in untried[c] : IsNext(c, m)
           CanPing == PingCan(Chat)
<1>1. ASSUME TypeOK, Waits, PingEnds(Chat)
      PROVE  (Served \/ Fewer)'
  <2>1. PICK m \in untried[Chat] : PingAnswered(Chat, m) \/ PingFails(Chat, m)
      BY <1>1 DEF PingEnds
  <2>2. CASE Done(Chat)
      BY <2>2 DEF Done, Resume
  <2>3. CASE ~Done(Chat)
      BY <1>1, <2>1, <2>3 DEF PingAnswered, PingFails, TypeOK, Calls
  <2> QED
      BY <2>2, <2>3
<1>2. TypeOK /\ [Next]_vars => (Waits => (Waits \/ Served \/ Fewer)')
    BY <1>1, ChoosingSteps
<1>3. TypeOK /\ Waits /\ <<PingEnds(Chat)>>_vars => (Served \/ Fewer)'
    BY <1>1
<1>4. /\ (chat = "choosing" /\ untried[Chat] = U) <=> Waits
      /\ CanPing <=> PingCan(Chat)
      /\ Served <=> chat \in {"cluster", "device"}
      /\ Fewer <=> (chat = "choosing" /\ untried[Chat] \subseteq U /\ untried[Chat] # U)
    OBVIOUS
<1>5. SelectionAlive /\ HasNext /\ Waits => CanPing
    BY DEF SelectionAlive, PingCan
<1>6. Spec => []HasNext
    BY NextAlwaysExists
<1> HIDE DEF Waits, Served, Fewer, HasNext, CanPing
<1> QED
    BY <1>2, <1>3, <1>4, <1>5, <1>6, TypeCorrect, SelectionsStayAlive, PTL
       DEF FairSpec, Spec, GuardsEnable

\* A reply that has begun ends, or its error is shown (chat_screen.dart, _send).
THEOREM RepliesEnd ==
    FairSpec /\ []GuardsEnable => (chat \in {"cluster", "device"} ~> chat = "idle")
<1> DEFINE Replying == chat \in {"cluster", "device"}
           Idle == chat = "idle"
<1>1. TypeOK /\ SelectionAlive /\ [Next]_vars => (Replying => (Replying \/ Idle)')
  <2> SUFFICES ASSUME TypeOK, SelectionAlive, [Next]_vars, Replying
               PROVE  (Replying \/ Idle)'
      OBVIOUS
  <2> USE PhoneClientAssumption DEF Calls
  <2>1. ASSUME NEW c \in Calls, PingEnds(c)
        PROVE  Replying'
    <3>1. PICK m \in untried[c] : PingAnswered(c, m) \/ PingFails(c, m)
        BY <2>1 DEF PingEnds
    <3>2. c \in Screens
        BY <3>1 DEF PingAnswered, PingFails, IsNext, SelectionAlive
    <3> QED
        BY <3>1, <3>2 DEF PingAnswered, PingFails, Done, Resume
  <2>2. CASE \E s \in Screens : Open(s)
      BY <2>2 DEF Open, Select, Resume
  <2>3. CASE ReplyEnds
      BY <2>3 DEF ReplyEnds
  <2>4. ~Send
      BY DEF Send
  <2>5. CASE UNCHANGED chat
      BY <2>5
  <2> QED
      BY <2>1, <2>2, <2>3, <2>4, <2>5
         DEF Next, Network, FoundAddress, FoundName, LookupEnds, Lost, GrowsStale,
             Prune, PickNode, OpenPicker, PickDevice, ClosePicker,
             pickerVars, discoveryVars, clientVars, vars
<1>2. Replying /\ <<ReplyEnds>>_vars => Idle'
    BY DEF ReplyEnds
<1>3. (Replying <=> chat \in {"cluster", "device"}) /\ (Idle <=> chat = "idle")
    OBVIOUS
<1> HIDE DEF Replying, Idle
<1> QED
    BY <1>1, <1>2, <1>3, TypeCorrect, SelectionsStayAlive, PTL
       DEF FairSpec, Spec, GuardsEnable

\* The entry of n is not where n is.
Ghost(n) == nodes[n] # None /\ nodes[n] # air[n]

LookupsOf(n) == {l \in lookups : l.name = n}

\* What a step may do to such an entry: it goes, it is put right, one of the
\* lookups that could bring it back ends, or the service is found again.
LEMMA GhostSteps ==
    ASSUME TypeOK, [Next]_vars, NEW n \in Names, Ghost(n)
    PROVE  \/ ~Ghost(n)'
           \/ LookupsOf(n)' \subseteq LookupsOf(n) /\ LookupsOf(n)' # LookupsOf(n)
           \/ air[n] = None /\ air'[n] # None
           \/ /\ UNCHANGED <<nodes[n], air[n], LookupsOf(n)>>
              /\ n \in stale => n \in stale'
<1> USE PhoneClientAssumption DEF TypeOK, Ghost
<1>1. ASSUME NEW k \in Names, FoundAddress(k) \/ FoundName(k), k # n
      PROVE  UNCHANGED <<nodes[n], air[n], LookupsOf(n)>> /\ (n \in stale => n \in stale')
    BY <1>1 DEF FoundAddress, FoundName, Add, LookupsOf
<1>2. CASE FoundAddress(n) \/ FoundName(n)
    BY <1>2 DEF FoundAddress, FoundName
<1>3. ASSUME NEW k \in Names, Lost(k)
      PROVE  \/ ~Ghost(n)'
             \/ UNCHANGED <<nodes[n], air[n], LookupsOf(n)>> /\ (n \in stale => n \in stale')
    BY <1>3 DEF Lost, LookupsOf
<1>4. ASSUME NEW l \in lookups, LookupEnds(l), l.name # n
      PROVE  UNCHANGED <<nodes[n], air[n], LookupsOf(n)>> /\ (n \in stale => n \in stale')
    BY <1>4 DEF LookupEnds, Add, LookupsOf, Nodes
<1>5. ASSUME NEW l \in lookups, LookupEnds(l), l.name = n
      PROVE  LookupsOf(n)' \subseteq LookupsOf(n) /\ LookupsOf(n)' # LookupsOf(n)
    BY <1>5 DEF LookupEnds, LookupsOf
<1>6. ASSUME NEW k \in Names, GrowsStale(k)
      PROVE  UNCHANGED <<nodes[n], air[n], LookupsOf(n)>> /\ (n \in stale => n \in stale')
    BY <1>6 DEF GrowsStale, LookupsOf
<1>7. CASE Prune
    BY <1>7 DEF Prune, LookupsOf
<1>8. CASE UNCHANGED discoveryVars
    BY <1>8 DEF discoveryVars, LookupsOf
<1> QED
    BY <1>1, <1>2, <1>3, <1>4, <1>5, <1>6, <1>7, <1>8
       DEF Next, Network, PingEnds, PingAnswered, PingFails, PickNode, OpenPicker,
           PickDevice, ClosePicker, Open, Send, ReplyEnds, pickerVars, discoveryVars, vars

\* A ghost expires, or is put right, unless one of the lookups that were under
\* way ends in the meantime, or the service is found again: GhostsExpire but
\* for the induction on the lookups (discovery_service.dart, _prune).  The
\* hypothesis is FairSpec's, and GuardsEnable's, for the one name.
THEOREM GhostsAdvance ==
    ASSUME NEW n \in Names, NEW L \in SUBSET Nodes, NEW a \in Hosts \cup {None}
    PROVE  /\ Spec
           /\ WF_vars(GrowsStale(n)) /\ WF_vars(Prune)
           /\ [](n \in Listed \ stale => ENABLED <<GrowsStale(n)>>_vars)
           /\ [](stale # {} => ENABLED <<Prune>>_vars)
           => (Ghost(n) /\ LookupsOf(n) = L /\ air[n] = a ~>
                  \/ ~Ghost(n)
                  \/ LookupsOf(n) \subseteq L /\ LookupsOf(n) # L
                  \/ a = None /\ air[n] # None)
<1> DEFINE Haunts == Ghost(n) /\ LookupsOf(n) = L /\ air[n] = a
           Moved == \/ ~Ghost(n)
                    \/ LookupsOf(n) \subseteq L /\ LookupsOf(n) # L
                    \/ a = None /\ air[n] # None
           Old == n \in stale
           Ages == n \in Listed \ stale
           Waiting == stale # {}
<1>1. TypeOK /\ [Next]_vars => (Haunts /\ ~Old => (Haunts \/ Moved)')
    BY GhostSteps
<1>2. TypeOK /\ [Next]_vars => (Haunts /\ Old => ((Haunts /\ Old) \/ Moved)')
    BY GhostSteps
<1>3. TypeOK /\ Haunts /\ <<GrowsStale(n)>>_vars => Old'
    BY DEF GrowsStale
<1>4. TypeOK /\ Haunts /\ Old /\ <<Prune>>_vars => Moved'
    BY DEF Prune, Ghost, TypeOK
<1>5. /\ Haunts /\ ~Old => Ages
      /\ Old => Waiting
    BY DEF Ghost, Listed
<1>6. /\ (Ghost(n) /\ LookupsOf(n) = L /\ air[n] = a) <=> Haunts
      /\ Moved <=> (\/ ~Ghost(n)
                    \/ LookupsOf(n) \subseteq L /\ LookupsOf(n) # L
                    \/ a = None /\ air[n] # None)
      /\ Ages <=> n \in Listed \ stale
      /\ Waiting <=> stale # {}
    OBVIOUS
<1> HIDE DEF Haunts, Moved, Old, Ages, Waiting
<1> QED
    BY <1>1, <1>2, <1>3, <1>4, <1>5, <1>6, TypeCorrect, PTL DEF Spec
=============================================================================
