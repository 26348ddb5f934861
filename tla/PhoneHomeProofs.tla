---------------------------- MODULE PhoneHomeProofs ----------------------------
(***************************************************************************)
(* Proofs about PhoneHome: its inductive invariant, and that the wait of   *)
(* create implements Rendezvous, for any number of creates, ports and      *)
(* attempts.                                                               *)
(***************************************************************************)
EXTENDS PhoneHome, TLAPS

\* Advance keeps every other connection, and of c all but its state.
LEMMA AdvanceEffect ==
    ASSUME NEW c \in conns, NEW st, Advance(c, st), conns \subseteq Connections
    PROVE  \A d \in conns' :
              \/ d \in conns
              \/ /\ d.st = st
                 /\ d.from = c.from /\ d.n = c.n /\ d.to = c.to
BY DEF Advance, Connections

\* The initial states satisfy the invariant.
LEMMA PhoneInit == Init => PhoneIInv
<1> SUFFICES ASSUME Init PROVE PhoneIInv
  OBVIOUS
<1>1. TypeOK
  BY SomeAttempts DEF Init, TypeOK, HostStates, GuestStates
<1>2. SentFirst /\ StoredFirst /\ Connected /\ ReadyWasSent /\ AckedIsStored
  BY DEF Init, SentFirst, StoredFirst, Connected, ReadyWasSent, AckedIsStored
<1>3. PortsHeld
  BY DEF Init, PortsHeld, Alive, Waiting
<1> QED
  BY <1>1, <1>2, <1>3 DEF PhoneIInv

\* The process of a create: taking a port, starting the machine.
LEMMA ServerKeeps ==
    ASSUME PhoneIInv, NEW p \in Runners, startPhoneHomeServer(p)
    PROVE  PhoneIInv'
<1> USE DEF PhoneIInv, startPhoneHomeServer, hostVars, guestVars, payloads
<1>1. TypeOK'
  BY DEF TypeOK, HostStates
<1>2. (SentFirst /\ StoredFirst /\ ReadyWasSent)'
  BY DEF SentFirst, StoredFirst, ReadyWasSent, SentNames, Named, TypeOK
<1>3. Connected'
  <2> SUFFICES ASSUME NEW c \in conns
               PROVE  /\ port'[c.to] = told[c.from].port /\ host'[c.to] # "idle"
                      /\ guest[c.from] # "off"
                      /\ c.st # "replied" => Alive(c.to)'
                      /\ OwnPort(c.from)' => c.to = c.from \/ host'[c.from] \in Ended
    BY DEF Connected
  <2>1. c.from \in Runners /\ c.to \in Runners
    BY DEF TypeOK, Connections
  <2>2. c.to # p /\ c.from # p
    BY <2>1 DEF Connected, PortsHeld
  <2> QED
    BY <2>1, <2>2 DEF Connected, TypeOK, Alive, Waiting, OwnPort
<1>4. PortsHeld'
  BY NoPortIsNone DEF PortsHeld, TypeOK, Alive, Waiting
<1>5. AckedIsStored'
  BY DEF AckedIsStored, OwnPort, PortsHeld, TypeOK, Ended
<1> QED
  BY <1>1, <1>2, <1>3, <1>4, <1>5

\* A step that only moves an alive create on to another alive state.
LEMMA MovesKeep ==
    ASSUME PhoneIInv, NEW p \in Runners, Alive(p),
           NEW to \in {"check", "read"},
           host' = [host EXCEPT ![p] = to],
           UNCHANGED <<port, expired, events, guestVars, conns, payloads>>
    PROVE  PhoneIInv'
<1> USE DEF PhoneIInv, guestVars, payloads
<1>1. TypeOK'
  BY DEF TypeOK, HostStates, Waiting
<1>2. (SentFirst /\ StoredFirst)' /\ ReadyWasSent'
  BY DEF SentFirst, StoredFirst, ReadyWasSent, SentNames, Named, TypeOK
<1>3. \A r \in Runners :
         /\ Alive(r)' <=> Alive(r)
         /\ (host[r] \in Ended)' <=> host[r] \in Ended
         /\ (host[r] = "idle")' <=> host[r] = "idle"
  BY DEF Alive, Waiting, Ended, TypeOK
<1>4. Connected'
  BY <1>3 DEF Connected, OwnPort, TypeOK, Connections, Ended
<1>5. PortsHeld'
  BY <1>3 DEF PortsHeld, Alive
<1>6. AckedIsStored'
  BY <1>3 DEF AckedIsStored, OwnPort, Ended
<1> QED
  BY <1>1, <1>2, <1>4, <1>5, <1>6

\* The end of a create, if a result "ready" has a report in that name.
LEMMA ExitKeeps ==
    ASSUME PhoneIInv, NEW p \in Runners, Alive(p), NEW result \in Ended,
           result = "ready" => p \in SentNames, Exit(p, result)
    PROVE  PhoneIInv'
<1> USE DEF PhoneIInv, Exit, guestVars, payloads
<1>1. TypeOK'
  BY DEF TypeOK, HostStates, Ended
<1>2. (SentFirst /\ StoredFirst)' /\ ReadyWasSent'
  BY DEF SentFirst, StoredFirst, ReadyWasSent, SentNames, Named, TypeOK
<1>3. \A r \in Runners :
         /\ Alive(r)' <=> Alive(r) /\ r # p
         /\ host[r] \in Ended => (host[r] \in Ended)'
         /\ (host[r] = "idle")' <=> host[r] = "idle"
  BY DEF Alive, Waiting, Ended, TypeOK
<1>4. Connected'
  BY <1>3 DEF Connected, OwnPort, TypeOK, Connections, Ended
<1>5. PortsHeld'
  BY <1>3 DEF PortsHeld
<1>6. AckedIsStored'
  BY <1>3 DEF AckedIsStored, OwnPort
<1> QED
  BY <1>1, <1>2, <1>4, <1>5, <1>6

\* Every step of the process of a create.
LEMMA HostKeeps ==
    ASSUME PhoneIInv, NEW p \in Runners,
           \/ startPhoneHomeServer(p) \/ StartMachine(p) \/ CreateFails(p)
           \/ Expire(p) \/ WaitForPhoneHome(p)
    PROVE  PhoneIInv'
<1>1. CASE startPhoneHomeServer(p)
  BY <1>1, ServerKeeps
<1>2. CASE StartMachine(p)
  BY <1>2, MovesKeep DEF StartMachine, Alive, Waiting
<1>3. CASE CreateFails(p)
  BY <1>3, ExitKeeps DEF CreateFails, Alive, Waiting, Ended
<1>4. CASE Expire(p)
  BY <1>4 DEF Expire, guestVars, payloads, PhoneIInv, TypeOK, SentFirst,
     StoredFirst, Connected, PortsHeld, ReadyWasSent, AckedIsStored, Alive,
     SentNames, Named, OwnPort
<1>5. CASE CheckDeadline(p)
  <2>1. Alive(p)
    BY <1>5 DEF CheckDeadline, Alive, Waiting
  <2> QED
    BY <1>5, <2>1, MovesKeep, ExitKeeps DEF CheckDeadline, Ended
<1>6. CASE ReadEvent(p)
  <2>1. Alive(p)
    BY <1>6 DEF ReadEvent, Alive, Waiting
  <2>2. p \in events[p] => p \in SentNames
    BY DEF PhoneIInv, SentFirst
  <2> QED
    BY <1>6, <2>1, <2>2, MovesKeep, ExitKeeps DEF ReadEvent, Ended
<1> QED
  BY <1>1, <1>2, <1>3, <1>4, <1>5, <1>6 DEF WaitForPhoneHome

\* The handlers of accepted connections.
LEMMA HandlerKeeps ==
    ASSUME PhoneIInv, acceptPhoneHome
    PROVE  PhoneIInv'
<1> USE DEF PhoneIInv
<1> PICK c \in conns : StoreEvent(c) \/ Acknowledge(c)
  BY DEF acceptPhoneHome
<1>c. c \in Connections /\ c.from \in Runners /\ c.to \in Runners
  BY DEF TypeOK, Connections
<1>1. CASE StoreEvent(c)
  <2> USE <1>1, <1>c DEF StoreEvent, hostVars, guestVars, payloads
  <2>1. \A d \in conns' : \/ d \in conns
                          \/ /\ d.st = "stored" /\ c.st = "sent"
                             /\ d.from = c.from /\ d.n = c.n /\ d.to = c.to
    BY AdvanceEffect DEF TypeOK
  <2>2. TypeOK'
    <3>1. Named(c) \in Runners
      BY DEF Named, TypeOK
    <3> QED
      BY <3>1 DEF TypeOK, Advance, Connections
  <2>3. SentFirst'
    <3>1. Named(c) \in SentNames
      BY DEF SentFirst
    <3> QED
      BY <2>1, <3>1 DEF SentFirst, SentNames, Named, TypeOK
  <2>4. StoredFirst'
    BY <2>1 DEF StoredFirst, Named, TypeOK, Connections
  <2>5. Connected'
    BY <2>1 DEF Connected, OwnPort, Alive
  <2>6. PortsHeld'
    BY DEF PortsHeld, Alive, Connected, TypeOK
  <2>7. ReadyWasSent'
    BY DEF ReadyWasSent, SentNames
  <2>8. AckedIsStored'
    BY DEF AckedIsStored, OwnPort, TypeOK
  <2> QED
    BY <2>2, <2>3, <2>4, <2>5, <2>6, <2>7, <2>8
<1>2. CASE Acknowledge(c)
  <2> USE <1>2, <1>c DEF Acknowledge, hostVars, guestVars, payloads
  <2>1. \A d \in conns' : \/ d \in conns
                          \/ /\ d.st = "replied" /\ c.st = "stored"
                             /\ d.from = c.from /\ d.n = c.n /\ d.to = c.to
    BY AdvanceEffect DEF TypeOK
  <2>2. TypeOK'
    BY DEF TypeOK, Advance, Connections
  <2>3. (SentFirst /\ StoredFirst)'
    BY <2>1 DEF SentFirst, StoredFirst, SentNames, Named
  <2>4. Connected'
    BY <2>1 DEF Connected, OwnPort, Alive
  <2>5. (PortsHeld /\ ReadyWasSent /\ AckedIsStored)'
    BY DEF PortsHeld, Alive, ReadyWasSent, AckedIsStored, SentNames, OwnPort
  <2> QED
    BY <2>2, <2>3, <2>4, <2>5
<1> QED
  BY <1>1, <1>2

\* A step of a guest that takes connections away at most and does not end
\* with success.
LEMMA GuestMovesKeep ==
    ASSUME PhoneIInv, NEW g \in Runners, host[g] # "idle",
           NEW to \in GuestStates, to # "ok",
           guest' = [guest EXCEPT ![g] = to], conns' \subseteq conns,
           to # "off", attempt' \in [Runners -> 0 .. MaxAttempts],
           UNCHANGED <<hostVars, events, told, payloads>>
    PROVE  PhoneIInv'
<1> USE DEF PhoneIInv, hostVars, payloads
<1>1. TypeOK'
  BY DEF TypeOK
<1>2. (SentFirst /\ StoredFirst /\ ReadyWasSent)'
  BY DEF SentFirst, StoredFirst, ReadyWasSent, SentNames, Named
<1>3. Connected'
  BY DEF Connected, OwnPort, Alive, TypeOK
<1>4. PortsHeld'
  BY DEF PortsHeld, Alive, TypeOK
<1>5. AckedIsStored'
  BY DEF AckedIsStored, OwnPort, TypeOK
<1> QED
  BY <1>1, <1>2, <1>3, <1>4, <1>5

\* The start of distaff, with any arguments: no connection is from before it.
LEMMA StartsKeep ==
    ASSUME PhoneIInv, NEW g \in Runners,
           NEW arguments \in [name: Runners, port: Ports \cup {NoPort}],
           Starts(g, arguments)
    PROVE  PhoneIInv'
<1> USE DEF PhoneIInv, Starts, hostVars, payloads
<1>1. host[g] # "idle"
  BY DEF PortsHeld
<1>2. \A c \in conns : c.from # g
  BY DEF Connected
<1>3. TypeOK'
  BY DEF TypeOK, GuestStates
<1>4. \A c \in conns : c.from \in Runners /\ told'[c.from] = told[c.from]
  BY <1>2 DEF TypeOK, Connections
<1>5. (SentFirst /\ StoredFirst /\ ReadyWasSent)'
  BY <1>4 DEF SentFirst, StoredFirst, ReadyWasSent, SentNames, Named
<1>6. Connected'
  BY <1>2, <1>4 DEF Connected, OwnPort, Alive, TypeOK
<1>7. PortsHeld'
  BY <1>1 DEF PortsHeld, Alive, TypeOK
<1>8. AckedIsStored'
  BY DEF AckedIsStored, OwnPort, TypeOK
<1> QED
  BY <1>3, <1>5, <1>6, <1>7, <1>8

\* A guest that runs knows a port.
LEMMA GuestHasPort ==
    ASSUME PhoneIInv, NEW g \in Runners, guest[g] # "off"
    PROVE  host[g] # "idle"
BY DEF PhoneIInv, PortsHeld

LEMMA DialKeeps ==
    ASSUME PhoneIInv, NEW g \in Runners, Dial(g)
    PROVE  PhoneIInv'
<1> USE DEF PhoneIInv
<1>1. host[g] # "idle" /\ guest[g] = "check"
  BY GuestHasPort DEF Dial
<1>2. attempt' \in [Runners -> 0 .. MaxAttempts] /\ attempt'[g] \in 1 .. MaxAttempts
  BY SomeAttempts DEF Dial, TypeOK
<1>3. CASE UNCHANGED <<guest, conns>>
  <2>1. guest' = [guest EXCEPT ![g] = "check"]
    BY <1>1, <1>3 DEF TypeOK
  <2> QED
    BY <1>1, <1>2, <1>3, <2>1, GuestMovesKeep DEF Dial, GuestStates
<1>4. CASE Connects(g)
  <2> PICK p \in Runners :
        /\ Alive(p) /\ port[p] = told[g].port
        /\ conns' = conns \cup
              {[from |-> g, n |-> attempt'[g], to |-> p, st |-> "open"]}
    BY <1>4 DEF Connects
  <2>1. OwnPort(g) => p = g \/ host[g] \in Ended
    BY <1>1 DEF PortsHeld, OwnPort, TypeOK, HostStates, Alive
  <2>2. host[p] # "idle"
    BY DEF Alive, Waiting
  <2> USE <1>4 DEF Connects, Dial, hostVars, payloads
  <2>3. TypeOK'
    BY <1>2 DEF TypeOK, GuestStates, Connections
  <2>4. (SentFirst /\ StoredFirst /\ ReadyWasSent)'
    BY DEF SentFirst, StoredFirst, ReadyWasSent, SentNames, Named
  <2>5. Connected'
    BY <2>1, <2>2 DEF Connected, OwnPort, Alive, TypeOK
  <2>6. PortsHeld'
    BY <1>1 DEF PortsHeld, Alive, TypeOK
  <2>7. AckedIsStored'
    BY DEF AckedIsStored, OwnPort, TypeOK
  <2> QED
    BY <2>3, <2>4, <2>5, <2>6, <2>7
<1> QED
  BY <1>3, <1>4 DEF Dial

LEMMA AbandonKeeps ==
    ASSUME PhoneIInv, NEW g \in Runners, host[g] # "idle", Abandon(g),
           UNCHANGED <<hostVars, events, payloads>>
    PROVE  PhoneIInv'
<1>1. attempt' \in [Runners -> 0 .. MaxAttempts]
  BY DEF Abandon, GuestGoes, PhoneIInv, TypeOK
<1> QED
  BY <1>1, GuestMovesKeep DEF Abandon, GuestGoes, GuestStates

LEMMA WriteKeeps ==
    ASSUME PhoneIInv, NEW g \in Runners, WritePayload(g)
    PROVE  PhoneIInv'
<1> USE DEF PhoneIInv
<1>1. host[g] # "idle"
  BY GuestHasPort DEF WritePayload
<1>2. CASE Abandon(g) /\ UNCHANGED payloads
  BY <1>1, <1>2, AbandonKeeps DEF WritePayload, hostVars
<1>3. ASSUME NEW c \in Current(g), c.st = "open", Advance(c, "sent"),
             Sends(g),
             GuestGoes(g, "read") \/ GuestGoes(g, "check")
      PROVE  PhoneIInv'
  <2> USE <1>3 DEF WritePayload, GuestGoes, hostVars
  <2>1. c \in conns /\ c.from = g /\ c \in Connections
    BY DEF Current, TypeOK
  <2>2. \A d \in conns' : \/ d \in conns
                          \/ /\ d.st = "sent"
                             /\ d.from = g /\ d.n = c.n /\ d.to = c.to
    BY <2>1, AdvanceEffect DEF TypeOK
  <2>3. TypeOK'
    BY <2>1 DEF Sends, TypeOK, Advance, Connections, GuestStates
  <2>4. (SentFirst /\ StoredFirst /\ ReadyWasSent)'
    <3>1. SentNames' = SentNames \cup {told[g].name}
      BY DEF Sends, SentNames
    <3>2. SentFirst'
      BY <2>2, <3>1 DEF SentFirst, Named
    <3> QED
      BY <2>2, <3>1, <3>2 DEF StoredFirst, ReadyWasSent, Named
  <2>5. Connected'
    <3>1. /\ port[c.to] = told[g].port /\ host[c.to] # "idle"
          /\ OwnPort(g) => c.to = g \/ host[g] \in Ended
      BY <2>1 DEF Connected
    <3>2. Alive(c.to)
      BY <2>1 DEF Connected
    <3>3. guest'[g] # "off" /\ \A h \in Runners \ {g} : guest'[h] = guest[h]
      BY DEF TypeOK
    <3>4. UNCHANGED <<host, port, told>>
      OBVIOUS
    <3>5. \A d \in conns : d.from \in Runners
      BY DEF TypeOK, Connections
    <3>6. Connected
      OBVIOUS
    <3> HIDE <1>3 DEF WritePayload, PhoneIInv
    <3> QED
      BY <2>2, <3>1, <3>2, <3>3, <3>4, <3>5, <3>6
      DEF Connected, OwnPort, Alive
  <2>6. PortsHeld'
    BY <1>1 DEF PortsHeld, Alive, TypeOK
  <2>7. AckedIsStored'
    BY DEF AckedIsStored, OwnPort, TypeOK
  <2> QED
    BY <2>3, <2>4, <2>5, <2>6, <2>7
<1> QED
  BY <1>2, <1>3 DEF WritePayload

LEMMA ReplyKeeps ==
    ASSUME PhoneIInv, NEW g \in Runners, ReadReply(g)
    PROVE  PhoneIInv'
<1> USE DEF PhoneIInv
<1>1. host[g] # "idle"
  BY GuestHasPort DEF ReadReply
<1>2. CASE Abandon(g)
  BY <1>1, <1>2, AbandonKeeps DEF ReadReply, hostVars
<1>3. ASSUME NEW c \in Current(g), c.st = "replied", conns' = conns \ {c},
             GuestGoes(g, "ok")
      PROVE  PhoneIInv'
  <2> USE <1>3 DEF ReadReply, GuestGoes, hostVars, payloads
  <2>1. c \in conns /\ c.from = g /\ c.to \in Runners
    BY DEF Current, TypeOK, Connections
  <2>2. /\ told[g].name \in events[c.to] /\ port[c.to] = told[g].port
        /\ OwnPort(g) => c.to = g \/ host[g] \in Ended
    BY <2>1 DEF StoredFirst, Connected, Named
  <2>3. TypeOK'
    BY DEF TypeOK, GuestStates
  <2>4. (SentFirst /\ StoredFirst /\ Connected /\ ReadyWasSent)'
    BY DEF SentFirst, StoredFirst, Connected, ReadyWasSent, Alive, SentNames,
       Named, OwnPort, TypeOK
  <2>5. PortsHeld'
    BY <1>1 DEF PortsHeld, Alive, TypeOK
  <2>6. AckedIsStored'
    BY <2>1, <2>2 DEF AckedIsStored, OwnPort, TypeOK
  <2> QED
    BY <2>3, <2>4, <2>5, <2>6
<1> QED
  BY <1>2, <1>3 DEF ReadReply

\* Every step of a guest.
LEMMA GuestKeeps ==
    ASSUME PhoneIInv, NEW g \in Runners,
           RunDistaff(g) \/ RunOtherwise(g) \/ send(g)
    PROVE  PhoneIInv'
<1>0. attempt \in [Runners -> 0 .. MaxAttempts]
  BY DEF PhoneIInv, TypeOK
<1>1. CASE RunDistaff(g)
  <2>1. [name |-> g, port |-> port[g]] \in [name: Runners, port: Ports \cup {NoPort}]
    BY DEF PhoneIInv, TypeOK
  <2> QED
    BY <1>1, <2>1, StartsKeep DEF RunDistaff
<1>6. CASE RunOtherwise(g)
  BY <1>6, StartsKeep DEF RunOtherwise
<1>2. CASE GiveUp(g)
  <2>1. host[g] # "idle"
    BY <1>2, GuestHasPort DEF GiveUp
  <2> QED
    BY <1>0, <1>2, <2>1, GuestMovesKeep DEF GiveUp, GuestGoes, GuestStates
<1>3. CASE Dial(g)
  BY <1>3, DialKeeps
<1>4. CASE WritePayload(g)
  BY <1>4, WriteKeeps
<1>5. CASE ReadReply(g)
  BY <1>5, ReplyKeeps
<1> QED
  BY <1>1, <1>2, <1>3, <1>4, <1>5, <1>6 DEF send

\* The invariant holds in every state, whatever the numbers of creates, ports
\* and attempts and whoever runs distaff in whatever guest: what is acknowledged
\* was stored, what is stored was sent, and a connection of a guest that dials
\* the port of its seed leads to the create it belongs to, or that one ended.
THEOREM PhoneInductive == Spec => []PhoneIInv
<1>1. PhoneIInv /\ [Next]_vars => PhoneIInv'
  <2> SUFFICES ASSUME PhoneIInv, [Next]_vars PROVE PhoneIInv'
    OBVIOUS
  <2>1. CASE Next
    BY <2>1, HostKeeps, GuestKeeps, HandlerKeeps DEF Next
  <2>2. CASE UNCHANGED vars
    BY <2>2 DEF vars, PhoneIInv, TypeOK, SentFirst, StoredFirst, Connected,
       PortsHeld, ReadyWasSent, AckedIsStored, Alive, SentNames, Named, OwnPort
  <2> QED
    BY <2>1, <2>2
<1> QED
  BY PhoneInit, <1>1, PTL DEF Spec

\* Every variable of the exchange keeps its shape, for any number of creates,
\* ports and attempts.
THEOREM PhoneTypeOK == Spec => []TypeOK
BY PhoneInductive, PTL DEF PhoneIInv

\* Where distaff succeeded, the name it was given is in the map of the create it
\* dialed, which for the port of the seed is its own unless that had ended
\* (send, acceptPhoneHome).
THEOREM AckMeansStored == Spec => []AckedIsStored
BY PhoneInductive, PTL DEF PhoneIInv

\* The end of a create decides its outcome in Rendezvous.
LEMMA ExitDecides ==
    ASSUME PhoneIInv, NEW p \in Runners, Alive(p), NEW result \in Ended,
           Exit(p, result)
    PROVE  Abstract!Decide(p, IF result = "ready" THEN "ready" ELSE "failed")
<1>1. \A r \in Runners :
         Outcome(r)' = IF r = p THEN IF result = "ready" THEN "ready" ELSE "failed"
                                ELSE Outcome(r)
  BY DEF Exit, Outcome, Ended, PhoneIInv, TypeOK
<1>2. Outcome(p) = "none"
  BY DEF Outcome, Alive, Waiting, Ended
<1> QED
  BY <1>1, <1>2 DEF Abstract!Decide, outcome, Exit, payloads

\* Moving on in the wait decides nothing.
LEMMA MoveDecidesNothing ==
    ASSUME PhoneIInv, NEW p \in Runners, host[p] \notin Ended,
           NEW to, to \notin Ended, host' = [host EXCEPT ![p] = to]
    PROVE  UNCHANGED outcome
<1>1. \A r \in Runners : Outcome(r)' = Outcome(r)
  BY DEF Outcome, Ended, PhoneIInv, TypeOK
<1> QED
  BY <1>1 DEF outcome

\* Every step of PhoneHome is one of Rendezvous, or changes nothing there.
LEMMA StepRefines ==
    ASSUME PhoneIInv, Next
    PROVE  Abstract!Next \/ UNCHANGED <<sent, claimed, outcome>>
<1>1. ASSUME NEW p \in Runners,
             startPhoneHomeServer(p) \/ StartMachine(p) \/ Expire(p)
      PROVE  UNCHANGED <<sent, claimed, outcome>>
  <2>1. CASE startPhoneHomeServer(p)
    BY <2>1, MoveDecidesNothing DEF startPhoneHomeServer, Ended, payloads
  <2>2. CASE StartMachine(p)
    BY <2>2, MoveDecidesNothing DEF StartMachine, Ended, payloads
  <2>3. CASE Expire(p)
    BY <2>3 DEF Expire, outcome, Outcome, payloads
  <2> QED
    BY <1>1, <2>1, <2>2, <2>3
<1>2. ASSUME NEW p \in Runners, CreateFails(p)
      PROVE  Abstract!Next
  BY <1>2, ExitDecides DEF CreateFails, Abstract!Next, Ended
<1>3. ASSUME NEW p \in Runners, WaitForPhoneHome(p)
      PROVE  Abstract!Next \/ UNCHANGED <<sent, claimed, outcome>>
  <2>0. Alive(p) /\ host[p] \notin Ended
    BY <1>3 DEF WaitForPhoneHome, CheckDeadline, ReadEvent, Alive, Waiting, Ended
  <2>1. CASE Exit(p, "timeout")
    BY <2>0, <2>1, ExitDecides DEF Abstract!Next, Ended
  <2>2. CASE p \in events[p] /\ Exit(p, "ready")
    <3>1. p \in sent \cup claimed
      BY <2>2 DEF PhoneIInv, SentFirst, SentNames
    <3>2. Abstract!Decide(p, "ready")
      BY <2>0, <2>2, ExitDecides DEF Ended
    <3> QED
      BY <3>1, <3>2 DEF Abstract!Next
  <2>3. CASE \E to \in {"check", "read"} :
                host' = [host EXCEPT ![p] = to] /\ UNCHANGED payloads
    BY <2>0, <2>3, MoveDecidesNothing DEF Ended, payloads
  <2> QED
    BY <1>3, <2>1, <2>2, <2>3 DEF WaitForPhoneHome, CheckDeadline, ReadEvent
<1>4. ASSUME UNCHANGED host PROVE UNCHANGED outcome
  BY <1>4 DEF outcome, Outcome
<1>5. ASSUME NEW g \in Runners, RunDistaff(g) \/ RunOtherwise(g) \/ send(g)
      PROVE  Abstract!Next \/ UNCHANGED <<sent, claimed, outcome>>
  <2>1. UNCHANGED host
    BY <1>5 DEF RunDistaff, RunOtherwise, Starts, send, Dial, GiveUp,
       WritePayload, ReadReply, hostVars
  <2>2. UNCHANGED payloads \/ Sends(g)
    BY <1>5 DEF RunDistaff, RunOtherwise, Starts, send, Dial, GiveUp,
       WritePayload, ReadReply
  <2>3. told[g].name \in Runners
    BY DEF PhoneIInv, TypeOK
  <2>4. CASE UNCHANGED payloads
    BY <1>4, <2>1, <2>4 DEF payloads
  <2>5. CASE Sends(g)
    BY <1>4, <2>1, <2>3, <2>5
    DEF Sends, Abstract!Next, Abstract!Report, Abstract!Claim
  <2> QED
    BY <2>2, <2>4, <2>5
<1>6. ASSUME acceptPhoneHome PROVE UNCHANGED <<sent, claimed, outcome>>
  BY <1>4, <1>6 DEF acceptPhoneHome, StoreEvent, Acknowledge, hostVars, payloads
<1> QED
  BY <1>1, <1>2, <1>3, <1>5, <1>6 DEF Next

\* The wait of create implements Rendezvous: it reports a runner ready only
\* after a payload with its name was sent, by its guest or by another one, and
\* decides once, although ports are reused, guests of ended creates go on
\* dialing them, and anybody in an open guest reports in any name.
THEOREM WaitKeepsPromise == Spec => KeepsPromise
<1>1. Init => Abstract!Init
  BY DEF Init, Abstract!Init, outcome, Outcome, Ended
<1>2. PhoneIInv /\ [Next]_vars => [Abstract!Next]_<<sent, claimed, outcome>>
  <2> SUFFICES ASSUME PhoneIInv, [Next]_vars
               PROVE  Abstract!Next \/ UNCHANGED <<sent, claimed, outcome>>
    OBVIOUS
  <2>1. CASE UNCHANGED vars
    BY <2>1 DEF vars, outcome, Outcome
  <2> QED
    BY <2>1, StepRefines
<1> QED
  BY PhoneInductive, <1>1, <1>2, PTL DEF Spec, KeepsPromise, Abstract!Spec

\* What distaff was told besides its own name, and a claim, are from an open
\* guest.
OpenOnly ==
    /\ \A g \in Runners \ Open : told[g].name = g
    /\ \A r \in claimed : \E g \in Open : g # r

\* "Ready" means that the runner's own guest has reported where no other guest
\* is open: the trust in the guests of the host that the host does not check
\* (manager.go, acceptPhoneHome).  With another open guest it does not hold.
THEOREM ClosedGuestsReport ==
    Spec => [](\A p \in Runners :
                 Open \subseteq {p} /\ host[p] = "ready" => p \in sent)
<1>1. Init => OpenOnly
  BY DEF Init, OpenOnly
<1>2. TypeOK /\ OpenOnly /\ [Next]_vars => OpenOnly'
  <2> SUFFICES ASSUME TypeOK, OpenOnly, [Next]_vars PROVE OpenOnly'
    OBVIOUS
  <2>1. CASE UNCHANGED <<told, payloads>>
    BY <2>1 DEF OpenOnly, payloads
  <2>2. ASSUME NEW g \in Runners, RunDistaff(g) \/ RunOtherwise(g)
        PROVE  OpenOnly'
    BY <2>2 DEF RunDistaff, RunOtherwise, Starts, OpenOnly, TypeOK, payloads
  <2>3. ASSUME NEW g \in Runners, send(g) PROVE OpenOnly'
    <3>1. UNCHANGED told /\ (UNCHANGED payloads \/ Sends(g))
      BY <2>3 DEF send, Dial, GiveUp, WritePayload, ReadReply, Abandon, GuestGoes
    <3>2. CASE Sends(g) /\ told[g].name # g
      <4>1. g \in Open
        BY <3>2 DEF OpenOnly
      <4> QED
        BY <3>1, <3>2, <4>1 DEF Sends, OpenOnly
    <3>3. CASE UNCHANGED claimed
      BY <3>1, <3>3 DEF OpenOnly
    <3> QED
      BY <3>1, <3>2, <3>3 DEF Sends, payloads
  <2>4. ASSUME NEW p \in Runners,
               startPhoneHomeServer(p) \/ StartMachine(p) \/ CreateFails(p)
                 \/ Expire(p) \/ WaitForPhoneHome(p)
        PROVE  UNCHANGED <<told, payloads>>
    BY <2>4
    DEF startPhoneHomeServer, StartMachine, CreateFails, Expire, WaitForPhoneHome,
        CheckDeadline, ReadEvent, Exit, guestVars
  <2>5. acceptPhoneHome => UNCHANGED <<told, payloads>>
    BY DEF acceptPhoneHome, StoreEvent, Acknowledge, guestVars
  <2>6. UNCHANGED vars => UNCHANGED <<told, payloads>>
    BY DEF vars, payloads
  <2> QED
    BY <2>1, <2>2, <2>3, <2>4, <2>5, <2>6 DEF Next
<1>3. ReadyWasSent /\ OpenOnly =>
        \A p \in Runners : Open \subseteq {p} /\ host[p] = "ready" => p \in sent
  BY DEF ReadyWasSent, SentNames, OpenOnly
<1>4. PhoneIInv => TypeOK /\ ReadyWasSent
  BY DEF PhoneIInv
<1> QED
  BY PhoneInductive, <1>1, <1>2, <1>3, <1>4, PTL DEF Spec

(***************************************************************************)
(* Why what waits comes to an end: what the fairness of the steps of       *)
(* GuestEnds, StoredIsSeen and CreateEnds is applied to.                   *)
(***************************************************************************)
\* An upper bound on the steps distaff still makes: three for an attempt, and
\* one to give up.
StepsLeft(g) ==
    3 * (MaxAttempts - attempt[g]) +
        CASE guest[g] = "write" -> 3
          [] guest[g] = "read"  -> 2
          [] guest[g] = "check" -> 1
          [] OTHER              -> 0

Dialing == {"check", "write", "read"}

LEMMA StepsLeftIsNat ==
    ASSUME TypeOK, NEW g \in Runners
    PROVE  StepsLeft(g) \in Nat
BY SomeAttempts DEF StepsLeft, TypeOK

\* Each step of distaff is one less to go, and nobody else makes it go back.
LEMMA SendCounts ==
    ASSUME TypeOK, NEW g \in Runners, send(g)
    PROVE  /\ guest[g] \in Dialing /\ guest'[g] \in Dialing \cup {"ok", "error"}
           /\ StepsLeft(g)' < StepsLeft(g)
           /\ \A h \in Runners \ {g} : guest'[h] = guest[h] /\ attempt'[h] = attempt[h]
<1> USE SomeAttempts DEF TypeOK
<1>1. CASE Dial(g)
  <2>1. /\ guest[g] = "check" /\ attempt[g] \in Nat /\ attempt[g] < MaxAttempts
        /\ attempt' = [attempt EXCEPT ![g] = @ + 1]
        /\ guest' = guest \/ guest' = [guest EXCEPT ![g] = "write"]
    BY <1>1 DEF Dial, Connects
  <2>2. attempt'[g] = attempt[g] + 1 /\ guest'[g] \in {"check", "write"}
    BY <2>1
  <2> QED
    BY <2>1, <2>2 DEF StepsLeft, Dialing
<1>2. CASE GiveUp(g)
  BY <1>2 DEF GiveUp, GuestGoes, StepsLeft, Dialing
<1>3. CASE WritePayload(g)
  BY <1>3 DEF WritePayload, Abandon, GuestGoes, StepsLeft, Dialing
<1>4. CASE ReadReply(g)
  BY <1>4 DEF ReadReply, Abandon, GuestGoes, StepsLeft, Dialing
<1> QED
  BY <1>1, <1>2, <1>3, <1>4 DEF send

\* A guest stays where it is, or has one step less to go.
CountsDown(g) ==
    \/ guest'[g] = guest[g] /\ attempt'[g] = attempt[g]
    \/ /\ guest[g] \in Dialing
       /\ StepsLeft(g) \in Nat /\ StepsLeft(g)' < StepsLeft(g)

\* Once distaff runs (phonehome.go, send), whatever it does uses up one of its
\* steps, however the host, the other guests and the connections behave: with
\* MaxAttempts attempts it ends after at most 3 * MaxAttempts + 1 of them.
THEOREM AttemptsRunOut ==
    Spec => [][\A g \in Runners : guest[g] # "off" => CountsDown(g)]_vars
<1>1. ASSUME TypeOK, [Next]_vars, NEW g \in Runners, guest[g] # "off"
      PROVE  CountsDown(g)
  <2>1. ASSUME UNCHANGED guestVars PROVE CountsDown(g)
    BY <2>1 DEF guestVars, CountsDown
  <2>2. ASSUME NEW h \in Runners, send(h) PROVE CountsDown(g)
    BY <1>1, <2>2, SendCounts, StepsLeftIsNat DEF CountsDown
  <2>3. ASSUME NEW h \in Runners, RunDistaff(h) \/ RunOtherwise(h)
        PROVE  CountsDown(g)
    BY <1>1, <2>3 DEF RunDistaff, RunOtherwise, Starts, TypeOK, CountsDown
  <2>4. ASSUME NEW p \in Runners,
               startPhoneHomeServer(p) \/ StartMachine(p) \/ CreateFails(p)
                 \/ Expire(p) \/ WaitForPhoneHome(p)
        PROVE  UNCHANGED guestVars
    BY <2>4
    DEF startPhoneHomeServer, StartMachine, CreateFails, Expire, WaitForPhoneHome,
        CheckDeadline, ReadEvent, Exit, guestVars
  <2>5. acceptPhoneHome => UNCHANGED guestVars
    BY DEF acceptPhoneHome, StoreEvent, Acknowledge, guestVars
  <2>6. UNCHANGED vars => UNCHANGED guestVars
    BY DEF vars, guestVars
  <2> QED
    BY <1>1, <2>1, <2>2, <2>3, <2>4, <2>5, <2>6 DEF Next
<1>2. TypeOK /\ [Next]_vars =>
        [\A g \in Runners : guest[g] # "off" => CountsDown(g)]_vars
  BY <1>1
<1> QED
  BY <1>2, PhoneTypeOK, PTL DEF Spec

\* A waiting create keeps its event and remembers its deadline, and does not
\* look at either without effect.
Heeds(p) ==
    /\ host'[p] \in Waiting \cup Ended
    /\ p \in events[p] => p \in events'[p]
    /\ p \in expired /\ host'[p] \in Waiting => p \in expired'
    /\ host[p] = "read" /\ p \in events[p] /\ host'[p] # "read" => host'[p] \in Ended
    /\ host[p] = "check" /\ p \in expired /\ host'[p] # "check" => host'[p] \in Ended

\* A create that has begun to wait, and whose event is in the map or whose
\* deadline is over, never loses that again, and its next look at it ends it
\* (manager.go, WaitForPhoneHome).
THEOREM LookEndsWait ==
    Spec => [][\A p \in Runners : host[p] \in Waiting => Heeds(p)]_vars
<1>1. ASSUME TypeOK, [Next]_vars, NEW p \in Runners, host[p] \in Waiting
      PROVE  Heeds(p)
  <2>1. ASSUME UNCHANGED <<hostVars, events>> PROVE Heeds(p)
    BY <1>1, <2>1 DEF hostVars, Heeds
  <2>2. ASSUME NEW q \in Runners, startPhoneHomeServer(q) \/ StartMachine(q)
        PROVE  Heeds(p)
    BY <1>1, <2>2 DEF startPhoneHomeServer, StartMachine, TypeOK, Waiting, Heeds
  <2>3. ASSUME NEW q \in Runners, NEW result \in Ended, Exit(q, result)
        PROVE  Heeds(p)
    <3>1. host'[p] = IF p = q THEN result ELSE host[p]
      BY <1>1, <2>3 DEF Exit, TypeOK
    <3>2. events' = events /\ expired' = expired \ {q}
      BY <2>3 DEF Exit
    <3> QED
      BY <1>1, <2>3, <3>1, <3>2 DEF Waiting, Ended, Heeds
  <2>4. ASSUME NEW q \in Runners, Expire(q) PROVE Heeds(p)
    BY <1>1, <2>4 DEF Expire, Heeds
  <2>5. ASSUME NEW q \in Runners, CheckDeadline(q) PROVE Heeds(p)
    <3>1. CASE Exit(q, "timeout")
      BY <2>3, <3>1 DEF Ended
    <3>2. CASE q \notin expired /\ host[q] = "check" /\ host' = [host EXCEPT ![q] = "read"]
               /\ UNCHANGED <<expired, events>>
      BY <1>1, <3>2 DEF TypeOK, Waiting, Heeds
    <3> QED
      BY <2>5, <3>1, <3>2 DEF CheckDeadline
  <2>6. ASSUME NEW q \in Runners, ReadEvent(q) PROVE Heeds(p)
    <3>1. CASE Exit(q, "ready")
      BY <2>3, <3>1 DEF Ended
    <3>2. CASE q \notin events[q] /\ host[q] = "read" /\ host' = [host EXCEPT ![q] = "check"]
               /\ UNCHANGED <<expired, events>>
      BY <1>1, <3>2 DEF TypeOK, Waiting, Heeds
    <3> QED
      BY <2>6, <3>1, <3>2 DEF ReadEvent
  <2>7. ASSUME NEW q \in Runners, CreateFails(q) PROVE Heeds(p)
    BY <2>3, <2>7 DEF CreateFails, Ended
  <2>8. ASSUME NEW c \in conns, StoreEvent(c) \/ Acknowledge(c) PROVE Heeds(p)
    <3>1. UNCHANGED hostVars /\ (p \in events[p] => p \in events'[p])
      BY <1>1, <2>8 DEF StoreEvent, Acknowledge, TypeOK
    <3> QED
      BY <1>1, <3>1 DEF hostVars, Heeds
  <2>9. ASSUME NEW g \in Runners, RunDistaff(g) \/ RunOtherwise(g) \/ send(g)
        PROVE  UNCHANGED <<hostVars, events>>
    BY <2>9 DEF RunDistaff, RunOtherwise, Starts, send, Dial, GiveUp,
       WritePayload, ReadReply
  <2>10. UNCHANGED vars => UNCHANGED <<hostVars, events>>
    BY DEF vars, hostVars
  <2> QED
    BY <1>1, <2>1, <2>2, <2>4, <2>5, <2>6, <2>7, <2>8, <2>9, <2>10
    DEF Next, WaitForPhoneHome, acceptPhoneHome
<1>2. TypeOK /\ [Next]_vars => [\A p \in Runners : host[p] \in Waiting => Heeds(p)]_vars
  BY <1>1
<1> QED
  BY <1>2, PhoneTypeOK, PTL DEF Spec
================================================================================
