------------------------------- MODULE PhoneHome -------------------------------
(***************************************************************************)
(* How create learns that its runner is ready.  The process that runs      *)
(* create listens on a vsock port, writes the port into the seed of the    *)
(* machine, and polls a map of events until its runner is in it or the     *)
(* deadline has passed.  In the guest, distaff dials the port, sends its   *)
(* payload and reads an acknowledgement, again and again for a bounded     *)
(* number of attempts.  A port is free for the next create as soon as the  *)
(* process that listened on it has ended, while guests of an earlier one   *)
(* may still be dialing it.  The host takes the name in a payload as it    *)
(* is: whether the guest that sent it is the one of that name is up to the *)
(* guest, where distaff can be run with other arguments than the seed's.   *)
(*                                                                         *)
(* Sources: internal/runner/manager.go (startPhoneHomeServer,              *)
(* acceptPhoneHome, WaitForPhoneHome), internal/phonehome/phonehome.go     *)
(* (send), cmd/distaff/main.go and cmd/tender/main.go.  Time is not        *)
(* measured: a deadline may pass whenever the code looks at it or sleeps.  *)
(***************************************************************************)
EXTENDS Naturals

CONSTANTS
    Runners,        \* a create and the guest it makes share an element
    Ports,          \* vsock ports of the host
    NoPort,         \* port of a create that does not listen yet
    MaxAttempts,    \* attempts of a guest (10 in the code)
    Open            \* guests in which somebody else may run distaff

ASSUME NoPortIsNone == NoPort \notin Ports
ASSUME OpenAreGuests == Open \subseteq Runners
ASSUME SomeAttempts == MaxAttempts \in Nat \ {0}

VARIABLES
    host,       \* what the process of a create does
    port,       \* where it listens, and what its guest was told to dial
    expired,    \* waiting creates whose deadline has passed
    events,     \* runners in the map of each create
    guest,      \* what distaff does in the guest of a runner
    attempt,    \* attempts it has started
    told,       \* the name and the port distaff was started with
    conns,      \* connections the host still handles
    sent,       \* guests that ever sent a whole payload in their own name
    claimed     \* runners another guest sent a payload for (both history)

hostVars  == <<host, port, expired>>
guestVars == <<guest, attempt, told>>
payloads  == <<sent, claimed>>
vars      == <<host, port, expired, events, guest, attempt, told, conns,
               sent, claimed>>

Waiting  == {"check", "read"}
Ended    == {"ready", "timeout", "failed"}
Alive(p) == host[p] \in {"listening"} \cup Waiting

\* The connection of g's current attempt, as long as both ends hold it.
Current(g) == {c \in conns : c.from = g /\ c.n = attempt[g]}

Init ==
    /\ host    = [p \in Runners |-> "idle"]
    /\ port    = [p \in Runners |-> NoPort]
    /\ expired = {}
    /\ events  = [p \in Runners |-> {}]
    /\ guest   = [g \in Runners |-> "off"]
    /\ attempt = [g \in Runners |-> 0]
    /\ told    = [g \in Runners |-> [name |-> g, port |-> NoPort]]
    /\ conns   = {}
    /\ sent    = {}
    /\ claimed = {}

(***************************************************************************)
(* The process of create.                                                  *)
(***************************************************************************)
\* The kernel hands out a port nobody listens on.
startPhoneHomeServer(p) ==
    /\ host[p] = "idle"
    /\ \E q \in Ports :
          /\ \A r \in Runners : Alive(r) => port[r] # q
          /\ port' = [port EXCEPT ![p] = q]
    /\ host' = [host EXCEPT ![p] = "listening"]
    /\ UNCHANGED <<expired, events, guestVars, conns, payloads>>

\* Seed, disk and definition are made and the machine is started.
StartMachine(p) ==
    /\ host[p] = "listening"
    /\ host'  = [host EXCEPT ![p] = "check"]
    /\ UNCHANGED <<port, expired, events, guestVars, conns, payloads>>

\* The end of the process resets its connections; an answer is on its way.
Exit(p, result) ==
    /\ host'    = [host EXCEPT ![p] = result]
    /\ expired' = expired \ {p}
    /\ conns'   = {c \in conns : c.to # p \/ c.st = "replied"}
    /\ UNCHANGED <<port, events, guestVars, payloads>>

\* Some step before the wait fails, or the process is killed at any time.
CreateFails(p) == Alive(p) /\ Exit(p, "failed")

\* Fifteen minutes are over.
Expire(p) ==
    /\ host[p] \in Waiting /\ p \notin expired
    /\ expired' = expired \cup {p}
    /\ UNCHANGED <<host, port, events, guestVars, conns, payloads>>

\* Faulty variant: the deadline is forgotten.
CheckDeadlineNever(p) ==
    /\ host[p] = "check"
    /\ host' = [host EXCEPT ![p] = "read"]
    /\ UNCHANGED <<port, expired, events, guestVars, conns, payloads>>

CheckDeadline(p) ==
    /\ host[p] = "check"
    /\ \/ p \in expired /\ Exit(p, "timeout")
       \/ /\ p \notin expired
          /\ host' = [host EXCEPT ![p] = "read"]
          /\ UNCHANGED <<port, expired, events, guestVars, conns, payloads>>

\* Faulty variants: any event will do; only a lone event is recognized.
ReadAnyEvent(p) ==
    /\ host[p] = "read"
    /\ \/ events[p] # {} /\ Exit(p, "ready")
       \/ /\ events[p] = {}
          /\ host' = [host EXCEPT ![p] = "check"]
          /\ UNCHANGED <<port, expired, events, guestVars, conns, payloads>>
ReadLoneEvent(p) ==
    /\ host[p] = "read"
    /\ \/ events[p] = {p} /\ Exit(p, "ready")
       \/ /\ events[p] # {p}
          /\ host' = [host EXCEPT ![p] = "check"]
          /\ UNCHANGED <<port, expired, events, guestVars, conns, payloads>>

\* Without the event, the code sleeps two seconds before the next check.
ReadEvent(p) ==
    /\ host[p] = "read"
    /\ \/ p \in events[p] /\ Exit(p, "ready")
       \/ /\ p \notin events[p]
          /\ host' = [host EXCEPT ![p] = "check"]
          /\ UNCHANGED <<port, expired, events, guestVars, conns, payloads>>

WaitForPhoneHome(p) == CheckDeadline(p) \/ ReadEvent(p)

(***************************************************************************)
(* The goroutine of one accepted connection c.                             *)
(***************************************************************************)
Advance(c, st) == conns' = (conns \ {c}) \cup {[c EXCEPT !.st = st]}

\* The name in the payload that arrives on c.
Named(c) == told[c.from].name

\* Faulty variant: a runner of another create is acknowledged but not stored.
StoreEventOfOwn(c) ==
    /\ c.st = "sent"
    /\ events' = IF Named(c) = c.to
                 THEN [events EXCEPT ![c.to] = @ \cup {Named(c)}] ELSE events
    /\ Advance(c, "stored")
    /\ UNCHANGED <<hostVars, guestVars, payloads>>

\* The map is keyed by the instance in the payload, whichever guest sent it:
\* the address of the peer is noted and compared with nothing.  A repeated
\* instance replaces the entry by one that is as good.
StoreEvent(c) ==
    /\ c.st = "sent"
    /\ events' = [events EXCEPT ![c.to] = @ \cup {Named(c)}]
    /\ Advance(c, "stored")
    /\ UNCHANGED <<hostVars, guestVars, payloads>>

\* Faulty variant: the answer is written before the event is stored.
AcknowledgeFirst(c) ==
    /\ c.st = "sent"
    /\ IF c \in Current(c.from) /\ guest[c.from] = "read"
       THEN Advance(c, "replied") ELSE conns' = conns \ {c}
    /\ UNCHANGED <<hostVars, events, guestVars, payloads>>

\* The error of writing to a guest that gave up is dropped.
Acknowledge(c) ==
    /\ c.st = "stored"
    /\ IF c \in Current(c.from) /\ guest[c.from] = "read"
       THEN Advance(c, "replied") ELSE conns' = conns \ {c}
    /\ UNCHANGED <<hostVars, events, guestVars, payloads>>

acceptPhoneHome == \E c \in conns : StoreEvent(c) \/ Acknowledge(c)

(***************************************************************************)
(* distaff in the guest.                                                   *)
(***************************************************************************)
GuestGoes(g, to) ==
    /\ guest' = [guest EXCEPT ![g] = to]
    /\ UNCHANGED <<attempt, told>>

Starts(g, arguments) ==
    /\ guest[g] = "off" /\ port[g] # NoPort
    /\ guest' = [guest EXCEPT ![g] = "check"]
    /\ told'  = [told EXCEPT ![g] = arguments]
    /\ UNCHANGED <<hostVars, events, attempt, conns, payloads>>

\* runcmd reaches distaff once, if the steps before it succeed, with the name
\* and the port of its create.  The machine may have been started by another
\* command than this create.
RunDistaff(g) == Starts(g, [name |-> g, port |-> port[g]])

\* Somebody in the guest runs it, or what does the same, for another runner or
\* with another port.
RunOtherwise(g) ==
    /\ g \in Open
    /\ \E r \in Runners, q \in Ports : Starts(g, [name |-> r, port |-> q])

Connects(g) ==
    /\ \E p \in Runners :
          /\ Alive(p) /\ port[p] = told[g].port
          /\ conns' = conns \cup
                {[from |-> g, n |-> attempt'[g], to |-> p, st |-> "open"]}
    /\ guest' = [guest EXCEPT ![g] = "write"]

\* An attempt begins with a dial, which fails when nobody listens, and may
\* fail when somebody does.
Dial(g) ==
    /\ guest[g] = "check" /\ attempt[g] < MaxAttempts
    /\ attempt' = [attempt EXCEPT ![g] = @ + 1]
    /\ Connects(g) \/ UNCHANGED <<guest, conns>>
    /\ UNCHANGED <<hostVars, events, told, payloads>>

\* The attempts are used up, or the two minutes of the context are over.
GiveUp(g) ==
    /\ guest[g] = "check"
    /\ GuestGoes(g, "error")
    /\ UNCHANGED <<hostVars, events, conns, payloads>>

\* A write may also report an error after the last byte that matters was sent.
\* A connection that is closed before the payload is complete is dropped by
\* the decoder; after that the host goes on with it.
Abandon(g) ==
    /\ conns' = conns \ {c \in Current(g) : c.st \in {"open", "replied"}}
    /\ GuestGoes(g, "check")

\* History: in whose name g has sent its payload.
Sends(g) ==
    IF told[g].name = g
    THEN sent' = sent \cup {g} /\ UNCHANGED claimed
    ELSE claimed' = claimed \cup {told[g].name} /\ UNCHANGED sent

WritePayload(g) ==
    /\ guest[g] = "write"
    /\ \/ \E c \in Current(g) :
             /\ c.st = "open" /\ Advance(c, "sent") /\ Sends(g)
             /\ GuestGoes(g, "read") \/ GuestGoes(g, "check")
       \/ Abandon(g) /\ UNCHANGED payloads
    /\ UNCHANGED <<hostVars, events>>

\* Faulty variant: the read has no deadline.
ReadReplyPatiently(g) ==
    /\ guest[g] = "read"
    /\ \/ \E c \in Current(g) :
             c.st = "replied" /\ conns' = conns \ {c} /\ GuestGoes(g, "ok")
       \/ Current(g) = {} /\ Abandon(g)
    /\ UNCHANGED <<hostVars, events, payloads>>

\* The acknowledgement is there, or the read ends after ten seconds or with
\* the connection.
ReadReply(g) ==
    /\ guest[g] = "read"
    /\ \/ \E c \in Current(g) :
             c.st = "replied" /\ conns' = conns \ {c} /\ GuestGoes(g, "ok")
       \/ Abandon(g)
    /\ UNCHANGED <<hostVars, events, payloads>>

send(g) == Dial(g) \/ GiveUp(g) \/ WritePayload(g) \/ ReadReply(g)

Next ==
    \/ \E p \in Runners :
          \/ startPhoneHomeServer(p)
          \/ StartMachine(p)
          \/ CreateFails(p)
          \/ Expire(p)
          \/ WaitForPhoneHome(p)
          \/ RunDistaff(p)
          \/ RunOtherwise(p)
          \/ send(p)
    \/ acceptPhoneHome

\* The Go runtime and the two kernels run what can run.  Nothing is assumed
\* of a clock, nor of the goroutines that serve connections.
Fairness == \A r \in Runners : WF_vars(WaitForPhoneHome(r)) /\ WF_vars(send(r))

Spec == Init /\ [][Next]_vars /\ Fairness
-----------------------------------------------------------------------------
(***************************************************************************)
(* Type invariant.                                                         *)
(***************************************************************************)
HostStates  == {"idle", "listening"} \cup Waiting \cup Ended
GuestStates ==
    {"off", "check", "write", "read", "ok", "error"}
Connections ==
    [from: Runners, n: 1 .. MaxAttempts, to: Runners,
     st: {"open", "sent", "stored", "replied"}]

\* Every variable has its shape; in particular no guest makes more attempts
\* than send allows.
TypeOK ==
    /\ host \in [Runners -> HostStates]
    /\ port \in [Runners -> Ports \cup {NoPort}]
    /\ expired \subseteq Runners
    /\ events \in [Runners -> SUBSET Runners]
    /\ guest \in [Runners -> GuestStates]
    /\ attempt \in [Runners -> 0 .. MaxAttempts]
    /\ told \in [Runners -> [name: Runners, port: Ports \cup {NoPort}]]
    /\ conns \subseteq Connections
    /\ sent \subseteq Runners /\ claimed \subseteq Runners

(***************************************************************************)
(* Safety.                                                                 *)
(***************************************************************************)
\* Where distaff succeeded, the name it was given is in the event map of a
\* create that listened on the port it was given; with the port of its own
\* create this is that create, unless it had ended.
OwnPort(g) == told[g].port = port[g]
AckedIsStored ==
    \A g \in Runners : guest[g] = "ok" =>
        \E p \in Runners :
            /\ told[g].name \in events[p] /\ port[p] = told[g].port
            /\ OwnPort(g) => p = g \/ host[g] \in Ended

\* The wait of create keeps the promise of Rendezvous, although a port may
\* serve several creates and a guest may report several times, in any name.
Outcome(r) ==
    IF host[r] = "ready" THEN "ready"
    ELSE IF host[r] \in Ended THEN "failed" ELSE "none"
outcome == [r \in Runners |-> Outcome(r)]
Abstract == INSTANCE Rendezvous WITH
                reported <- sent, claimed <- claimed, outcome <- outcome
KeepsPromise == Abstract!Spec

(***************************************************************************)
(* Liveness.                                                               *)
(***************************************************************************)
\* distaff ends whatever the host does, even when nothing answers its
\* connection, so the guest's start-up goes on.
GuestEnds == \A g \in Runners : guest[g] = "check" ~> guest[g] \in {"ok", "error"}

\* Once it waits and the event is in the map, create ends, without the help
\* of the clock.
StoredIsSeen ==
    \A p \in Runners :
        host[p] \in Waiting /\ p \in events[p] ~> host[p] \in Ended

\* If the clock goes on, create ends, whether or not its guest ever reports.
CreateEnds ==
    (\A p \in Runners : WF_vars(Expire(p))) =>
        \A p \in Runners : host[p] \in Waiting ~> host[p] \in Ended

(***************************************************************************)
(* What create tells its user and the code does not ensure.                *)
(***************************************************************************)
\* "VM started but never phoned home" is said only of a runner that did not.
TimeoutMeansSilence ==
    \A p \in Runners : host[p] = "timeout" => p \notin events[p]

\* "Ready" is said only of a runner whose own guest has reported.
ReadyHasReported == \A p \in Runners : host[p] = "ready" => p \in sent

(***************************************************************************)
(* The inductive invariant.                                                *)
(***************************************************************************)
\* The names the host holds or stored were sent in a payload.
SentNames == sent \cup claimed
SentFirst ==
    /\ \A c \in conns : c.st # "open" => Named(c) \in SentNames
    /\ \A p \in Runners : events[p] \subseteq SentNames
\* A handler that answers has stored the event.
StoredFirst ==
    \A c \in conns : c.st \in {"stored", "replied"} => Named(c) \in events[c.to]
\* A connection leads to a listener of the port the guest was told, which is
\* its own create as long as that runs and the port is the one of its seed.
Connected ==
    \A c \in conns :
        /\ port[c.to] = told[c.from].port /\ host[c.to] # "idle"
        /\ guest[c.from] # "off"
        /\ c.st # "replied" => Alive(c.to)
        /\ OwnPort(c.from) => c.to = c.from \/ host[c.from] \in Ended
PortsHeld ==
    /\ \A p, q \in Runners : Alive(p) /\ Alive(q) /\ port[p] = port[q] => p = q
    /\ \A p \in Runners : host[p] = "idle" <=> port[p] = NoPort
    /\ \A g \in Runners :
          host[g] = "idle" => guest[g] = "off" /\ events[g] = {}
\* A runner that is ready has reported, or somebody has claimed its name.
ReadyWasSent == \A p \in Runners : host[p] = "ready" => p \in SentNames

PhoneIInv ==
    /\ TypeOK
    /\ SentFirst
    /\ StoredFirst
    /\ Connected
    /\ PortsHeld
    /\ ReadyWasSent
    /\ AckedIsStored
================================================================================
