----------------------------- MODULE HealthChecker -----------------------------
(***************************************************************************)
(* The health checker: a loop that starts a goroutine for every machine of *)
(* a listing, round after round without waiting for the previous one, and  *)
(* a one-shot check that waits for its own goroutines.  They share the map *)
(* of statuses and act on what their listing saw, while the machines go on *)
(* changing.                                                               *)
(*                                                                         *)
(* Sources: internal/health/checker.go, and ListDomains, StartDomain and   *)
(* WaitForDomainIP of internal/libvirt/domain.go.  Goroutines in the same  *)
(* situation are counted.  A listing is one step, time is not measured,    *)
(* and a name is not given to a second machine.                            *)
(***************************************************************************)
EXTENDS Naturals, FiniteSetsExt

CONSTANTS
    Machines,       \* names of the machines of the host
    Runners,        \* those among them that the tool created
    MaxChecks       \* bound on the goroutines of the loop at work at once

ASSUME RunnersAreMachines == Runners \subseteq Machines

VARIABLES
    machine,    \* what each machine does, kept by libvirt
    loop,       \* the goroutine of checkLoop
    quit,       \* whether and how the loop was told to end
    caller,     \* a call of HealthCheck
    listed,     \* the machines that call found
    checks,     \* how many goroutines of each kind are at work
    statuses    \* what the map says of each machine

vars == <<machine, loop, quit, caller, listed, checks, statuses>>

\* What a goroutine of checkDomain does next: restart, look for an address,
\* look again, store a result.
Todo  == {"recover", "address", "poll", "healthy", "unhealthy"}
Kinds == [machine: Machines, by: {"loop", "caller"}, todo: Todo]

\* A machine that is up shows an address, a booting one does not yet.
States  == {"shutoff", "booting", "up", "paused", "absent"}
Present == {m \in Machines : machine[m] # "absent"}

Init ==
    /\ machine  \in [Machines -> States]
    /\ loop     = "select"
    /\ quit     = "no"
    /\ caller   = "idle"
    /\ listed   = {}
    /\ checks   = [k \in Kinds |-> 0]
    /\ statuses = [m \in Machines |-> "none"]

(***************************************************************************)
(* Rounds.                                                                 *)
(***************************************************************************)
\* The branch of checkDomain a listed state leads to.
Branch ==
    [shutoff |-> "recover", booting |-> "address", up |-> "address",
     paused |-> "unhealthy"]

\* One goroutine for every machine of a listing.
Spawn(by, found) ==
    checks' = [k \in Kinds |->
        IF /\ k.by = by /\ k.machine \in found
           /\ k.todo = Branch[machine[k.machine]]
        THEN checks[k] + 1 ELSE checks[k]]

LoopChecks == {k \in Kinds : k.by = "loop"}
InFlight   == MapThenSumSet(LAMBDA k : checks[k], LoopChecks)

Round(found) ==
    /\ loop = "select"
    /\ InFlight + Cardinality(found) <= MaxChecks
    /\ Spawn("loop", found)
    /\ UNCHANGED <<machine, loop, quit, caller, listed, statuses>>

\* Faulty variant: a machine that has a status is not checked again.
checkAllNew == Round({m \in Present : statuses[m] = "none"})

\* The ticker fired.
checkAll == Round(Present)

\* The machines whose state cannot be read are left out of the listing; when
\* the listing fails as a whole nothing is started.
ListingMisses == \E found \in SUBSET Present : found # Present /\ Round(found)

\* Stop closes the channel, or the context is cancelled.
Stop ==
    /\ quit = "no"
    /\ quit' \in {"stopped", "cancelled"}
    /\ UNCHANGED <<machine, loop, caller, listed, checks, statuses>>

\* Faulty variant: break leaves the select, not the loop.
LoopBreaks ==
    /\ loop = "select" /\ quit # "no"
    /\ UNCHANGED vars

LoopEnds ==
    /\ loop = "select" /\ quit # "no"
    /\ loop' = "ended"
    /\ UNCHANGED <<machine, quit, caller, listed, checks, statuses>>

(***************************************************************************)
(* The one-shot check.                                                     *)
(***************************************************************************)
HealthCheck ==
    /\ caller # "wait"
    /\ \/ /\ caller' = "error"
          /\ UNCHANGED <<listed, checks>>
       \/ \E found \in SUBSET Present :
             /\ caller' = "wait"
             /\ listed' = found
             /\ Spawn("caller", found)
    /\ UNCHANGED <<machine, loop, quit, statuses>>

\* Faulty variant: a goroutine that did not begin yet is not counted.
WaitedForBegun ==
    \A k \in Kinds : k.by = "caller" /\ k.todo # "address" => checks[k] = 0

Waited == \A k \in Kinds : k.by = "caller" => checks[k] = 0

HealthCheckReturns ==
    /\ caller = "wait" /\ Waited
    /\ caller' = "done"
    /\ UNCHANGED <<machine, loop, quit, listed, checks, statuses>>

(***************************************************************************)
(* One goroutine of kind k.                                                *)
(***************************************************************************)
At(k, todo) == checks[k] > 0 /\ k.todo = todo

Proceed(k, todo) ==
    /\ checks' = [checks EXCEPT ![k] = @ - 1,
                                ![[k EXCEPT !.todo = todo]] = @ + 1]
    /\ UNCHANGED <<loop, quit, caller, listed, statuses>>

\* libvirt starts a machine that is shut off, and no other.
StartDomain(m) ==
    /\ machine[m] = "shutoff"
    /\ machine' = [machine EXCEPT ![m] = "booting"]

\* The result is the same whether the start succeeds or not.
recoverDomain(k) ==
    /\ At(k, "recover")
    /\ IF machine[k.machine] = "shutoff"
       THEN StartDomain(k.machine) ELSE UNCHANGED machine
    /\ Proceed(k, "unhealthy")

\* The lookup and the first look; a machine that is gone is not waited for.
LookForAddress(k) ==
    /\ At(k, "address")
    /\ CASE machine[k.machine] = "up"     -> Proceed(k, "healthy")
         [] machine[k.machine] = "absent" -> Proceed(k, "unhealthy")
         [] OTHER                         -> Proceed(k, "poll")
    /\ UNCHANGED machine

LookAgain(k) ==
    /\ At(k, "poll") /\ machine[k.machine] = "up"
    /\ Proceed(k, "healthy")
    /\ UNCHANGED machine

\* Faulty variant: the deadline starts anew with every look.
DeadlineRenewed(k) ==
    /\ At(k, "poll") /\ machine[k.machine] = "up"
    /\ Proceed(k, "unhealthy")
    /\ UNCHANGED machine

Deadline(k) ==
    /\ At(k, "poll")
    /\ Proceed(k, "unhealthy")
    /\ UNCHANGED machine

WaitForDomainIP(k) == LookForAddress(k) \/ LookAgain(k) \/ Deadline(k)

\* Faulty variant: the first status stays.
StoreFirstStatus(k) ==
    /\ checks[k] > 0 /\ k.todo \in {"healthy", "unhealthy"}
    /\ statuses' = [statuses EXCEPT ![k.machine] = IF @ = "none" THEN k.todo ELSE @]
    /\ checks'   = [checks EXCEPT ![k] = @ - 1]
    /\ UNCHANGED <<machine, loop, quit, caller, listed>>

\* Whatever the map holds is replaced, and the goroutine ends.
StoreStatus(k) ==
    /\ checks[k] > 0 /\ k.todo \in {"healthy", "unhealthy"}
    /\ statuses' = [statuses EXCEPT ![k.machine] = k.todo]
    /\ checks'   = [checks EXCEPT ![k] = @ - 1]
    /\ UNCHANGED <<machine, loop, quit, caller, listed>>

checkDomain(k) == recoverDomain(k) \/ WaitForDomainIP(k) \/ StoreStatus(k)

\* A call fails where it would have succeeded: the start, the lookup, the
\* first look.  A later look that fails is repeated.
CheckFails(k) ==
    /\ \/ /\ At(k, "recover") /\ machine[k.machine] = "shutoff"
          /\ Proceed(k, "unhealthy")
       \/ /\ At(k, "address") /\ machine[k.machine] # "absent"
          /\ Proceed(k, "unhealthy")
       \/ At(k, "address") /\ machine[k.machine] = "up" /\ Proceed(k, "poll")
    /\ UNCHANGED machine

(***************************************************************************)
(* The machines, under their users, other commands and other tools.        *)
(***************************************************************************)
Change ==
    [shutoff |-> {"booting", "absent"},
     booting |-> {"up", "paused", "shutoff", "absent"},
     up      |-> {"booting", "paused", "shutoff", "absent"},
     paused  |-> {"booting", "up", "shutoff", "absent"},
     absent  |-> {}]

MachineChanges(m) ==
    /\ \E s \in Change[machine[m]] : machine' = [machine EXCEPT ![m] = s]
    /\ UNCHANGED <<loop, quit, caller, listed, checks, statuses>>

CallsFail == ListingMisses \/ \E k \in Kinds : CheckFails(k)

Next ==
    \/ checkAll
    \/ Stop
    \/ LoopEnds
    \/ HealthCheck
    \/ HealthCheckReturns
    \/ \E k \in Kinds : checkDomain(k)
    \/ \E m \in Machines : MachineChanges(m)
    \/ CallsFail

\* The ticker fires, goroutines run, deadlines pass.  A select with several
\* channels ready chooses at random, so it does not miss a closed one forever.
Fairness ==
    /\ WF_vars(checkAll)
    /\ WF_vars(LoopEnds)
    /\ WF_vars(HealthCheckReturns)
    /\ \A k \in Kinds : WF_vars(checkDomain(k))

Spec == Init /\ [][Next]_vars /\ Fairness
-----------------------------------------------------------------------------
(***************************************************************************)
(* Safety.                                                                 *)
(***************************************************************************)
\* Every variable has its shape; no goroutine ends twice.
TypeOK ==
    /\ machine \in [Machines -> States]
    /\ loop \in {"select", "ended"}
    /\ quit \in {"no", "stopped", "cancelled"}
    /\ caller \in {"idle", "wait", "done", "error"}
    /\ listed \subseteq Machines
    /\ checks \in [Kinds -> Nat]
    /\ statuses \in [Machines -> {"none", "healthy", "unhealthy"}]

\* When HealthCheck returns, the map it copies has an entry for every machine
\* it found, whatever the loop does to the map meanwhile.
HealthCheckCovers ==
    caller = "done" => \A m \in listed : statuses[m] # "none"

\* Without a call of HealthCheck none of its goroutines is at work; during
\* it, a machine without a status has one.
CallerChecks ==
    /\ caller # "wait" => Waited
    /\ caller = "wait" => \A m \in listed :
          \/ statuses[m] # "none"
          \/ \E k \in Kinds : k.by = "caller" /\ k.machine = m /\ checks[k] > 0

HealthIInv == TypeOK /\ CallerChecks /\ HealthCheckCovers

(***************************************************************************)
(* Liveness.                                                               *)
(***************************************************************************)
\* After Stop or a cancellation the loop and all it started come to rest.
StoppedGoesQuiet ==
    quit # "no" ~> [](loop = "ended" /\ \A k \in LoopChecks : checks[k] = 0)

\* A call of HealthCheck returns, whether or not machines get an address.
HealthCheckEnds == caller = "wait" ~> caller = "done"

NoMoreErrors == <>[][~CallsFail]_vars

\* While the loop runs and calls do not go on failing, no runner stays off.
Recovered ==
    NoMoreErrors =>
        \A r \in Runners : []<>(machine[r] # "shutoff" \/ loop = "ended")

\* Overlapping checks may overwrite a newer status by an older one, but once
\* a machine stays up its status becomes healthy and stays so.
Converges ==
    NoMoreErrors =>
        \A m \in Machines :
            <>[](machine[m] = "up" /\ loop = "select") => <>[](statuses[m] = "healthy")

(***************************************************************************)
(* What the command is for, and the code does not ensure.                  *)
(***************************************************************************)
\* The checker starts no machine but a runner: the machines that its listing
\* shows are all those of the host (domain.go, ListDomains), and checkDomain
\* asks no more of one than that it is shut off.
Restarts(k)  == k.todo = "recover" /\ checks'[k] < checks[k]
                    /\ machine'[k.machine] # machine[k.machine]
RestartsOnlyRunners == [][\A k \in Kinds : Restarts(k) => k.machine \in Runners]_vars
================================================================================
