-------------------------- MODULE RunnerLifecycle --------------------------
(***************************************************************************)
(* The commands of the tender command line that change virtual machines:   *)
(* create, start, stop, destroy and health.  Every invocation is a process *)
(* of its own with its own libvirt connection, so any number of them run   *)
(* at once and share what libvirt keeps: the domains, and the disk and     *)
(* seed volumes of the "default" storage pool.  Each libvirt call is one   *)
(* atomic step; between two calls every other invocation, the guests and a *)
(* kill signal may act.                                                    *)
(*                                                                         *)
(* Sources: internal/runner/manager.go, internal/libvirt/domain.go,        *)
(* internal/libvirt/storage.go, internal/health/checker.go and             *)
(* cmd/tender/main.go.  libvirt itself is not in the repository: its       *)
(* effect on a domain (PoweredOff, Undefined, Booted) is modelled from how *)
(* the code uses it.                                                       *)
(***************************************************************************)
EXTENDS Naturals, FiniteSets

CONSTANTS
    Invocations,    \* processes, one per run of the command line
    Commands,       \* the subcommands these processes may run
    RunnerNames,    \* names a create may be given or generate
    ForeignNames,   \* domains of the host that the tool did not create
    Host,           \* owner of what existed before the tool ran
    Nobody,         \* no owner: the domain or volume is absent
    Open,           \* machines in which anything may dial any port of the host
    MayFail,        \* TRUE: any libvirt call may return an error
    MayDie          \* TRUE: any invocation may be killed between two calls

ASSUME OwnersDistinct ==
    Host \notin Invocations /\ Nobody \notin Invocations /\ Host # Nobody
ASSUME NamesDistinct == RunnerNames \cap ForeignNames = {}
ASSUME CommandsKnown ==
    Commands \subseteq {"create", "start", "stop", "destroy", "health"}
ASSUME SwitchesBoolean ==
    MayFail \in BOOLEAN /\ MayDie \in BOOLEAN

Names  == RunnerNames \cup ForeignNames
ASSUME OpenAreMachines == Open \subseteq Names

Owners == Invocations \cup {Host}
Kinds  == {"disk", "seed"}      \* <name>.qcow2 and <name>-seed.img

VARIABLES
    domain,     \* the domain of a name: its uuid is the owner that defined it
    volume,     \* per kind and name, the owner that made the volume
    pc,         \* the libvirt call an invocation makes next
    cmd,        \* the subcommand it runs
    name,       \* the runner name it works on
    handle,     \* uuid in the domain handle it holds
    phoned      \* phone-home events a create received for its runner: `from` is
                \* the machine that reported as its seed says, else Nobody

process == <<cmd, name>>
vars    == <<domain, volume, pc, cmd, name, handle, phoned>>

NoDomain == [uuid |-> Nobody, active |-> FALSE, persistent |-> FALSE,
             seed |-> Nobody]
Exists(n)    == domain[n].uuid # Nobody
Terminal     == {"ok", "error", "killed"}
Running(p)   == pc[p] \notin Terminal \cup {"idle"}

(***************************************************************************)
(* libvirt's domain transitions.                                           *)
(***************************************************************************)
\* A domain that loses power forgets a definition that was dropped meanwhile.
PoweredOff(d) ==
    IF d.persistent THEN [d EXCEPT !.active = FALSE, !.seed = Nobody]
                    ELSE NoDomain

\* Undefining a running domain leaves it running, without a definition.
Undefined(d) ==
    IF d.active THEN [d EXCEPT !.persistent = FALSE] ELSE NoDomain

\* Volumes a definition refers to: the host's own machines have no seed.
Attached(d) == IF d.uuid = Host THEN {"disk"} ELSE Kinds

CanBoot(n) == /\ ~domain[n].active
              /\ \A k \in Attached(domain[n]) : volume[k][n] # Nobody

Booted(n) == [domain[n] EXCEPT !.active = TRUE, !.seed = volume["seed"][n]]

\* A handle carries the uuid: it misses a domain that was replaced meanwhile.
Resolves(p) == domain[name[p]].uuid = handle[p]

Init ==
    /\ domain = [n \in Names |->
                    IF n \in ForeignNames
                    THEN [NoDomain EXCEPT !.uuid = Host, !.persistent = TRUE]
                    ELSE NoDomain]
    /\ volume = [k \in Kinds |-> [n \in Names |->
                    IF k = "disk" /\ n \in ForeignNames THEN Host ELSE Nobody]]
    /\ pc     = [p \in Invocations |-> "idle"]
    /\ cmd    = [p \in Invocations |-> "none"]
    /\ name   = [p \in Invocations |-> Nobody]
    /\ handle = [p \in Invocations |-> Nobody]
    /\ phoned = {}

(***************************************************************************)
(* Steps of an invocation.                                                 *)
(***************************************************************************)
\* p makes the call `from` and goes on to `to`.
Step(p, from, to) == pc[p] = from /\ pc' = [pc EXCEPT ![p] = to]

\* Where the code goes when the call p makes next returns an error: most
\* errors end the command, an upload that failed is deleted again, and the
\* errors the code drops lead to the call that follows.
OnFailure(p) ==
    CASE cmd[p] = "health"                   -> "ok"
      [] pc[p] = "seedUpload"                -> "seedDiscard"
      [] pc[p] \in {"diskLookup", "diskReplace"} -> "diskClone"
      [] pc[p] = "diskResize"                -> "diskDiscard"
      [] pc[p] \in {"domLookup", "domDrop"}  -> "domDefine"
      [] pc[p] = "domKill"                   -> "domDrop"
      [] pc[p] = "killDomain"                -> "undefine"
      [] pc[p] = "undefine"                  -> "undefineAgain"
      [] pc[p] = "undefineAgain"             -> "diskFind"
      [] OTHER                               -> "error"

Fails(p) == /\ pc' = [pc EXCEPT ![p] = OnFailure(p)]
            /\ UNCHANGED <<domain, volume, handle>>

\* Faulty variant: the handle found is not the one used later.
LookupForgets(p, from, found, missing) ==
    /\ Step(p, from, IF Exists(name[p]) THEN found ELSE missing)
    /\ UNCHANGED <<domain, volume, handle>>

Lookup(p, from, found, missing) ==
    /\ pc[p] = from
    /\ IF Exists(name[p])
       THEN /\ Step(p, from, found)
            /\ handle' = [handle EXCEPT ![p] = domain[name[p]].uuid]
       ELSE Step(p, from, missing) /\ UNCHANGED handle
    /\ UNCHANGED <<domain, volume>>

SetDomain(p, d) == domain' = [domain EXCEPT ![name[p]] = d]

\* DomainDestroy and the plain DomainUndefine, whose errors the code drops.
\* The plain undefine is refused for a domain that has an NVRAM file.
KillIgnored(p, from, to) ==
    /\ Step(p, from, to)
    /\ IF Resolves(p) /\ domain[name[p]].active
       THEN SetDomain(p, PoweredOff(domain[name[p]]))
       ELSE UNCHANGED domain
    /\ UNCHANGED <<volume, handle>>

DropIgnored(p, from, to) ==
    /\ Step(p, from, to)
    /\ \/ UNCHANGED domain
       \/ /\ Resolves(p) /\ domain[name[p]].persistent
          /\ SetDomain(p, Undefined(domain[name[p]]))
    /\ UNCHANGED <<volume, handle>>

\* A volume handle is a pool and a name: it finds whatever is there now.
FindVolume(p, k, from, found, missing) ==
    /\ Step(p, from, IF volume[k][name[p]] # Nobody THEN found ELSE missing)
    /\ UNCHANGED <<domain, volume, handle>>

MakeVolume(p, k, from, to) ==
    /\ pc[p] = from
    /\ IF volume[k][name[p]] = Nobody
       THEN /\ Step(p, from, to)
            /\ volume' = [volume EXCEPT ![k][name[p]] = p]
            /\ UNCHANGED <<domain, handle>>
       ELSE Fails(p)

RemoveVolume(p, k, from, to) ==
    /\ pc[p] = from
    /\ IF volume[k][name[p]] # Nobody
       THEN /\ Step(p, from, to)
            /\ volume' = [volume EXCEPT ![k][name[p]] = Nobody]
            /\ UNCHANGED <<domain, handle>>
       ELSE Fails(p)

UseVolume(p, k, from, to) ==
    /\ pc[p] = from
    /\ IF volume[k][name[p]] # Nobody
       THEN Step(p, from, to) /\ UNCHANGED <<domain, volume, handle>>
       ELSE Fails(p)

(***************************************************************************)
(* create: seed volume, disk volume, definition, start, wait.              *)
(***************************************************************************)
CreateSeedVolume(p) ==
    \/ FindVolume(p, "seed", "seedLookup", "seedReplace", "seedCreate")
    \/ RemoveVolume(p, "seed", "seedReplace", "seedCreate")
    \/ MakeVolume(p, "seed", "seedCreate", "seedUpload")
    \/ UseVolume(p, "seed", "seedUpload", "diskLookup")
    \/ RemoveVolume(p, "seed", "seedDiscard", "error")

CloneVolume(p) ==
    \/ FindVolume(p, "disk", "diskLookup", "diskReplace", "diskClone")
    \/ RemoveVolume(p, "disk", "diskReplace", "diskClone")
    \/ MakeVolume(p, "disk", "diskClone", "diskResize")
    \/ UseVolume(p, "disk", "diskResize", "diskPath")
    \/ UseVolume(p, "disk", "diskPath", "domLookup")
    \/ RemoveVolume(p, "disk", "diskDiscard", "error")

\* libvirt refuses a second definition of a name.
DefineDomain(p) ==
    /\ pc[p] = "domDefine"
    /\ IF Exists(name[p])
       THEN Fails(p)
       ELSE /\ Step(p, "domDefine", "startLookup")
            /\ SetDomain(p, [NoDomain EXCEPT !.uuid = p, !.persistent = TRUE])
            /\ UNCHANGED <<volume, handle>>

CreateDomain(p) ==
    \/ Lookup(p, "domLookup", "domKill", "domDefine")
    \/ KillIgnored(p, "domKill", "domDrop")
    \/ DropIgnored(p, "domDrop", "domDefine")
    \/ DefineDomain(p)

\* create goes on to wait for its guest, start and health are done.  A health
\* check only logs that a start failed.
BootDomain(p) ==
    /\ pc[p] = "startCreate"
    /\ IF Resolves(p) /\ CanBoot(name[p])
       THEN /\ Step(p, "startCreate",
                    IF cmd[p] = "create" THEN "waiting" ELSE "ok")
            /\ SetDomain(p, Booted(name[p]))
            /\ UNCHANGED <<volume, handle>>
       ELSE Fails(p)

StartDomain(p) ==
    \/ Lookup(p, "startLookup", "startCreate", OnFailure(p))
    \/ BootDomain(p)

\* Faulty variant: any event counts, whichever instance sent it.
WaitForAnyPhoneHome(p) ==
    /\ pc[p] = "waiting"
    /\ \/ phoned # {} /\ Step(p, "waiting", "ok")
       \/ Step(p, "waiting", "error")
    /\ UNCHANGED <<domain, volume, handle>>

\* create ends when its guest reported, or with an error after 15 minutes.
WaitForPhoneHome(p) ==
    /\ pc[p] = "waiting"
    /\ \/ /\ \E e \in phoned : e.to = p
          /\ Step(p, "waiting", "ok")
       \/ Step(p, "waiting", "error")
    /\ UNCHANGED <<domain, volume, handle>>

(***************************************************************************)
(* stop and destroy.                                                       *)
(***************************************************************************)
\* DomainShutdown only asks the guest, which powers off when it likes.
RequestShutdown(p) ==
    /\ pc[p] = "shutdown"
    /\ IF Resolves(p) /\ domain[name[p]].active
       THEN Step(p, "shutdown", "ok") /\ UNCHANGED <<domain, volume, handle>>
       ELSE Fails(p)

StopDomain(p) ==
    \/ Lookup(p, "stopLookup", "shutdown", "error")
    \/ RequestShutdown(p)

\* Faulty variant: a machine that runs is not undefined.
UndefineStopped(p) ==
    /\ pc[p] = "undefine"
    /\ IF Resolves(p) /\ domain[name[p]].persistent /\ ~domain[name[p]].active
       THEN /\ Step(p, "undefine", "diskFind")
            /\ SetDomain(p, Undefined(domain[name[p]]))
            /\ UNCHANGED <<volume, handle>>
       ELSE Step(p, "undefine", "diskFind") /\ UNCHANGED <<domain, volume, handle>>

\* The first undefine also drops the NVRAM file; a second one is tried when
\* it fails, and its outcome is dropped.
UndefineDomain(p) ==
    /\ pc[p] = "undefine"
    /\ IF Resolves(p) /\ domain[name[p]].persistent
       THEN /\ Step(p, "undefine", "diskFind")
            /\ SetDomain(p, Undefined(domain[name[p]]))
            /\ UNCHANGED <<volume, handle>>
       ELSE Fails(p)

\* Faulty variant: the definition is kept.
DestroyDomainKeepsDefinition(p) ==
    \/ Lookup(p, "destroyLookup", "killDomain", "error")
    \/ KillIgnored(p, "killDomain", "diskFind")

DestroyDomain(p) ==
    \/ Lookup(p, "destroyLookup", "killDomain", "error")
    \/ KillIgnored(p, "killDomain", "undefine")
    \/ UndefineDomain(p)
    \/ DropIgnored(p, "undefineAgain", "diskFind")

\* Faulty variant: every lookup error is taken for a missing volume.
DeleteVolumeAnyError(p, k, find, delete, done) ==
    \/ FindVolume(p, k, find, delete, done)
    \/ MayFail /\ Step(p, find, done) /\ UNCHANGED <<domain, volume, handle>>
    \/ RemoveVolume(p, k, delete, done)

DeleteVolume(p, k, find, delete, done) ==
    \/ FindVolume(p, k, find, delete, done)
    \/ RemoveVolume(p, k, delete, done)

\* Faulty variant: the seed is forgotten.
DestroyKeepsSeed(p) ==
    \/ DestroyDomain(p)
    \/ DeleteVolume(p, "disk", "diskFind", "diskDelete", "ok")

Destroy(p) ==
    \/ DestroyDomain(p)
    \/ DeleteVolume(p, "disk", "diskFind", "diskDelete", "seedFind")
    \/ DeleteVolume(p, "seed", "seedFind", "seedDelete", "ok")

(***************************************************************************)
(* Start of an invocation, faults, guests.                                 *)
(***************************************************************************)
EntryPoint(c) ==
    CASE c = "create"  -> "seedLookup"
      [] c = "destroy" -> "destroyLookup"
      [] c = "stop"    -> "stopLookup"
      [] OTHER         -> "startLookup"

\* Faulty variant: a name may repeat.
GeneratedNameRepeats(n) == n \in RunnerNames

\* Every create of the command line generates its name from 64 random bits, so
\* no two creates share one.
GeneratedName(n) ==
    /\ n \in RunnerNames
    /\ \A q \in Invocations : name[q] = n => cmd[q] # "create"

\* The health check restarts whatever its listing shows as shut off.
ListedShutOff(n) == Exists(n) /\ ~domain[n].active

Begin(p, c, n) ==
    /\ pc[p] = "idle"
    /\ c = "create" => GeneratedName(n)
    /\ c = "health" => ListedShutOff(n)
    /\ pc'   = [pc EXCEPT ![p] = EntryPoint(c)]
    /\ cmd'  = [cmd EXCEPT ![p] = c]
    /\ name' = [name EXCEPT ![p] = n]
    /\ UNCHANGED <<domain, volume, handle, phoned>>

CallFails(p) == MayFail /\ Running(p) /\ pc[p] # "waiting" /\ Fails(p)

Work(p) ==
    /\ \/ CreateSeedVolume(p)
       \/ CloneVolume(p)
       \/ CreateDomain(p)
       \/ StartDomain(p)
       \/ WaitForPhoneHome(p)
       \/ StopDomain(p)
       \/ Destroy(p)
       \/ CallFails(p)
    /\ UNCHANGED <<process, phoned>>

Killed(p) ==
    /\ MayDie /\ Running(p)
    /\ pc' = [pc EXCEPT ![p] = "killed"]
    /\ UNCHANGED <<domain, volume, process, handle, phoned>>

GuestPowersOff(n) ==
    /\ domain[n].active
    /\ domain' = [domain EXCEPT ![n] = PoweredOff(domain[n])]
    /\ UNCHANGED <<volume, pc, process, handle, phoned>>

\* The seed a guest booted from holds the name of the runner and the port of
\* the create that wrote it, which listens until that invocation exits.
GuestPhonesHome(n) ==
    /\ domain[n].active
    /\ domain[n].seed \in Invocations /\ Running(domain[n].seed)
    /\ phoned' = phoned \cup {[to |-> domain[n].seed, from |-> domain[n].uuid]}
    /\ UNCHANGED <<domain, volume, pc, process, handle>>

\* Any other program of a machine may dial the port and give the runner's name:
\* the host takes it as it is.  (A report with another name is never looked at.)
OtherwisePhonesHome(n) ==
    /\ n \in Open /\ domain[n].active
    /\ \E p \in Invocations :
          /\ cmd[p] = "create" /\ Running(p)
          /\ phoned' = phoned \cup {[to |-> p, from |-> Nobody]}
    /\ UNCHANGED <<domain, volume, pc, process, handle>>

Next ==
    \/ \E p \in Invocations : Work(p) \/ Killed(p)
    \/ \E p \in Invocations, c \in Commands, n \in Names : Begin(p, c, n)
    \/ \E n \in Names :
          GuestPowersOff(n) \/ GuestPhonesHome(n) \/ OtherwisePhonesHome(n)

Spec == Init /\ [][Next]_vars

-----------------------------------------------------------------------------
(***************************************************************************)
(* Type invariant.                                                         *)
(***************************************************************************)
Machines ==
    [uuid: Owners \cup {Nobody}, active: BOOLEAN, persistent: BOOLEAN,
     seed: Owners \cup {Nobody}]

CreateSteps ==
    {"seedLookup", "seedReplace", "seedCreate", "seedUpload", "seedDiscard",
     "diskLookup", "diskReplace", "diskClone", "diskResize", "diskPath",
     "diskDiscard", "domLookup", "domKill", "domDrop", "domDefine",
     "startLookup", "startCreate", "waiting"}
DestroySteps ==
    {"destroyLookup", "killDomain", "undefine", "undefineAgain", "diskFind",
     "diskDelete", "seedFind", "seedDelete"}
StepsOf(c) ==
    CASE c = "create"  -> CreateSteps
      [] c = "destroy" -> DestroySteps
      [] c = "stop"    -> {"stopLookup", "shutdown"}
      [] OTHER         -> {"startLookup", "startCreate"}

Calls == CreateSteps \cup DestroySteps \cup {"stopLookup", "shutdown"}

\* Every variable has its shape, and a process is at a call of its command.
TypeOK ==
    /\ domain \in [Names -> Machines]
    /\ volume \in [Kinds -> [Names -> Owners \cup {Nobody}]]
    /\ pc \in [Invocations -> Calls \cup Terminal \cup {"idle"}]
    /\ cmd \in [Invocations -> Commands \cup {"none"}]
    /\ name \in [Invocations -> Names \cup {Nobody}]
    /\ handle \in [Invocations -> Owners \cup {Nobody}]
    /\ phoned \subseteq [to: Invocations, from: Owners \cup {Nobody}]
    /\ \A p \in Invocations :
          IF cmd[p] = "none"
          THEN pc[p] = "idle"
          ELSE pc[p] \in StepsOf(cmd[p]) \cup Terminal /\ name[p] \in Names

(***************************************************************************)
(* Safety.                                                                 *)
(***************************************************************************)
Acts(p)       == pc'[p] # pc[p]
Removed(k, n) == volume[k][n] # Nobody /\ volume'[k][n] # volume[k][n]

\* A volume disappears only by the hand of the create that made it, or of a
\* destroy that looked up the machine defined with it: with generated names,
\* neither the unconditional replacement in CreateSeedVolume and CloneVolume
\* nor a destroy that lost a race ever deletes somebody else's storage.
OnlyOwnStorageStep ==
    \A k \in Kinds, n \in Names : Removed(k, n) =>
        \E p \in Invocations :
            /\ Acts(p) /\ name[p] = n
            /\ \/ cmd[p] = "create" /\ volume[k][n] = p
               \/ cmd[p] = "destroy" /\ volume[k][n] = handle[p]
OnlyOwnStorage == [][OnlyOwnStorageStep]_vars

\* Storage that no domain refers to is never left behind silently: some create
\* or destroy of that name is still at work, was killed, or reported an error.
\* destroy finds volumes through the domain's name only, so nothing else would
\* ever come back for them.
Blamed(n) == \E p \in Invocations :
    name[p] = n /\ cmd[p] \in {"create", "destroy"} /\ pc[p] # "ok"
NoSilentLeak ==
    \A k \in Kinds, n \in Names :
        volume[k][n] # Nobody /\ ~Exists(n) => Blamed(n)

\* "Destroyed" is printed only when neither volume is left, and it stays so:
\* a create still at work on the name has both volumes behind it by the time
\* its domain can be looked up.
DestroyedStorageIsGone ==
    \A p \in Invocations : cmd[p] = "destroy" /\ pc[p] = "ok" =>
        \A k \in Kinds : volume[k][name[p]] = Nobody

\* "Ready" is printed only after the machine this create defined, and no other
\* one that booted as its seed says, phoned home, or somebody gave its name.
Claimed == {p \in Invocations : [to |-> p, from |-> Nobody] \in phoned}
ReadyIsOwn ==
    \A p \in Invocations : cmd[p] = "create" /\ pc[p] = "ok" =>
        [to |-> p, from |-> p] \in phoned \/ p \in Claimed

\* As long as no call fails, destroy deletes a volume only once no definition
\* refers to it, whoever else starts, stops or destroys that machine.
DeletesOnlyUndefinedStep ==
    \A k \in Kinds, n \in Names : Removed(k, n) => ~domain[n].persistent
DeletesOnlyUndefined == [][DeletesOnlyUndefinedStep]_vars

\* As long as no call fails, a runner whose commands have all ended, none of
\* them killed, has its definition and both volumes, or none of the three.
Quiet(n) == \A p \in Invocations : name[p] = n => pc[p] \in {"ok", "error"}
QuietConsistent ==
    \A n \in RunnerNames : Quiet(n) =>
        \A k \in Kinds : domain[n].persistent <=> volume[k][n] # Nobody

(***************************************************************************)
(* The inductive invariant.                                                *)
(***************************************************************************)
\* Owner o made what belongs to name n.
Maker(o, n) ==
    \/ o = Host /\ n \in ForeignNames
    \/ o \in Invocations /\ cmd[o] = "create" /\ name[o] = n

\* A create that defined its domain never touches storage again.
PastDefine == {"startLookup", "startCreate", "waiting"} \cup Terminal
Definer(o, n) == Maker(o, n) /\ (o \in Invocations => pc[o] \in PastDefine)

\* The calls made through a domain handle, and after them.
Holding(p) == pc[p] \in {"domKill", "domDrop", "startCreate", "shutdown"}
Found(p) ==
    cmd[p] = "destroy" /\ pc[p] \in (DestroySteps \ {"destroyLookup"}) \cup {"ok"}

OneCreate ==
    \A p, q \in Invocations :
        cmd[p] = "create" /\ cmd[q] = "create" /\ name[p] = name[q] => p = q
CreatesRunners ==
    \A p \in Invocations : cmd[p] = "create" => name[p] \in RunnerNames
VolumeMade ==
    \A k \in Kinds, n \in Names :
        volume[k][n] # Nobody => Maker(volume[k][n], n)
DomainDefined ==
    \A n \in Names : Exists(n) => Definer(domain[n].uuid, n)
HandleDefined ==
    \A p \in Invocations :
        Holding(p) \/ Found(p) => Definer(handle[p], name[p])
BootedOwnSeed ==
    \A n \in Names :
        domain[n].seed \in Invocations => domain[n].uuid = domain[n].seed
DefinitionExists == \A n \in Names : domain[n].persistent => Exists(n)
PhonedOwn == \A e \in phoned : e.from = e.to \/ (e.from = Nobody /\ Open # {})
DestroyProgress ==
    \A p \in Invocations : cmd[p] = "destroy" =>
        /\ pc[p] \in {"seedFind", "seedDelete"} => volume["disk"][name[p]] = Nobody
        /\ pc[p] = "ok" => \A k \in Kinds : volume[k][name[p]] = Nobody

\* Storage without a definition is accounted for by a create that has not
\* defined its domain or failed, or by a destroy that did not succeed.
Accountable(p, n) ==
    /\ name[p] = n
    /\ \/ cmd[p] = "create"
          /\ pc[p] \notin {"startLookup", "startCreate", "waiting", "ok"}
       \/ cmd[p] = "destroy" /\ pc[p] # "ok"
Accounted ==
    \A k \in Kinds, n \in Names :
        volume[k][n] # Nobody /\ ~domain[n].persistent =>
            \E p \in Invocations : Accountable(p, n)

Ownership ==
    /\ TypeOK
    /\ OneCreate
    /\ CreatesRunners
    /\ VolumeMade
    /\ DomainDefined
    /\ HandleDefined
    /\ BootedOwnSeed
    /\ DefinitionExists
    /\ PhonedOwn
    /\ ReadyIsOwn
    /\ DestroyProgress
    /\ Accounted

\* The volumes a create has made when it gets to a call, until it defines its
\* machine or ends; the calls that replace a volume or a machine are never
\* reached, those that discard a volume only after a failed upload or resize.
Building == {"seedLookup", "seedCreate", "seedUpload", "diskLookup",
             "diskClone", "diskResize", "diskPath", "domLookup", "domDefine"}
Discarding == {"seedDiscard", "diskDiscard"}
BuildCalls == IF MayFail THEN Building \cup Discarding ELSE Building
MadeBy(call) ==
    CASE call \in {"seedLookup", "seedCreate"}           -> {}
      [] call \in {"seedUpload", "seedDiscard",
                   "diskLookup", "diskClone"}            -> {"seed"}
      [] OTHER                                           -> Kinds
Storage(n) == {k \in Kinds : volume[k][n] # Nobody}

CreateBuilds ==
    \A p \in Invocations : cmd[p] = "create" /\ pc[p] \notin PastDefine =>
        /\ pc[p] \in BuildCalls
        /\ Storage(name[p]) = MadeBy(pc[p])

IInv == Ownership /\ CreateBuilds

(***************************************************************************)
(* The inductive invariant where no call fails, on top of IInv.            *)
(***************************************************************************)
\* A destroy past its undefine has no definition of its name to come back.
PastUndefine == {"undefineAgain", "diskFind", "diskDelete", "seedFind",
                 "seedDelete", "ok"}
UndefinedByThen ==
    \A p \in Invocations : cmd[p] = "destroy" /\ pc[p] \in PastUndefine =>
        ~domain[name[p]].persistent

\* What has a definition has its storage.
DefinedIsWhole ==
    \A n \in RunnerNames : domain[n].persistent => Storage(n) = Kinds

\* What has none is being built, or a destroy has yet to come to the volume, or
\* a command was killed over it.
At(p, n, calls) == name[p] = n /\ pc[p] \in calls
BuiltOrDestroyed ==
    \A n \in RunnerNames :
        \/ domain[n].persistent
        \/ \E p \in Invocations : cmd[p] = "create" /\ At(p, n, Building)
        \/ \E p \in Invocations : At(p, n, {"killed"})
        \/ /\ volume["disk"][n] # Nobody =>
                  \E p \in Invocations :
                      cmd[p] = "destroy" /\ At(p, n, {"diskFind", "diskDelete"})
           /\ volume["disk"][n] = Nobody /\ volume["seed"][n] # Nobody =>
                  \E p \in Invocations :
                      cmd[p] = "destroy" /\ At(p, n, {"seedFind", "seedDelete"})

CalmIInv ==
    /\ UndefinedByThen
    /\ DefinedIsWhole
    /\ BuiltOrDestroyed

(***************************************************************************)
(* The commands implement StorageOrder, which is told what may go wrong.   *)
(***************************************************************************)
Stage(n) ==
    IF domain[n].persistent THEN "defined"
    ELSE IF /\ n \in RunnerNames
            /\ \A p \in Invocations :
                   cmd[p] = "create" /\ name[p] = n => pc[p] \notin PastDefine
         THEN "none"
         ELSE "gone"

Order == INSTANCE StorageOrder
             WITH Runners <- RunnerNames, Others <- ForeignNames,
                  machine <- [n \in Names |-> Stage(n)],
                  storage <- [n \in Names |-> Storage(n)]

\* However create, start, stop, destroy and health interleave, fail or are
\* killed, a runner's volumes are made once, before its one definition, which
\* is made with all of them; a name that was given up is never taken up again;
\* and as long as no call fails, no volume goes before the definition.
KeepsStorageOrder == Order!Spec

(***************************************************************************)
(* Every create keeps the promise of Rendezvous to its user.               *)
(***************************************************************************)
\* What a create has told its user.
Verdict(p) ==
    CASE cmd[p] = "create" /\ pc[p] = "ok"                  -> "ready"
      [] cmd[p] = "create" /\ pc[p] \in {"error", "killed"} -> "failed"
      [] OTHER                                              -> "none"

Verdicts == [p \in Invocations |-> Verdict(p)]

\* Creates whose own machine phoned home to them.
Reported == {p \in Invocations : [to |-> p, from |-> p] \in phoned}

Promise == INSTANCE Rendezvous
               WITH Runners <- Invocations, reported <- Reported,
                    claimed <- Claimed, outcome <- Verdicts

\* A create says "Ready" only after the machine it defined, and no other one
\* that ever had the name or booted from the seed, phoned home, or somebody
\* gave the name of the runner to its port; and what it said it never takes
\* back, whatever others do to that machine meanwhile.
KeepsPromise == Promise!Spec

(***************************************************************************)
(* What the repository's rules say (DIG.md, section 7), and the code does  *)
(* not do: refuted by a run of its own.                                    *)
(***************************************************************************)
\* A volume is deleted only after its machine was stopped and undefined.
DeletesOnlyStopped ==
    [][\A k \in Kinds, n \in Names : Removed(k, n) => ~Exists(n)]_vars
============================================================================
