----------------------- MODULE RunnerLifecycleProofs -----------------------
(***************************************************************************)
(* Theorems about RunnerLifecycle, for any number of invocations, names    *)
(* and host machines, with every fault allowed.                            *)
(***************************************************************************)
EXTENDS RunnerLifecycle, TLAPS

(***************************************************************************)
(* Type correctness.                                                       *)
(***************************************************************************)
LEMMA InitTypeOK == Init => TypeOK
<1> SUFFICES ASSUME Init PROVE TypeOK
  OBVIOUS
<1>1. domain \in [Names -> Machines]
  <2>1. NoDomain \in Machines
    BY DEF NoDomain, Machines
  <2>2. [NoDomain EXCEPT !.uuid = Host, !.persistent = TRUE] \in Machines
    BY DEF NoDomain, Machines, Owners
  <2> QED
    BY <2>1, <2>2 DEF Init
<1>2. volume \in [Kinds -> [Names -> Owners \cup {Nobody}]]
  BY DEF Init, Owners
<1>3. pc \in [Invocations -> Calls \cup Terminal \cup {"idle"}]
  BY DEF Init
<1> QED
  BY <1>1, <1>2, <1>3 DEF Init, TypeOK

LEMMA MachineTypes ==
  ASSUME NEW d \in Machines
  PROVE  /\ PoweredOff(d) \in Machines
         /\ Undefined(d) \in Machines
         /\ NoDomain \in Machines
  BY DEF PoweredOff, Undefined, NoDomain, Machines

LEMMA FailureTypes ==
  ASSUME TypeOK, NEW p \in Invocations, Running(p)
  PROVE  OnFailure(p) \in StepsOf(cmd[p]) \cup Terminal
  BY CommandsKnown
     DEF TypeOK, Running, OnFailure, StepsOf, CreateSteps, DestroySteps, Terminal

LEMMA RunningNamed ==
  ASSUME TypeOK, NEW p \in Invocations, Running(p)
  PROVE  name[p] \in Names /\ cmd[p] \in Commands /\ domain[name[p]] \in Machines
BY DEF TypeOK, Running, Terminal

LEMMA SetDomainTypes ==
  ASSUME TypeOK, NEW p \in Invocations, Running(p), NEW d \in Machines,
         NEW x \in StepsOf(cmd[p]) \cup Terminal,
         pc' = [pc EXCEPT ![p] = x], SetDomain(p, d),
         UNCHANGED <<volume, handle, process, phoned>>
  PROVE  TypeOK'
<1>1. domain' \in [Names -> Machines]
  BY RunningNamed DEF TypeOK, SetDomain
<1> QED
  BY <1>1, CommandsKnown
  DEF TypeOK, process, Calls, StepsOf, CreateSteps, DestroySteps, Running, Terminal

LEMMA SetPcTypes ==
  ASSUME TypeOK, NEW p \in Invocations, Running(p),
         NEW x \in StepsOf(cmd[p]) \cup Terminal,
         pc' = [pc EXCEPT ![p] = x], handle' \in [Invocations -> Owners \cup {Nobody}],
         UNCHANGED <<domain, volume, process, phoned>>
  PROVE  TypeOK'
BY CommandsKnown
DEF TypeOK, process, Calls, StepsOf, CreateSteps, DestroySteps, Running, Terminal

LEMMA LookupTypes ==
  ASSUME TypeOK, NEW p \in Invocations, Running(p),
         NEW from, NEW found \in StepsOf(cmd[p]) \cup Terminal,
         NEW missing \in StepsOf(cmd[p]) \cup Terminal,
         Lookup(p, from, found, missing), UNCHANGED <<process, phoned>>
  PROVE  TypeOK'
<1>1. handle' \in [Invocations -> Owners \cup {Nobody}]
  BY RunningNamed DEF Lookup, TypeOK, Machines
<1>2. CASE Exists(name[p])
  BY <1>1, <1>2, SetPcTypes DEF Lookup, Step
<1>3. CASE ~Exists(name[p])
  BY <1>1, <1>3, SetPcTypes DEF Lookup, Step
<1> QED
  BY <1>2, <1>3

LEMMA FailsTypes ==
  ASSUME TypeOK, NEW p \in Invocations, Running(p), Fails(p),
         UNCHANGED <<process, phoned>>
  PROVE  TypeOK'
BY FailureTypes, SetPcTypes DEF Fails, TypeOK

LEMMA VolumeWorkTypes ==
  ASSUME TypeOK, NEW p \in Invocations,
         CreateSeedVolume(p) \/ CloneVolume(p), UNCHANGED <<process, phoned>>
  PROVE  TypeOK'
<1>1. Running(p)
  BY DEF CreateSeedVolume, CloneVolume, FindVolume, RemoveVolume, MakeVolume,
         UseVolume, Step, Running, Terminal
<1>2. OnFailure(p) \in StepsOf(cmd[p]) \cup Terminal
  BY <1>1, FailureTypes
<1> QED
  BY <1>2, CommandsKnown
  DEF TypeOK, CreateSeedVolume, CloneVolume, FindVolume, RemoveVolume,
      MakeVolume, UseVolume, Fails, Step, process, Terminal, Calls, StepsOf,
      CreateSteps, DestroySteps, Owners, Kinds

LEMMA CreateDomainTypes ==
  ASSUME TypeOK, NEW p \in Invocations, CreateDomain(p),
         UNCHANGED <<process, phoned>>
  PROVE  TypeOK'
<1>1. /\ Running(p) /\ cmd[p] = "create"
      /\ {"domKill", "domDrop", "domDefine", "startLookup"} \subseteq StepsOf(cmd[p])
  BY CommandsKnown
  DEF CreateDomain, Lookup, KillIgnored, DropIgnored, DefineDomain, Step, Running,
      TypeOK, StepsOf, CreateSteps, DestroySteps, Terminal
<1>2. CASE Lookup(p, "domLookup", "domKill", "domDefine")
  BY <1>1, <1>2, LookupTypes
<1>3. CASE KillIgnored(p, "domKill", "domDrop")
  BY <1>1, <1>3, RunningNamed, MachineTypes, SetDomainTypes, SetPcTypes
  DEF KillIgnored, Step, TypeOK
<1>4. CASE DropIgnored(p, "domDrop", "domDefine")
  BY <1>1, <1>4, RunningNamed, MachineTypes, SetDomainTypes, SetPcTypes
  DEF DropIgnored, Step, TypeOK
<1>5. CASE DefineDomain(p)
  <2>1. [NoDomain EXCEPT !.uuid = p, !.persistent = TRUE] \in Machines
    BY DEF NoDomain, Machines, Owners
  <2> QED
    BY <1>1, <1>5, <2>1, SetDomainTypes, FailsTypes DEF DefineDomain, Step
<1> QED
  BY <1>2, <1>3, <1>4, <1>5 DEF CreateDomain

LEMMA StartDomainTypes ==
  ASSUME TypeOK, NEW p \in Invocations, StartDomain(p),
         UNCHANGED <<process, phoned>>
  PROVE  TypeOK'
<1>1. /\ Running(p) /\ "startCreate" \in StepsOf(cmd[p])
      /\ OnFailure(p) \in StepsOf(cmd[p]) \cup Terminal
      /\ cmd[p] = "create" => "waiting" \in StepsOf(cmd[p])
  <2>1. Running(p)
    BY DEF StartDomain, Lookup, BootDomain, Running, Terminal
  <2>2. "startCreate" \in StepsOf(cmd[p])
    BY <2>1, RunningNamed, CommandsKnown
    DEF StartDomain, Lookup, BootDomain, TypeOK, StepsOf, CreateSteps,
        DestroySteps, Terminal
  <2>3. cmd[p] = "create" => "waiting" \in StepsOf(cmd[p])
    BY DEF StepsOf, CreateSteps
  <2> QED
    BY <2>1, <2>2, <2>3, FailureTypes
<1>2. CASE Lookup(p, "startLookup", "startCreate", OnFailure(p))
  BY <1>1, <1>2, LookupTypes
<1>3. CASE BootDomain(p)
  <2>1. Booted(name[p]) \in Machines
    <3>1. volume["seed"][name[p]] \in Owners \cup {Nobody}
      BY <1>1, RunningNamed DEF TypeOK, Kinds
    <3> QED
      BY <1>1, <3>1, RunningNamed DEF Booted, Machines
  <2>2. CASE Resolves(p) /\ CanBoot(name[p])
    BY <1>1, <1>3, <2>1, <2>2, SetDomainTypes DEF BootDomain, Step, Terminal
  <2>3. CASE Fails(p)
    BY <1>1, <2>3, FailsTypes
  <2> QED
    BY <1>3, <2>2, <2>3 DEF BootDomain
<1> QED
  BY <1>2, <1>3 DEF StartDomain

LEMMA StopAndWaitTypes ==
  ASSUME TypeOK, NEW p \in Invocations, StopDomain(p) \/ WaitForPhoneHome(p),
         UNCHANGED <<process, phoned>>
  PROVE  TypeOK'
<1>1. CASE WaitForPhoneHome(p)
  <2>1. Running(p)
    BY <1>1 DEF WaitForPhoneHome, Running, Terminal
  <2> QED
    BY <1>1, <2>1, SetPcTypes DEF WaitForPhoneHome, Step, Terminal, TypeOK
<1>2. CASE StopDomain(p)
  <2>1. Running(p) /\ "shutdown" \in StepsOf(cmd[p])
    BY <1>2, CommandsKnown
    DEF StopDomain, Lookup, RequestShutdown, Running, TypeOK, StepsOf,
        CreateSteps, DestroySteps, Terminal
  <2>2. CASE Lookup(p, "stopLookup", "shutdown", "error")
    BY <2>1, <2>2, LookupTypes DEF Terminal
  <2>3. CASE RequestShutdown(p)
    BY <2>1, <2>3, FailsTypes, SetPcTypes DEF RequestShutdown, Step, Terminal, TypeOK
  <2> QED
    BY <1>2, <2>2, <2>3 DEF StopDomain
<1> QED
  BY <1>1, <1>2

LEMMA DestroyTypes ==
  ASSUME TypeOK, NEW p \in Invocations, Destroy(p), UNCHANGED <<process, phoned>>
  PROVE  TypeOK'
<1>1. /\ Running(p) /\ cmd[p] = "destroy"
      /\ DestroySteps \subseteq StepsOf(cmd[p])
  BY CommandsKnown
  DEF Destroy, DestroyDomain, DeleteVolume, Lookup, KillIgnored, DropIgnored,
      UndefineDomain, FindVolume, RemoveVolume, Step, Running, Terminal, TypeOK,
      StepsOf, CreateSteps, DestroySteps
<1>2. CASE Lookup(p, "destroyLookup", "killDomain", "error")
  BY <1>1, <1>2, LookupTypes DEF DestroySteps, Terminal
<1>3. CASE KillIgnored(p, "killDomain", "undefine")
  BY <1>1, <1>3, RunningNamed, MachineTypes, SetDomainTypes, SetPcTypes
  DEF KillIgnored, Step, TypeOK, DestroySteps
<1>4. CASE UndefineDomain(p)
  BY <1>1, <1>4, RunningNamed, MachineTypes, SetDomainTypes, FailsTypes
  DEF UndefineDomain, Step, DestroySteps
<1>5. CASE DropIgnored(p, "undefineAgain", "diskFind")
  BY <1>1, <1>5, RunningNamed, MachineTypes, SetDomainTypes, SetPcTypes
  DEF DropIgnored, Step, TypeOK, DestroySteps
<1>6. CASE DeleteVolume(p, "disk", "diskFind", "diskDelete", "seedFind")
           \/ DeleteVolume(p, "seed", "seedFind", "seedDelete", "ok")
  <2>1. OnFailure(p) \in StepsOf(cmd[p]) \cup Terminal
    BY <1>1, FailureTypes
  <2> QED
    BY <1>1, <1>6, <2>1, CommandsKnown
    DEF TypeOK, DeleteVolume, FindVolume, RemoveVolume, Fails, Step, process,
        Terminal, Calls, StepsOf, CreateSteps, DestroySteps, Owners, Kinds
<1> QED
  BY <1>2, <1>3, <1>4, <1>5, <1>6 DEF Destroy, DestroyDomain

LEMMA WorkTypes ==
  ASSUME TypeOK, NEW p \in Invocations, Work(p)
  PROVE  TypeOK'
BY VolumeWorkTypes, DestroyTypes, CreateDomainTypes, StartDomainTypes,
   StopAndWaitTypes, FailsTypes
DEF Work, CallFails

LEMMA NextTypes == TypeOK /\ [Next]_vars => TypeOK'
<1> SUFFICES ASSUME TypeOK, [Next]_vars PROVE TypeOK'
  OBVIOUS
<1>1. ASSUME NEW p \in Invocations, Work(p) PROVE TypeOK'
  BY <1>1, WorkTypes
<1>2. ASSUME NEW p \in Invocations, Killed(p) PROVE TypeOK'
  BY <1>2, SetPcTypes DEF Killed, TypeOK, Terminal
<1>3. ASSUME NEW p \in Invocations, NEW c \in Commands, NEW n \in Names,
             Begin(p, c, n)
      PROVE  TypeOK'
  <2>1. EntryPoint(c) \in StepsOf(c) /\ EntryPoint(c) \in Calls /\ c # "none"
    BY CommandsKnown DEF EntryPoint, StepsOf, CreateSteps, DestroySteps, Calls
  <2> QED
    BY <1>3, <2>1 DEF Begin, TypeOK
<1>4. ASSUME NEW n \in Names, GuestPowersOff(n) PROVE TypeOK'
  <2>1. domain' \in [Names -> Machines]
    BY <1>4, MachineTypes DEF GuestPowersOff, TypeOK
  <2> QED
    BY <1>4, <2>1 DEF GuestPowersOff, TypeOK, process, StepsOf
<1>5. ASSUME NEW n \in Names, GuestPhonesHome(n) PROVE TypeOK'
  BY <1>5 DEF GuestPhonesHome, TypeOK, Machines, process, StepsOf
<1>6. ASSUME NEW n \in Names, OtherwisePhonesHome(n) PROVE TypeOK'
  BY <1>6 DEF OtherwisePhonesHome, TypeOK, Machines, process, StepsOf
<1>7. CASE UNCHANGED vars
  BY <1>7 DEF vars, process, TypeOK, StepsOf
<1> QED
  BY <1>1, <1>2, <1>3, <1>4, <1>5, <1>6, <1>7 DEF Next

\* Every variable keeps its shape and every process stays at a call of its own
\* command, whatever fails and whoever interferes.
THEOREM TypeCorrect == Spec => []TypeOK
BY InitTypeOK, NextTypes, PTL DEF Spec

(***************************************************************************)
(* What one step of an invocation can do.                                  *)
(***************************************************************************)
\* It moves only its own program counter, from a call of its command, and a
\* create that defined its domain never goes back to storage.
LEMMA WorkMovesPc ==
  ASSUME TypeOK, NEW p \in Invocations, Work(p)
  PROVE  /\ Running(p)
         /\ pc' = [pc EXCEPT ![p] = pc'[p]]
         /\ cmd[p] = "create" /\ pc[p] \in PastDefine => pc'[p] \in PastDefine
<1> DEFINE Moved(x) == x \in PastDefine \/ pc[p] \notin PastDefine \/ cmd[p] # "create"
<1>0. UNCHANGED process
  BY DEF Work
<1>1. CASE CreateSeedVolume(p) \/ CloneVolume(p)
  BY <1>1 DEF CreateSeedVolume, CloneVolume, FindVolume, RemoveVolume, MakeVolume,
       UseVolume, Fails, Step, Running, Terminal, TypeOK, PastDefine
<1>2. CASE CreateDomain(p)
  BY <1>2 DEF CreateDomain, Lookup, KillIgnored, DropIgnored, DefineDomain, Fails,
       Step, Running, Terminal, TypeOK, PastDefine
<1>3. CASE StartDomain(p) \/ WaitForPhoneHome(p) \/ StopDomain(p)
  BY <1>3 DEF StartDomain, WaitForPhoneHome, StopDomain, Lookup, BootDomain,
       RequestShutdown, OnFailure, Fails, Step, Running, Terminal, TypeOK, PastDefine
<1>4. CASE Destroy(p)
  BY <1>4, CommandsKnown DEF Destroy, DestroyDomain, DeleteVolume, Lookup, KillIgnored,
       DropIgnored, UndefineDomain, FindVolume, RemoveVolume, Fails, Step, Running,
       Terminal, TypeOK, StepsOf, CreateSteps, PastDefine
<1>5. CASE CallFails(p)
  BY <1>5 DEF CallFails, Fails, OnFailure, TypeOK, PastDefine, Running, Terminal
<1> QED
  BY <1>1, <1>2, <1>3, <1>4, <1>5 DEF Work

\* A handle is written by the lookup that found the domain.
LEMMA WorkHandles ==
  ASSUME TypeOK, NEW p \in Invocations, Work(p)
  PROVE  /\ \A q \in Invocations \ {p} : handle'[q] = handle[q]
         /\ (Holding(p) \/ Found(p))' =>
               \/ (Holding(p) \/ Found(p)) /\ handle'[p] = handle[p]
               \/ Exists(name[p]) /\ handle'[p] = domain[name[p]].uuid
<1>0. UNCHANGED process
  BY DEF Work
<1>1. CASE CreateSeedVolume(p) \/ CloneVolume(p)
  BY <1>0, <1>1, CommandsKnown
  DEF CreateSeedVolume, CloneVolume, FindVolume, RemoveVolume, MakeVolume,
      UseVolume, Fails, OnFailure, Step, TypeOK, Holding, Found, process, StepsOf,
      DestroySteps, CreateSteps, Terminal
<1>2. CASE CreateDomain(p)
  BY <1>0, <1>2, CommandsKnown
  DEF CreateDomain, Lookup, KillIgnored, DropIgnored, DefineDomain, Fails, OnFailure,
      Step, TypeOK, Holding, Found, process, StepsOf, DestroySteps, CreateSteps, Terminal
<1>3. CASE StartDomain(p) \/ WaitForPhoneHome(p) \/ StopDomain(p)
  BY <1>0, <1>3, CommandsKnown
  DEF StartDomain, WaitForPhoneHome, StopDomain, Lookup, BootDomain,
      RequestShutdown, OnFailure, Fails, Step, TypeOK, Holding, Found, process,
      StepsOf, DestroySteps, CreateSteps, Terminal
<1>4. CASE Destroy(p)
  BY <1>0, <1>4, CommandsKnown
  DEF Destroy, DestroyDomain, DeleteVolume, Lookup, KillIgnored, DropIgnored,
      UndefineDomain, FindVolume, RemoveVolume, Fails, OnFailure, Step, TypeOK, Holding,
      Found, process, StepsOf, DestroySteps, CreateSteps, Terminal
<1>5. CASE CallFails(p)
  BY <1>0, <1>5, CommandsKnown
  DEF CallFails, Fails, OnFailure, TypeOK, Running, Holding, Found, process, StepsOf,
      DestroySteps, CreateSteps, Terminal
<1> QED
  BY <1>1, <1>2, <1>3, <1>4, <1>5 DEF Work

\* It leaves the domains alone, or applies one libvirt transition to its own.
LEMMA WorkDomain ==
  ASSUME TypeOK, NEW p \in Invocations, Work(p)
  PROVE  \/ UNCHANGED domain
         \/ SetDomain(p, PoweredOff(domain[name[p]]))
         \/ /\ SetDomain(p, Undefined(domain[name[p]]))
            /\ \/ cmd[p] = "create" /\ pc'[p] = "domDefine"
               \/ cmd[p] = "destroy" /\ pc'[p] = "diskFind"
         \/ /\ SetDomain(p, Booted(name[p]))
            /\ pc[p] = "startCreate" /\ Resolves(p)
         \/ /\ SetDomain(p, [NoDomain EXCEPT !.uuid = p, !.persistent = TRUE])
            /\ cmd[p] = "create" /\ pc[p] = "domDefine" /\ pc'[p] = "startLookup"
BY CommandsKnown
DEF Work, CreateSeedVolume, CloneVolume, CreateDomain, StartDomain, WaitForPhoneHome,
    StopDomain, Destroy, CallFails, DestroyDomain, DeleteVolume, Lookup, KillIgnored,
    DropIgnored, UndefineDomain, DefineDomain, BootDomain, RequestShutdown,
    FindVolume, RemoveVolume, MakeVolume, UseVolume, Fails, Step,
    TypeOK, StepsOf, CreateSteps, DestroySteps, Terminal

LEMMA MachineFields ==
  ASSUME NEW d \in Machines
  PROVE  /\ \/ PoweredOff(d) = NoDomain /\ ~d.persistent
            \/ /\ PoweredOff(d).uuid = d.uuid /\ PoweredOff(d).seed = Nobody
               /\ PoweredOff(d).persistent = d.persistent
         /\ \/ Undefined(d) = NoDomain
            \/ /\ Undefined(d).uuid = d.uuid /\ Undefined(d).seed = d.seed
               /\ Undefined(d).persistent = FALSE
BY DEF PoweredOff, Undefined, Machines

\* The same step seen from one name: what becomes of its uuid, of the seed its
\* guest booted from, and of its definition.
DefinitionDropped(p) ==
    \/ cmd[p] = "create" /\ pc'[p] = "domDefine"
    \/ cmd[p] = "destroy" /\ pc'[p] = "diskFind"

LEMMA WorkMachine ==
  ASSUME TypeOK, NEW p \in Invocations, Work(p), NEW n \in Names,
         domain'[n] # domain[n]
  PROVE  /\ n = name[p]
         /\ domain'[n] \in Machines
         /\ \/ /\ domain'[n].uuid = Nobody /\ domain'[n].seed = Nobody
               /\ domain'[n].persistent = FALSE
               /\ domain[n].persistent => DefinitionDropped(p)
            \/ /\ domain'[n].uuid = domain[n].uuid
               /\ domain'[n].seed \in {Nobody, domain[n].seed}
               /\ domain'[n].persistent = domain[n].persistent
            \/ /\ domain'[n].uuid = domain[n].uuid
               /\ domain'[n].seed = domain[n].seed
               /\ domain'[n].persistent = FALSE /\ DefinitionDropped(p)
            \/ /\ domain'[n].uuid = domain[n].uuid
               /\ domain'[n].seed = volume["seed"][n]
               /\ domain'[n].persistent = domain[n].persistent
               /\ pc[p] = "startCreate" /\ Resolves(p)
            \/ /\ domain'[n].uuid = p /\ domain'[n].seed = Nobody
               /\ domain'[n].persistent = TRUE
               /\ cmd[p] = "create" /\ pc'[p] = "startLookup"
<1>0. NoDomain.uuid = Nobody /\ NoDomain.seed = Nobody /\ NoDomain.persistent = FALSE
  BY DEF NoDomain
<1>1. /\ n = name[p] /\ domain[n] \in Machines /\ domain \in [Names -> Machines]
  BY WorkDomain DEF SetDomain, TypeOK
<1>6. domain'[n] \in Machines
  BY WorkTypes DEF TypeOK
<1>2. CASE SetDomain(p, PoweredOff(domain[name[p]]))
  <2>1. domain'[n] = PoweredOff(domain[n])
    BY <1>1, <1>2 DEF SetDomain
  <2>2. \/ PoweredOff(domain[n]) = NoDomain /\ ~domain[n].persistent
        \/ /\ PoweredOff(domain[n]).uuid = domain[n].uuid
           /\ PoweredOff(domain[n]).seed = Nobody
           /\ PoweredOff(domain[n]).persistent = domain[n].persistent
    BY <1>1, MachineFields
  <2> QED
    BY <1>0, <1>1, <1>6, <2>1, <2>2
<1>3. CASE SetDomain(p, Undefined(domain[name[p]])) /\ DefinitionDropped(p)
  <2>1. domain'[n] = Undefined(domain[n])
    BY <1>1, <1>3 DEF SetDomain
  <2>2. DefinitionDropped(p)
    BY <1>3
  <2>3. \/ Undefined(domain[n]) = NoDomain
        \/ /\ Undefined(domain[n]).uuid = domain[n].uuid
           /\ Undefined(domain[n]).seed = domain[n].seed
           /\ Undefined(domain[n]).persistent = FALSE
    BY <1>1, MachineFields
  <2> QED
    BY <1>0, <1>1, <1>6, <2>1, <2>2, <2>3
<1>4. CASE SetDomain(p, Booted(name[p])) /\ pc[p] = "startCreate" /\ Resolves(p)
  BY <1>1, <1>4, <1>6 DEF SetDomain, Booted, Machines
<1>5. CASE /\ SetDomain(p, [NoDomain EXCEPT !.uuid = p, !.persistent = TRUE])
           /\ cmd[p] = "create" /\ pc'[p] = "startLookup"
  BY <1>1, <1>5, <1>6 DEF SetDomain, NoDomain
<1> QED
  BY <1>1, <1>2, <1>3, <1>4, <1>5, <1>6, WorkDomain DEF DefinitionDropped

\* It leaves the volumes alone, makes one of its own, or removes one.
LEMMA WorkVolume ==
  ASSUME TypeOK, NEW p \in Invocations, Work(p)
  PROVE  \/ UNCHANGED volume
         \/ \E k \in Kinds :
              /\ cmd[p] = "create"
              /\ pc[p] \in {"seedCreate", "diskClone"}
              /\ pc'[p] \in {"seedUpload", "diskResize"}
              /\ volume' = [volume EXCEPT ![k][name[p]] = p]
         \/ \E k \in Kinds :
              /\ cmd[p] \in {"create", "destroy"}
              /\ cmd[p] = "destroy" => Found(p)
              /\ pc'[p] # pc[p]
              /\ volume' = [volume EXCEPT ![k][name[p]] = Nobody]
BY CommandsKnown
DEF Work, CreateSeedVolume, CloneVolume, CreateDomain, StartDomain, WaitForPhoneHome,
    StopDomain, Destroy, CallFails, DestroyDomain, DeleteVolume, Lookup, KillIgnored,
    DropIgnored, UndefineDomain, DefineDomain, BootDomain, RequestShutdown,
    FindVolume, RemoveVolume, MakeVolume, UseVolume, Fails, Step, Found, Kinds,
    TypeOK, StepsOf, CreateSteps, DestroySteps, Terminal

\* A volume that is gone for one kind of a destroy at its last calls, or for
\* both when it succeeds.
LEMMA WorkDestroys ==
  ASSUME TypeOK, DestroyProgress, NEW p \in Invocations, Work(p), cmd[p] = "destroy"
  PROVE  /\ pc'[p] \in {"seedFind", "seedDelete"} => volume'["disk"][name[p]] = Nobody
         /\ pc'[p] = "ok" => \A k \in Kinds : volume'[k][name[p]] = Nobody
<1>1. /\ pc[p] \in DestroySteps /\ name[p] \in Names /\ UNCHANGED process
      /\ Destroy(p) \/ CallFails(p)
  BY CommandsKnown
  DEF Work, CreateSeedVolume, CloneVolume, CreateDomain, StartDomain, WaitForPhoneHome,
      StopDomain, Destroy, CallFails, Running, DestroyDomain, DeleteVolume, Lookup,
      KillIgnored, DropIgnored, UndefineDomain, DefineDomain, BootDomain,
      RequestShutdown, FindVolume, RemoveVolume, MakeVolume, UseVolume, Step,
      TypeOK, StepsOf, CreateSteps, DestroySteps, Terminal
<1>2. CASE CallFails(p)
  BY <1>1, <1>2 DEF CallFails, Fails, OnFailure, TypeOK, DestroySteps
<1>3. CASE DestroyDomain(p)
  BY <1>1, <1>3
  DEF DestroyDomain, Lookup, KillIgnored, DropIgnored, UndefineDomain, Fails,
      OnFailure, Step, TypeOK
<1>4. CASE DeleteVolume(p, "disk", "diskFind", "diskDelete", "seedFind")
  BY <1>1, <1>4
  DEF DeleteVolume, FindVolume, RemoveVolume, Fails, OnFailure, Step, TypeOK, Kinds
<1>5. CASE DeleteVolume(p, "seed", "seedFind", "seedDelete", "ok")
  BY <1>1, <1>5
  DEF DeleteVolume, FindVolume, RemoveVolume, Fails, OnFailure, Step, TypeOK, Kinds,
      DestroyProgress
<1> QED
  BY <1>1, <1>2, <1>3, <1>4, <1>5 DEF Destroy

\* A create succeeds only after a phone-home to its own server.
LEMMA WorkReady ==
  ASSUME TypeOK, NEW p \in Invocations, Work(p), cmd[p] = "create", pc'[p] = "ok"
  PROVE  \E e \in phoned : e.to = p
BY CommandsKnown
DEF Work, CreateSeedVolume, CloneVolume, CreateDomain, StartDomain, WaitForPhoneHome,
    StopDomain, Destroy, CallFails, DestroyDomain, DeleteVolume, Lookup, KillIgnored,
    DropIgnored, UndefineDomain, DefineDomain, BootDomain, RequestShutdown, Running,
    FindVolume, RemoveVolume, MakeVolume, UseVolume, Fails, OnFailure, Step,
    TypeOK, StepsOf, CreateSteps, DestroySteps, Terminal

\* The event that ends its wait is of its machine, or is a claim.
LEMMA ReadyEvent ==
  ASSUME TypeOK, PhonedOwn, NEW p \in Invocations, Work(p), cmd[p] = "create",
         pc'[p] = "ok"
  PROVE  [to |-> p, from |-> p] \in phoned \/ p \in Claimed
<1> PICK e \in phoned : e.to = p
  BY WorkReady
<1>1. e = [to |-> e.to, from |-> e.from]
  BY DEF TypeOK
<1> QED
  BY <1>1 DEF PhonedOwn, Claimed

\* A create leaves storage work by defining its domain, or with an error.
LEMMA WorkDefines ==
  ASSUME TypeOK, NEW p \in Invocations, Work(p), cmd[p] = "create",
         pc[p] \notin {"startLookup", "startCreate", "waiting", "ok"},
         pc'[p] \in {"startLookup", "startCreate", "waiting", "ok"}
  PROVE  domain'[name[p]].persistent
<1>1. DefineDomain(p) /\ pc'[p] = "startLookup"
  BY CommandsKnown
  DEF Work, CreateSeedVolume, CloneVolume, CreateDomain, StartDomain, WaitForPhoneHome,
      StopDomain, Destroy, CallFails, DestroyDomain, DeleteVolume, Lookup, KillIgnored,
      DropIgnored, UndefineDomain, DefineDomain, BootDomain, RequestShutdown, Running,
      FindVolume, RemoveVolume, MakeVolume, UseVolume, Fails, OnFailure, Step,
      TypeOK, StepsOf, CreateSteps, DestroySteps, Terminal
<1>2. name[p] \in Names
  BY WorkMovesPc, RunningNamed
<1> QED
  BY <1>1, <1>2
  DEF DefineDomain, SetDomain, NoDomain, Fails, OnFailure, TypeOK

(***************************************************************************)
(* The ownership part of the inductive invariant.                          *)
(***************************************************************************)
\* The owner of a name's storage, its definition and a handle on it is one.
LEMMA SameMaker ==
  ASSUME OneCreate, CreatesRunners, NEW n \in Names, NEW o, NEW u,
         Maker(o, n), Maker(u, n)
  PROVE  o = u
BY NamesDistinct DEF OneCreate, CreatesRunners, Maker

LEMMA InitOwnership == Init => Ownership
<1> SUFFICES ASSUME Init PROVE Ownership
  OBVIOUS
<1>1. TypeOK
  BY InitTypeOK
<1>2. \A k \in Kinds, n \in Names :
        volume[k][n] # Nobody => volume[k][n] = Host /\ n \in ForeignNames
  BY DEF Init
<1>3. \A n \in Names :
        /\ domain[n].uuid # Nobody => domain[n].uuid = Host /\ n \in ForeignNames
        /\ n \in ForeignNames => domain[n].persistent /\ domain[n].uuid = Host
        /\ n \notin ForeignNames => ~domain[n].persistent
        /\ domain[n].seed = Nobody
  BY DEF Init, NoDomain
<1>4. OneCreate /\ CreatesRunners /\ PhonedOwn /\ ReadyIsOwn /\ DestroyProgress
  BY DEF Init, OneCreate, CreatesRunners, PhonedOwn, ReadyIsOwn, DestroyProgress
<1>5. VolumeMade
  BY <1>2 DEF VolumeMade, Maker
<1>6. DomainDefined
  BY <1>3, OwnersDistinct DEF DomainDefined, Definer, Maker, Exists
<1>7. HandleDefined
  BY DEF Init, HandleDefined, Holding, Found
<1>8. BootedOwnSeed /\ DefinitionExists
  BY <1>3, OwnersDistinct DEF BootedOwnSeed, DefinitionExists, Exists
<1>9. Accounted
  BY <1>2, <1>3 DEF Accounted
<1> QED
  BY <1>1, <1>4, <1>5, <1>6, <1>7, <1>8, <1>9 DEF Ownership

LEMMA WorkOwnership ==
  ASSUME Ownership, NEW p \in Invocations, Work(p)
  PROVE  Ownership'
<1> USE DEF Ownership
<1>0. UNCHANGED <<cmd, name, phoned>> /\ name[p] \in Names
  BY WorkMovesPc, RunningNamed DEF Work, process
<1>1. TypeOK'
  BY WorkTypes
<1>2. OneCreate' /\ CreatesRunners' /\ PhonedOwn'
  BY <1>0 DEF OneCreate, CreatesRunners, PhonedOwn
<1>3. \A o, n : Maker(o, n)' <=> Maker(o, n)
  BY <1>0 DEF Maker
<1>4. \A o, n : Definer(o, n) => Definer(o, n)'
  BY <1>0, <1>3, WorkMovesPc, OwnersDistinct DEF Definer, Maker, TypeOK
<1>5. VolumeMade'
  <2>1. CASE UNCHANGED volume
    BY <1>3, <2>1 DEF VolumeMade
  <2>2. ASSUME NEW k \in Kinds, cmd[p] = "create",
               volume' = [volume EXCEPT ![k][name[p]] = p]
        PROVE  VolumeMade'
    BY <1>0, <1>3, <2>2 DEF VolumeMade, Maker, TypeOK
  <2>3. ASSUME NEW k \in Kinds, volume' = [volume EXCEPT ![k][name[p]] = Nobody]
        PROVE  VolumeMade'
    BY <1>0, <1>3, <2>3 DEF VolumeMade, TypeOK
  <2> QED
    BY <2>1, <2>2, <2>3, WorkVolume
<1>6. DomainDefined'
  <2>1. \A n \in Names : Exists(n)' =>
          \/ domain'[n].uuid = domain[n].uuid /\ Exists(n)
          \/ /\ n = name[p] /\ domain'[n].uuid = p
             /\ cmd[p] = "create" /\ pc'[p] = "startLookup"
    <3> SUFFICES ASSUME NEW n \in Names, Exists(n)', domain'[n] # domain[n]
                 PROVE  \/ domain'[n].uuid = domain[n].uuid /\ Exists(n)
                        \/ /\ n = name[p] /\ domain'[n].uuid = p
                           /\ cmd[p] = "create" /\ pc'[p] = "startLookup"
      BY DEF Exists
    <3>1. /\ n = name[p]
          /\ \/ domain'[n].uuid = Nobody
             \/ domain'[n].uuid = domain[n].uuid
             \/ /\ domain'[n].uuid = p
                /\ cmd[p] = "create" /\ pc'[p] = "startLookup"
      BY WorkMachine
    <3> QED
      BY <3>1 DEF Exists
  <2> QED
    BY <1>0, <1>3, <1>4, <2>1 DEF DomainDefined, Definer, Maker, PastDefine
<1>7. HandleDefined'
  BY <1>0, <1>4, WorkHandles, WorkMovesPc
  DEF HandleDefined, DomainDefined, Holding, Found, TypeOK
<1>8. BootedOwnSeed'
  <2> SUFFICES ASSUME NEW n \in Names, domain'[n].seed \in Invocations,
                      domain'[n] # domain[n]
               PROVE  domain'[n].uuid = domain'[n].seed
    BY DEF BootedOwnSeed
  <2>1. CASE pc[p] = "startCreate" /\ Resolves(p) /\ n = name[p]
             /\ domain'[n].uuid = domain[n].uuid /\ domain'[n].seed = volume["seed"][n]
    <3>1. Definer(domain[n].uuid, n)
      BY <2>1 DEF HandleDefined, Holding, Resolves
    <3>2. Maker(volume["seed"][n], n)
      BY <2>1, OwnersDistinct DEF VolumeMade, Kinds
    <3> QED
      BY <2>1, <3>1, <3>2, SameMaker DEF Definer
  <2>2. CASE domain'[n].uuid = domain[n].uuid /\ domain'[n].seed \in {Nobody, domain[n].seed}
    BY <2>2, OwnersDistinct DEF BootedOwnSeed
  <2>3. CASE domain'[n].seed = Nobody
    BY <2>3, OwnersDistinct
  <2> QED
    BY <2>1, <2>2, <2>3, WorkMachine
<1>9. DefinitionExists'
  <2> SUFFICES ASSUME NEW n \in Names, domain'[n].persistent, domain'[n] # domain[n]
               PROVE  domain'[n].uuid # Nobody
    BY DEF DefinitionExists, Exists
  <2>1. domain[n].persistent => domain[n].uuid # Nobody
    BY DEF DefinitionExists, Exists
  <2>2. domain[n].persistent \in BOOLEAN /\ domain'[n].persistent \in BOOLEAN
    BY <1>1 DEF TypeOK, Machines
  <2>3. \/ domain'[n].uuid = p
        \/ /\ domain'[n].uuid = domain[n].uuid
           /\ domain'[n].persistent = domain[n].persistent
    BY <2>2, WorkMachine
  <2> QED
    BY <2>1, <2>2, <2>3, OwnersDistinct
<1>10. ReadyIsOwn'
  <2>1. ASSUME cmd[p] = "create", pc'[p] = "ok"
        PROVE  [to |-> p, from |-> p] \in phoned \/ p \in Claimed
    BY <2>1, ReadyEvent
  <2>2. UNCHANGED Claimed
    BY <1>0 DEF Claimed
  <2> QED
    BY <1>0, <2>1, <2>2, WorkMovesPc DEF ReadyIsOwn, TypeOK
<1>11. DestroyProgress'
  <2> SUFFICES ASSUME NEW q \in Invocations, cmd[q] = "destroy"
               PROVE  /\ pc'[q] \in {"seedFind", "seedDelete"} =>
                           volume'["disk"][name[q]] = Nobody
                      /\ pc'[q] = "ok" => \A k \in Kinds : volume'[k][name[q]] = Nobody
    BY <1>0 DEF DestroyProgress
  <2>1. CASE q = p
    BY <2>1, WorkDestroys
  <2>2. CASE q # p
    <3>1. pc'[q] = pc[q]
      BY <2>2, WorkMovesPc DEF TypeOK
    <3>2. CASE pc[q] \notin {"seedFind", "seedDelete", "ok"}
      BY <3>1, <3>2
    <3>3. CASE pc[q] \in {"seedFind", "seedDelete", "ok"}
      <4>1. Definer(handle[q], name[q])
        BY <3>3 DEF HandleDefined, Found, DestroySteps
      <4>2. cmd[p] = "create" /\ pc[p] \in {"seedCreate", "diskClone"} => name[p] # name[q]
        BY <4>1, NamesDistinct
        DEF Definer, Maker, OneCreate, CreatesRunners, PastDefine, Terminal
      <4>3. name[q] \in Names
        BY DEF TypeOK
      <4>4. \A k \in Kinds : volume[k][name[q]] = Nobody => volume'[k][name[q]] = Nobody
        <5> SUFFICES ASSUME NEW k \in Kinds, volume[k][name[q]] = Nobody
                     PROVE  volume'[k][name[q]] = Nobody
          OBVIOUS
        <5>1. volume \in [Kinds -> [Names -> Owners \cup {Nobody}]]
          BY DEF TypeOK
        <5>2. ASSUME NEW j \in Kinds, cmd[p] = "create",
                     pc[p] \in {"seedCreate", "diskClone"},
                     volume' = [volume EXCEPT ![j][name[p]] = p]
              PROVE  volume'[k][name[q]] = Nobody
          BY <1>0, <4>2, <4>3, <5>1, <5>2
        <5>3. ASSUME NEW j \in Kinds, volume' = [volume EXCEPT ![j][name[p]] = Nobody]
              PROVE  volume'[k][name[q]] = Nobody
          BY <1>0, <4>3, <5>1, <5>3
        <5> QED
          BY <5>2, <5>3, WorkVolume
      <4> QED
        BY <3>1, <4>4 DEF DestroyProgress, Kinds
    <3> QED
      BY <3>2, <3>3
  <2> QED
    BY <2>1, <2>2
<1>12. Accounted'
  <2> SUFFICES ASSUME NEW k \in Kinds, NEW n \in Names,
                      volume'[k][n] # Nobody, ~domain'[n].persistent
               PROVE  \E q \in Invocations : Accountable(q, n)'
    BY DEF Accounted
  <2>1. \A q \in Invocations \ {p} : Accountable(q, n) => Accountable(q, n)'
    BY <1>0, WorkMovesPc DEF Accountable, TypeOK
  <2>2. CASE volume[k][n] = Nobody
    <3>1. /\ n = name[p] /\ cmd[p] = "create"
          /\ pc'[p] \in {"seedUpload", "diskResize"}
      <4>1. volume \in [Kinds -> [Names -> Owners \cup {Nobody}]]
        BY DEF TypeOK
      <4>2. ASSUME NEW j \in Kinds, volume' = [volume EXCEPT ![j][name[p]] = Nobody]
            PROVE  FALSE
        BY <1>0, <2>2, <4>1, <4>2
      <4>3. ASSUME NEW j \in Kinds, volume' = [volume EXCEPT ![j][name[p]] = p]
            PROVE  n = name[p]
        BY <1>0, <2>2, <4>1, <4>3
      <4> QED
        BY <2>2, <4>2, <4>3, WorkVolume
    <3> QED
      BY <1>0, <3>1 DEF Accountable
  <2>3. CASE domain[n].persistent
    <3>1. n = name[p] /\ DefinitionDropped(p)
      BY <2>3, WorkMachine, OwnersDistinct
    <3> QED
      BY <1>0, <3>1 DEF DefinitionDropped, Accountable
  <2>4. CASE volume[k][n] # Nobody /\ ~domain[n].persistent
    <3>1. PICK q \in Invocations : Accountable(q, n)
      BY <2>4 DEF Accounted
    <3>2. CASE q # p
      BY <2>1, <3>1, <3>2
    <3>3. CASE q = p
      <4>1. n = name[p] /\ pc[p] # "ok" /\ cmd[p] \in {"create", "destroy"}
        BY <3>1, <3>3 DEF Accountable
      <4>2. CASE cmd[p] = "destroy"
        <5>1. pc'[p] # "ok"
          BY <4>1, <4>2, WorkDestroys
        <5> QED
          BY <1>0, <4>1, <4>2, <5>1 DEF Accountable
      <4>3. CASE cmd[p] = "create"
        <5>1. pc[p] \notin {"startLookup", "startCreate", "waiting", "ok"}
          BY <3>1, <3>3, <4>3 DEF Accountable
        <5>2. pc'[p] \notin {"startLookup", "startCreate", "waiting", "ok"}
          BY <2>4, <4>1, <4>3, <5>1, WorkDefines
        <5> QED
          BY <1>0, <4>1, <4>3, <5>2 DEF Accountable
      <4> QED
        BY <4>1, <4>2, <4>3
    <3> QED
      BY <3>2, <3>3
  <2> QED
    BY <2>2, <2>3, <2>4
<1> QED
  BY <1>1, <1>2, <1>5, <1>6, <1>7, <1>8, <1>9, <1>10, <1>11, <1>12

\* A new invocation disturbs nothing: an idle process owns nothing, and a new
\* create gets a name no other create has.
LEMMA BeginOwnership ==
  ASSUME Ownership, NEW p \in Invocations, NEW c \in Commands,
         NEW n \in Names, Begin(p, c, n)
  PROVE  Ownership'
<1> USE DEF Ownership
<1>1. TypeOK'
  BY NextTypes DEF Next
<1>2. /\ UNCHANGED <<domain, volume, handle, phoned>>
      /\ \A q \in Invocations \ {p} :
            pc'[q] = pc[q] /\ cmd'[q] = cmd[q] /\ name'[q] = name[q]
      /\ cmd'[p] = c /\ name'[p] = n /\ pc'[p] = EntryPoint(c)
  BY DEF Begin, TypeOK
<1>3. cmd[p] = "none"
  BY DEF Begin, TypeOK, StepsOf, CreateSteps, DestroySteps, Terminal
<1>4. pc'[p] \in {"seedLookup", "destroyLookup", "stopLookup", "startLookup"}
  BY <1>2 DEF EntryPoint
<1>5. OneCreate' /\ CreatesRunners'
  BY <1>2 DEF Begin, GeneratedName, OneCreate, CreatesRunners
<1>6. \A o, m : /\ Maker(o, m) => Maker(o, m)'
                /\ Definer(o, m) => Definer(o, m)'
  BY <1>2, <1>3, OwnersDistinct DEF Maker, Definer
<1>7. VolumeMade' /\ DomainDefined'
  BY <1>2, <1>6 DEF VolumeMade, DomainDefined, Exists
<1>8. HandleDefined'
  <2>1. ~(Holding(p) \/ Found(p))'
    BY <1>4 DEF Holding, Found, DestroySteps
  <2>2. \A q \in Invocations \ {p} :
          (Holding(q) \/ Found(q))' => Definer(handle[q], name[q])
    BY <1>2 DEF HandleDefined, Holding, Found
  <2> QED
    BY <1>2, <1>6, <2>1, <2>2 DEF HandleDefined
<1>9. BootedOwnSeed' /\ DefinitionExists' /\ PhonedOwn'
  BY <1>2 DEF BootedOwnSeed, DefinitionExists, PhonedOwn, Exists
<1>10. ReadyIsOwn' /\ DestroyProgress'
  BY <1>2, <1>4 DEF ReadyIsOwn, Claimed, DestroyProgress
<1>11. Accounted'
  <2>1. \A q \in Invocations, m \in Names : Accountable(q, m) => Accountable(q, m)'
    BY <1>2, <1>3 DEF Accountable
  <2> QED
    BY <1>2, <2>1 DEF Accounted
<1> QED
  BY <1>1, <1>5, <1>7, <1>8, <1>9, <1>10, <1>11

LEMMA KilledOwnership ==
  ASSUME Ownership, NEW p \in Invocations, Killed(p)
  PROVE  Ownership'
<1> USE DEF Ownership
<1>1. TypeOK'
  BY NextTypes DEF Next
<1>2. /\ UNCHANGED <<domain, volume, handle, phoned, cmd, name>>
      /\ \A q \in Invocations \ {p} : pc'[q] = pc[q]
      /\ pc'[p] = "killed"
  BY DEF Killed, TypeOK, process
<1>3. OneCreate' /\ CreatesRunners' /\ VolumeMade'
  BY <1>2 DEF OneCreate, CreatesRunners, VolumeMade, Maker
<1>4. \A o, m : Definer(o, m) => Definer(o, m)'
  BY <1>2 DEF Definer, Maker, PastDefine, Terminal
<1>5. DomainDefined'
  BY <1>2, <1>4 DEF DomainDefined, Exists
<1>6. HandleDefined'
  <2>1. \A q \in Invocations : (Holding(q) \/ Found(q))' => Holding(q) \/ Found(q)
    BY <1>2 DEF Holding, Found, DestroySteps
  <2> QED
    BY <1>2, <1>4, <2>1 DEF HandleDefined
<1>7. BootedOwnSeed' /\ DefinitionExists' /\ PhonedOwn'
  BY <1>2 DEF BootedOwnSeed, DefinitionExists, PhonedOwn, Exists
<1>8. ReadyIsOwn' /\ DestroyProgress'
  BY <1>2 DEF ReadyIsOwn, Claimed, DestroyProgress
<1>9. Accounted'
  <2>1. \A q \in Invocations, m \in Names : Accountable(q, m) => Accountable(q, m)'
    BY <1>2 DEF Accountable
  <2> QED
    BY <1>2, <2>1 DEF Accounted
<1> QED
  BY <1>1, <1>3, <1>5, <1>6, <1>7, <1>8, <1>9

LEMMA GuestOwnership ==
  ASSUME Ownership, NEW n \in Names,
         GuestPowersOff(n) \/ GuestPhonesHome(n) \/ OtherwisePhonesHome(n)
  PROVE  Ownership'
<1> USE DEF Ownership
<1>1. TypeOK'
  BY NextTypes DEF Next
<1>2. UNCHANGED <<volume, pc, cmd, name, handle>>
  BY DEF GuestPowersOff, GuestPhonesHome, OtherwisePhonesHome, process
<1>3. /\ OneCreate' /\ CreatesRunners' /\ VolumeMade' /\ HandleDefined'
      /\ DestroyProgress'
  BY <1>2 DEF OneCreate, CreatesRunners, VolumeMade, HandleDefined, DestroyProgress,
       Definer, Maker, Holding, Found
<1>4. \A o, m : Definer(o, m) => Definer(o, m)'
  BY <1>2 DEF Definer, Maker
<1>5. \A q, m : Accountable(q, m) => Accountable(q, m)'
  BY <1>2 DEF Accountable
<1>6. CASE GuestPowersOff(n)
  <2>1. \A m \in Names :
          \/ domain'[m] = domain[m]
          \/ domain'[m] = NoDomain /\ ~domain[m].persistent
          \/ /\ domain'[m].uuid = domain[m].uuid /\ domain'[m].seed = Nobody
             /\ domain'[m].persistent = domain[m].persistent
    <3>1. \A m \in Names : m # n => domain'[m] = domain[m]
      BY <1>6 DEF GuestPowersOff, TypeOK
    <3>2. domain'[n] = PoweredOff(domain[n]) /\ domain[n] \in Machines
      BY <1>6 DEF GuestPowersOff, TypeOK
    <3>3. \/ PoweredOff(domain[n]) = NoDomain /\ ~domain[n].persistent
          \/ /\ PoweredOff(domain[n]).uuid = domain[n].uuid
             /\ PoweredOff(domain[n]).seed = Nobody
             /\ PoweredOff(domain[n]).persistent = domain[n].persistent
      BY <3>2, MachineFields
    <3> QED
      BY <3>1, <3>2, <3>3
  <2>2. NoDomain.uuid = Nobody /\ NoDomain.seed = Nobody /\ NoDomain.persistent = FALSE
    BY DEF NoDomain
  <2>3. DomainDefined' /\ BootedOwnSeed'
    BY <1>4, <2>1, <2>2, OwnersDistinct DEF DomainDefined, BootedOwnSeed, Exists
  <2>4. DefinitionExists' /\ Accounted'
    <3>1. \A m \in Names : domain'[m].persistent => domain[m].persistent
                              /\ domain'[m].uuid = domain[m].uuid
      BY <2>1, <2>2
    <3>2. \A m \in Names : domain[m].persistent => domain'[m].persistent
      BY <2>1, <2>2
    <3> QED
      BY <1>2, <1>5, <3>1, <3>2 DEF DefinitionExists, Accounted, Exists
  <2>5. PhonedOwn' /\ ReadyIsOwn'
    BY <1>2, <1>6 DEF PhonedOwn, ReadyIsOwn, Claimed, GuestPowersOff
  <2> QED
    BY <1>1, <1>3, <2>3, <2>4, <2>5
<1>7. CASE GuestPhonesHome(n) \/ OtherwisePhonesHome(n)
  <2>1. GuestPhonesHome(n) => domain[n].uuid = domain[n].seed
    BY DEF GuestPhonesHome, BootedOwnSeed
  <2>2. PhonedOwn'
    BY <1>7, <2>1 DEF PhonedOwn, GuestPhonesHome, OtherwisePhonesHome
  <2>3. phoned \subseteq phoned' /\ UNCHANGED domain
    BY <1>7 DEF GuestPhonesHome, OtherwisePhonesHome
  <2>4. ReadyIsOwn'
    BY <1>2, <2>3 DEF ReadyIsOwn, Claimed
  <2>5. DomainDefined' /\ BootedOwnSeed' /\ DefinitionExists' /\ Accounted'
    BY <1>2, <1>4, <1>5, <2>3
    DEF DomainDefined, BootedOwnSeed, DefinitionExists, Accounted, Exists
  <2> QED
    BY <1>1, <1>3, <2>2, <2>4, <2>5
<1> QED
  BY <1>6, <1>7

LEMMA NextOwnership ==
  ASSUME Ownership, [Next]_vars
  PROVE  Ownership'
<1>1. CASE UNCHANGED vars
  <2>1. TypeOK'
    BY <1>1, NextTypes DEF Ownership
  <2> QED
    BY <1>1, <2>1
    DEF Ownership, vars, process, OneCreate, CreatesRunners, VolumeMade, DomainDefined, HandleDefined,
        BootedOwnSeed, DefinitionExists, PhonedOwn, ReadyIsOwn, Claimed, DestroyProgress,
        Accounted, Accountable, Definer, Maker, Holding, Found, Exists
<1> QED
  BY <1>1, WorkOwnership, BeginOwnership, KilledOwnership, GuestOwnership DEF Next

\* Ownership always holds, with every fault and interleaving.
THEOREM OwnershipHolds == Spec => []Ownership
<1>1. Init => Ownership
  BY InitOwnership
<1>2. Ownership /\ [Next]_vars => Ownership'
  BY NextOwnership
<1> QED
  BY <1>1, <1>2, PTL DEF Spec

(***************************************************************************)
(* The properties that follow.                                             *)
(***************************************************************************)
\* A volume is only ever removed by the create that made it, or by a destroy
\* that looked up the machine made with it.
THEOREM StorageIsOwned == Spec => OnlyOwnStorage
<1>1. Ownership /\ [Next]_vars => [OnlyOwnStorageStep]_vars
  <2> SUFFICES ASSUME Ownership, [Next]_vars, NEW k \in Kinds, NEW n \in Names, Removed(k, n)
               PROVE  \E p \in Invocations :
                         /\ Acts(p) /\ name[p] = n
                         /\ \/ cmd[p] = "create" /\ volume[k][n] = p
                            \/ cmd[p] = "destroy" /\ volume[k][n] = handle[p]
    BY DEF OnlyOwnStorageStep
  <2>1. PICK p \in Invocations : Work(p)
    BY DEF Next, vars, Killed, Begin, GuestPowersOff, GuestPhonesHome,
       OtherwisePhonesHome, Removed
  <2>2. volume \in [Kinds -> [Names -> Owners \cup {Nobody}]] /\ TypeOK
    BY DEF Ownership, TypeOK
  <2>3. /\ name[p] = n /\ cmd[p] \in {"create", "destroy"} /\ Acts(p)
        /\ cmd[p] = "destroy" => Found(p)
    <3>1. ASSUME NEW j \in Kinds, NEW o, volume' = [volume EXCEPT ![j][name[p]] = o]
          PROVE  name[p] = n
      BY <2>2, <3>1 DEF Removed
    <3>2. volume' # volume
      BY DEF Removed
    <3>3. CASE \E j \in Kinds : /\ cmd[p] = "create"
                                /\ pc[p] \in {"seedCreate", "diskClone"}
                                /\ pc'[p] \in {"seedUpload", "diskResize"}
                                /\ volume' = [volume EXCEPT ![j][name[p]] = p]
      BY <3>1, <3>3 DEF Acts
    <3>4. CASE \E j \in Kinds : /\ cmd[p] \in {"create", "destroy"}
                                /\ cmd[p] = "destroy" => Found(p)
                                /\ pc'[p] # pc[p]
                                /\ volume' = [volume EXCEPT ![j][name[p]] = Nobody]
      BY <3>1, <3>4 DEF Acts
    <3> QED
      BY <2>1, <2>2, <3>2, <3>3, <3>4, WorkVolume
  <2>4. Maker(volume[k][n], n)
    BY DEF Ownership, VolumeMade, Removed
  <2>5. CASE cmd[p] = "create"
    <3>1. Maker(p, n)
      BY <2>3, <2>5 DEF Maker
    <3> QED
      BY <2>3, <2>4, <2>5, <3>1, SameMaker DEF Ownership
  <2>6. CASE cmd[p] = "destroy"
    <3>1. Maker(handle[p], n)
      BY <2>3, <2>6 DEF Ownership, HandleDefined, Definer
    <3> QED
      BY <2>3, <2>4, <2>6, <3>1, SameMaker DEF Ownership
  <2> QED
    BY <2>3, <2>5, <2>6
<1> QED
  BY <1>1, OwnershipHolds, PTL DEF Spec, OnlyOwnStorage

\* Storage without a domain always has a create or destroy to answer for it.
THEOREM NoLeakUnnoticed == Spec => []NoSilentLeak
<1>1. Ownership => NoSilentLeak
  BY DEF Ownership, Accounted, DefinitionExists, NoSilentLeak, Blamed, Accountable
<1> QED
  BY <1>1, OwnershipHolds, PTL

\* A destroy that reported success has left neither volume, whatever failed
\* or raced with it.
THEOREM DestroyedForGood == Spec => []DestroyedStorageIsGone
<1>1. Ownership => DestroyedStorageIsGone
  BY DEF Ownership, DestroyProgress, DestroyedStorageIsGone
<1> QED
  BY <1>1, OwnershipHolds, PTL

\* A create that reported Ready heard from the machine it defined, or from
\* somebody who gave the name of that machine (manager.go, acceptPhoneHome).
THEOREM ReadyMeansOwn == Spec => []ReadyIsOwn
<1>1. Ownership => ReadyIsOwn
  BY DEF Ownership
<1> QED
  BY <1>1, OwnershipHolds, PTL

\* Where nothing in a machine dials the host but what its seed runs, a create
\* that reported Ready heard from the very machine it defined.  This is what
\* "Ready" rests on: with one open machine it is not so.
THEOREM ClosedMachinesReport ==
    Spec => [](Open = {} => \A p \in Invocations :
                 cmd[p] = "create" /\ pc[p] = "ok" =>
                     [to |-> p, from |-> p] \in phoned)
<1>1. ASSUME Ownership, Open = {}, NEW p \in Invocations,
             cmd[p] = "create", pc[p] = "ok"
      PROVE  [to |-> p, from |-> p] \in phoned
  <2>1. p \notin Claimed
    BY <1>1, OwnersDistinct DEF Claimed, Ownership, PhonedOwn
  <2> QED
    BY <1>1, <2>1 DEF Ownership, ReadyIsOwn
<1>2. Ownership => (Open = {} => \A p \in Invocations :
                      cmd[p] = "create" /\ pc[p] = "ok" =>
                          [to |-> p, from |-> p] \in phoned)
  BY <1>1
<1> QED
  BY <1>2, OwnershipHolds, PTL

(***************************************************************************)
(* Every create implements Rendezvous.                                     *)
(***************************************************************************)
LEMMA SameVerdicts ==
  ASSUME UNCHANGED phoned, \A q \in Invocations : Verdict(q)' = Verdict(q)
  PROVE  UNCHANGED <<Reported, Claimed, Verdicts>>
<1>1. UNCHANGED <<Reported, Claimed>>
  BY DEF Reported, Claimed
<1>2. UNCHANGED Verdicts
  BY DEF Verdicts
<1> QED
  BY <1>1, <1>2

\* A step of p is one decision of p, or changes no verdict.
LEMMA OneVerdict ==
  ASSUME NEW p \in Invocations, UNCHANGED phoned,
         \A q \in Invocations \ {p} : Verdict(q)' = Verdict(q),
         \/ Verdict(p)' = Verdict(p)
         \/ Verdict(p) = "none" /\ Verdict(p)' = "failed"
         \/ /\ Verdict(p) = "none" /\ Verdict(p)' = "ready"
            /\ [to |-> p, from |-> p] \in phoned \/ p \in Claimed
  PROVE  [Promise!Next]_<<Reported, Claimed, Verdicts>>
<1>0. /\ UNCHANGED <<Reported, Claimed>>
      /\ Verdicts[p] = Verdict(p)
      /\ p \in Reported <=> [to |-> p, from |-> p] \in phoned
      /\ Verdicts' = [Verdicts EXCEPT ![p] = Verdict(p)']
  BY DEF Reported, Claimed, Verdicts
<1>1. CASE Verdict(p)' = Verdict(p)
  <2>1. \A q \in Invocations : Verdict(q)' = Verdict(q)
    BY <1>1
  <2> QED
    BY <2>1, SameVerdicts
<1>2. CASE Verdict(p) = "none" /\ Verdict(p)' = "failed"
  <2>1. Promise!Decide(p, "failed")
    BY <1>0, <1>2 DEF Promise!Decide
  <2> QED
    BY <2>1 DEF Promise!Next
<1>3. CASE /\ Verdict(p) = "none" /\ Verdict(p)' = "ready"
           /\ [to |-> p, from |-> p] \in phoned \/ p \in Claimed
  <2>1. Promise!Decide(p, "ready")
    BY <1>0, <1>3 DEF Promise!Decide
  <2> QED
    BY <1>0, <1>3, <2>1 DEF Promise!Next
<1> QED
  BY <1>1, <1>2, <1>3

LEMMA PromiseWork ==
  ASSUME Ownership, NEW p \in Invocations, Work(p)
  PROVE  [Promise!Next]_<<Reported, Claimed, Verdicts>>
<1>0. TypeOK /\ UNCHANGED <<cmd, name, phoned>> /\ Running(p)
  BY WorkMovesPc DEF Ownership, Work, process
<1>1. \A q \in Invocations \ {p} : Verdict(q)' = Verdict(q)
  BY <1>0, WorkMovesPc DEF Verdict, TypeOK
<1>2. Verdict(p) = "none"
  BY <1>0 DEF Verdict, Running, Terminal
<1>3. Verdict(p)' \in {"none", "failed", "ready"}
  BY DEF Verdict
<1>4. ASSUME Verdict(p)' = "ready"
      PROVE  [to |-> p, from |-> p] \in phoned \/ p \in Claimed
  <2>1. cmd[p] = "create" /\ pc'[p] = "ok"
    BY <1>0, <1>4 DEF Verdict
  <2> QED
    BY <1>0, <2>1, ReadyEvent DEF Ownership
<1> QED
  BY <1>0, <1>1, <1>2, <1>3, <1>4, OneVerdict

LEMMA PromiseNext ==
  ASSUME Ownership, [Next]_vars
  PROVE  [Promise!Next]_<<Reported, Claimed, Verdicts>>
<1>0. TypeOK
  BY DEF Ownership
<1>1. ASSUME NEW p \in Invocations, Killed(p)
      PROVE  [Promise!Next]_<<Reported, Claimed, Verdicts>>
  <2>1. /\ UNCHANGED <<cmd, phoned>> /\ Running(p) /\ pc'[p] = "killed"
        /\ \A q \in Invocations \ {p} : pc'[q] = pc[q]
    BY <1>0, <1>1 DEF Killed, process, TypeOK
  <2>2. \A q \in Invocations \ {p} : Verdict(q)' = Verdict(q)
    BY <2>1 DEF Verdict
  <2>3. Verdict(p) = "none" /\ Verdict(p)' \in {"none", "failed"}
    BY <2>1 DEF Verdict, Running, Terminal
  <2> QED
    BY <2>1, <2>2, <2>3, OneVerdict
<1>2. ASSUME NEW p \in Invocations, NEW c \in Commands, NEW n \in Names, Begin(p, c, n)
      PROVE  UNCHANGED phoned /\ \A q \in Invocations : Verdict(q)' = Verdict(q)
  <2>1. /\ UNCHANGED phoned /\ pc[p] = "idle" /\ pc'[p] \notin Terminal
        /\ \A q \in Invocations \ {p} : pc'[q] = pc[q] /\ cmd'[q] = cmd[q]
    BY <1>0, <1>2 DEF Begin, EntryPoint, TypeOK, Terminal
  <2> QED
    BY <2>1 DEF Verdict, Terminal
<1>3. ASSUME NEW n \in Names, GuestPhonesHome(n)
      PROVE  [Promise!Next]_<<Reported, Claimed, Verdicts>>
  <2> DEFINE p == domain[n].seed
  <2>1. /\ p \in Invocations /\ domain[n].uuid = p
        /\ phoned' = phoned \cup {[to |-> p, from |-> p]}
        /\ UNCHANGED <<pc, cmd>>
    BY <1>3 DEF GuestPhonesHome, Ownership, BootedOwnSeed, process
  <2>2. Reported' = Reported \cup {p} /\ UNCHANGED Claimed
    BY <2>1, OwnersDistinct DEF Reported, Claimed
  <2>3. \A q \in Invocations : Verdict(q)' = Verdict(q)
    BY <2>1 DEF Verdict
  <2>4. UNCHANGED Verdicts
    BY <2>3 DEF Verdicts
  <2>5. Promise!Report(p)
    BY <2>2, <2>4 DEF Promise!Report
  <2> QED
    BY <2>1, <2>5 DEF Promise!Next
<1>4. ASSUME NEW n \in Names, OtherwisePhonesHome(n)
      PROVE  [Promise!Next]_<<Reported, Claimed, Verdicts>>
  <2>1. PICK p \in Invocations : phoned' = phoned \cup {[to |-> p, from |-> Nobody]}
    BY <1>4 DEF OtherwisePhonesHome
  <2>2. Claimed' = Claimed \cup {p} /\ UNCHANGED Reported
    BY <2>1, OwnersDistinct DEF Reported, Claimed
  <2>3. UNCHANGED Verdicts
    BY <1>4 DEF OtherwisePhonesHome, process, Verdicts, Verdict
  <2>4. Promise!Claim(p)
    BY <2>2, <2>3 DEF Promise!Claim
  <2> QED
    BY <2>1, <2>4 DEF Promise!Next
<1>5. ASSUME UNCHANGED <<phoned, pc, cmd>>
      PROVE  \A q \in Invocations : Verdict(q)' = Verdict(q)
  BY <1>5 DEF Verdict
<1>6. CASE \E p \in Invocations, c \in Commands, n \in Names : Begin(p, c, n)
  BY <1>2, <1>6, SameVerdicts
<1>7. CASE UNCHANGED <<phoned, pc, cmd>>
  BY <1>5, <1>7, SameVerdicts
<1> QED
  BY <1>1, <1>3, <1>4, <1>6, <1>7, PromiseWork DEF Next, vars, process, GuestPowersOff

\* A create that said Ready had the phone-home of the very machine it defined or
\* a report of somebody else in its name, and says one thing only, however many
\* commands of any kind are at work on any names, whatever fails and whatever the
\* guests send (manager.go, WaitForPhoneHome and acceptPhoneHome).
THEOREM CreatesKeepPromise == Spec => KeepsPromise
<1>1. Init => Promise!Init
  BY DEF Init, Promise!Init, Reported, Claimed, Verdicts, Verdict
<1>2. Ownership /\ [Next]_vars =>
        [Promise!Next]_<<Reported, Claimed, Verdicts>>
  BY PromiseNext
<1> QED
  BY <1>1, <1>2, OwnershipHolds, PTL DEF Spec, KeepsPromise, Promise!Spec

============================================================================
