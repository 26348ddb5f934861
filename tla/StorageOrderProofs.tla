------------------------ MODULE StorageOrderProofs ------------------------
(***************************************************************************)
(* Theorems about RunnerLifecycle: the commands keep the order of          *)
(* StorageOrder, whatever number of them run at once and whatever fails,   *)
(* and where no call fails nothing is left behind.                         *)
(***************************************************************************)
EXTENDS RunnerLifecycleProofs

(***************************************************************************)
(* What one step of an invocation can do to a definition and to storage.   *)
(***************************************************************************)
\* Only the create that defines a domain gives a name its definition.
LEMMA DefinitionAppears ==
  ASSUME TypeOK, NEW p \in Invocations, Work(p), NEW n \in Names,
         ~domain[n].persistent, domain'[n].persistent
  PROVE  n = name[p] /\ cmd[p] = "create" /\ pc[p] = "domDefine"
<1>1. n = name[p] /\ domain[n] \in Machines /\ domain \in [Names -> Machines]
  BY WorkDomain DEF SetDomain, TypeOK
<1>2. CASE SetDomain(p, PoweredOff(domain[name[p]]))
  BY <1>1, <1>2 DEF SetDomain, PoweredOff, NoDomain
<1>3. CASE SetDomain(p, Undefined(domain[name[p]]))
  BY <1>1, <1>3 DEF SetDomain, Undefined, NoDomain, Machines
<1>4. CASE SetDomain(p, Booted(name[p]))
  BY <1>1, <1>4 DEF SetDomain, Booted, Machines
<1> QED
  BY <1>1, <1>2, <1>3, <1>4, WorkDomain

\* A create that builds makes its volumes one by one, never finds one in its
\* way, and ends by defining the domain; when a call fails it gives up, or
\* deletes the volume it was to fill and gives up then.
LEMMA CreateStep ==
  ASSUME TypeOK, NEW p \in Invocations, Work(p), cmd[p] = "create",
         pc[p] \in BuildCalls, Storage(name[p]) = MadeBy(pc[p]), ~Exists(name[p])
  PROVE  \/ /\ pc'[p] \in BuildCalls /\ MadeBy(pc'[p]) = MadeBy(pc[p])
            /\ UNCHANGED <<domain, volume>>
         \/ \E k \in Kinds :
              /\ pc'[p] \in Building /\ MadeBy(pc'[p]) = MadeBy(pc[p]) \cup {k}
              /\ k \notin MadeBy(pc[p])
              /\ volume' = [volume EXCEPT ![k][name[p]] = p]
              /\ UNCHANGED domain
         \/ /\ pc[p] = "domDefine" /\ pc'[p] = "startLookup"
            /\ domain'[name[p]].persistent
            /\ SetDomain(p, domain'[name[p]])
            /\ UNCHANGED volume
         \/ MayFail /\ pc'[p] = "error" /\ UNCHANGED <<domain, volume>>
         \/ \E k \in MadeBy(pc[p]) :
              /\ MayFail /\ pc'[p] = "error" /\ UNCHANGED domain
              /\ volume' = [volume EXCEPT ![k][name[p]] = Nobody]
<1>1. /\ volume["seed"][name[p]] # Nobody <=> "seed" \in MadeBy(pc[p])
      /\ volume["disk"][name[p]] # Nobody <=> "disk" \in MadeBy(pc[p])
  BY DEF Storage, Kinds
<1>2. CASE CreateSeedVolume(p)
  BY <1>1, <1>2
  DEF CreateSeedVolume, FindVolume, RemoveVolume, MakeVolume, UseVolume, Step, Fails,
      TypeOK, Building, Discarding, BuildCalls, MadeBy, Kinds
<1>3. CASE CloneVolume(p)
  BY <1>1, <1>3
  DEF CloneVolume, FindVolume, RemoveVolume, MakeVolume, UseVolume, Step, Fails,
      TypeOK, Building, Discarding, BuildCalls, MadeBy, Kinds
<1>4. CASE CreateDomain(p)
  <2>1. CASE DefineDomain(p)
    <3>1. name[p] \in Names /\ domain \in [Names -> Machines]
      BY RunningNamed, WorkMovesPc DEF TypeOK
    <3>2. /\ pc[p] = "domDefine" /\ pc'[p] = "startLookup" /\ UNCHANGED volume
          /\ SetDomain(p, [NoDomain EXCEPT !.uuid = p, !.persistent = TRUE])
      BY <2>1 DEF DefineDomain, Step, TypeOK
    <3>3. domain'[name[p]] = [NoDomain EXCEPT !.uuid = p, !.persistent = TRUE]
      BY <3>1, <3>2 DEF SetDomain
    <3>4. domain'[name[p]].persistent
      BY <3>3 DEF NoDomain
    <3> QED
      BY <3>2, <3>3, <3>4
  <2> QED
    BY <1>4, <2>1
    DEF CreateDomain, Lookup, KillIgnored, DropIgnored, Step, TypeOK, Building,
        Discarding, BuildCalls, MadeBy
<1>5. CASE CallFails(p)
  BY <1>5
  DEF CallFails, Fails, OnFailure, TypeOK, Building, Discarding, BuildCalls, MadeBy
<1> QED
  BY <1>2, <1>3, <1>4, <1>5
  DEF Work, StartDomain, Lookup, BootDomain, WaitForPhoneHome, StopDomain,
      RequestShutdown, Destroy, DestroyDomain, KillIgnored, DropIgnored, UndefineDomain,
      DeleteVolume, FindVolume, RemoveVolume, Step, Building, Discarding, BuildCalls

\* start, stop, health and a create past its definition touch neither the
\* volumes nor what is defined.
LEMMA OtherStep ==
  ASSUME TypeOK, NEW p \in Invocations, Work(p), cmd[p] # "destroy",
         cmd[p] = "create" => pc[p] \in PastDefine
  PROVE  /\ UNCHANGED volume
         /\ \A n \in Names : domain'[n].persistent = domain[n].persistent
<1>1. StartDomain(p) \/ WaitForPhoneHome(p) \/ StopDomain(p) \/ CallFails(p)
  BY CommandsKnown
  DEF Work, CreateSeedVolume, CloneVolume, CreateDomain, Destroy,
      DestroyDomain, DeleteVolume, Lookup, KillIgnored, DropIgnored, UndefineDomain,
      DefineDomain, FindVolume, RemoveVolume, MakeVolume, UseVolume, Step, PastDefine,
      TypeOK, StepsOf, CreateSteps, DestroySteps, Terminal
<1>2. /\ UNCHANGED volume
      /\ UNCHANGED domain \/ SetDomain(p, Booted(name[p]))
  BY <1>1
  DEF StartDomain, Lookup, BootDomain, WaitForPhoneHome, StopDomain, RequestShutdown,
      CallFails, Fails
<1>3. name[p] \in Names /\ domain \in [Names -> Machines]
  BY RunningNamed, WorkMovesPc DEF TypeOK
<1>4. Booted(name[p]).persistent = domain[name[p]].persistent
  BY <1>3 DEF Booted, Machines
<1> QED
  BY <1>2, <1>3, <1>4 DEF SetDomain

\* A destroy deletes volumes, one by one, after it came to them, and drops a
\* definition before.
LEMMA DestroyRemoves ==
  ASSUME TypeOK, NEW p \in Invocations, Work(p), cmd[p] = "destroy"
  PROVE  \/ UNCHANGED volume
         \/ /\ pc[p] \in {"diskDelete", "seedDelete"}
            /\ UNCHANGED domain
            /\ \E k \in Storage(name[p]) :
                  volume' = [volume EXCEPT ![k][name[p]] = Nobody]
<1>1. Destroy(p) \/ CallFails(p)
  BY CommandsKnown
  DEF Work, CreateSeedVolume, CloneVolume, CreateDomain, StartDomain,
      WaitForPhoneHome, StopDomain, Lookup, KillIgnored, DropIgnored, BootDomain,
      DefineDomain, FindVolume, RemoveVolume, MakeVolume, UseVolume, RequestShutdown,
      Step, TypeOK, StepsOf, CreateSteps, DestroySteps, Terminal
<1> QED
  BY <1>1
  DEF Destroy, DestroyDomain, DeleteVolume, Lookup, KillIgnored, DropIgnored,
      UndefineDomain, FindVolume, RemoveVolume, CallFails, Fails, Storage, Kinds

\* A volume is made or removed by a create that builds, or removed by a destroy
\* that came to it.
LEMMA RemovedWhen ==
  ASSUME TypeOK, NEW p \in Invocations, Work(p),
         NEW k \in Kinds, NEW n \in Names, volume'[k][n] # volume[k][n]
  PROVE  /\ n = name[p]
         /\ \/ cmd[p] = "create" /\ pc[p] \notin PastDefine
            \/ cmd[p] = "destroy" /\ pc[p] \in {"diskDelete", "seedDelete"}
<1>0. volume \in [Kinds -> [Names -> Owners \cup {Nobody}]]
  BY DEF TypeOK
<1>1. n = name[p]
  <2>1. CASE \E j \in Kinds : volume' = [volume EXCEPT ![j][name[p]] = p]
    BY <1>0, <2>1
  <2>2. CASE \E j \in Kinds : volume' = [volume EXCEPT ![j][name[p]] = Nobody]
    BY <1>0, <2>2
  <2>3. volume' # volume
    OBVIOUS
  <2> QED
    BY <2>1, <2>2, <2>3, WorkVolume
<1>2. CASE cmd[p] = "destroy"
  BY <1>1, <1>2, DestroyRemoves
<1>3. CASE cmd[p] # "destroy"
  <2>1. ~(cmd[p] = "create" => pc[p] \in PastDefine)
    BY <1>3, OtherStep
  <2> QED
    BY <1>1, <2>1
<1> QED
  BY <1>2, <1>3

\* A destroy holds the one machine its name ever had.
LEMMA HandleFits ==
  ASSUME Ownership, NEW p \in Invocations, Found(p), domain[name[p]].persistent
  PROVE  Resolves(p)
<1>1. name[p] \in Names
  BY DEF Ownership, TypeOK, Found
<1>2. Maker(handle[p], name[p]) /\ Maker(domain[name[p]].uuid, name[p])
  BY <1>1 DEF Ownership, HandleDefined, DomainDefined, DefinitionExists, Definer
<1> QED
  BY <1>1, <1>2, SameMaker DEF Ownership, Resolves

\* A destroy finds its machine, drops the definition, and then comes to each
\* volume in turn; it fails only at a volume that another destroy deleted.
LEMMA DestroyStep ==
  ASSUME Ownership, UndefinedByThen, ~MayFail, NEW p \in Invocations, Work(p),
         cmd[p] = "destroy"
  PROVE  /\ name[p] \in Names
         /\ \A n \in Names \ {name[p]} : domain'[n] = domain[n]
         /\ \/ /\ pc[p] \in {"destroyLookup", "killDomain"}
               /\ pc'[p] \in {"killDomain", "undefine", "error"}
               /\ UNCHANGED volume
               /\ domain'[name[p]].persistent = domain[name[p]].persistent
            \/ /\ pc[p] \in {"undefine", "undefineAgain"}
               /\ pc'[p] \in {"undefineAgain", "diskFind"}
               /\ UNCHANGED volume /\ ~domain'[name[p]].persistent
               /\ pc'[p] = "undefineAgain" => ~domain[name[p]].persistent
            \/ /\ pc[p] = "diskFind" /\ UNCHANGED <<domain, volume>>
               /\ pc'[p] = IF volume["disk"][name[p]] # Nobody
                           THEN "diskDelete" ELSE "seedFind"
            \/ /\ pc[p] = "diskDelete" /\ UNCHANGED domain
               /\ \/ /\ volume["disk"][name[p]] # Nobody /\ pc'[p] = "seedFind"
                     /\ volume' = [volume EXCEPT !["disk"][name[p]] = Nobody]
                  \/ /\ volume["disk"][name[p]] = Nobody /\ pc'[p] = "error"
                     /\ UNCHANGED volume
            \/ /\ pc[p] = "seedFind" /\ UNCHANGED <<domain, volume>>
               /\ pc'[p] = IF volume["seed"][name[p]] # Nobody
                           THEN "seedDelete" ELSE "ok"
            \/ /\ pc[p] = "seedDelete" /\ UNCHANGED domain
               /\ \/ /\ volume["seed"][name[p]] # Nobody /\ pc'[p] = "ok"
                     /\ volume' = [volume EXCEPT !["seed"][name[p]] = Nobody]
                  \/ /\ volume["seed"][name[p]] = Nobody /\ pc'[p] = "error"
                     /\ UNCHANGED volume
<1>1. /\ name[p] \in Names /\ domain \in [Names -> Machines] /\ TypeOK
      /\ domain[name[p]] \in Machines /\ Running(p)
  BY WorkMovesPc, RunningNamed DEF Ownership, TypeOK
<1>2. \A n \in Names \ {name[p]} : domain'[n] = domain[n]
  BY <1>1, WorkDomain DEF SetDomain
<1>3. Destroy(p)
  BY <1>1, CommandsKnown
  DEF Work, CreateSeedVolume, CloneVolume, CreateDomain, StartDomain, CallFails,
      WaitForPhoneHome, StopDomain, Lookup, KillIgnored, DropIgnored, BootDomain,
      DefineDomain, FindVolume, RemoveVolume, MakeVolume, UseVolume, RequestShutdown,
      Step, TypeOK, StepsOf, CreateSteps, DestroySteps, Terminal
<1>4. CASE DeleteVolume(p, "disk", "diskFind", "diskDelete", "seedFind")
  BY <1>1, <1>2, <1>4
  DEF DeleteVolume, FindVolume, RemoveVolume, Fails, OnFailure, Step, TypeOK
<1>5. CASE DeleteVolume(p, "seed", "seedFind", "seedDelete", "ok")
  BY <1>1, <1>2, <1>5
  DEF DeleteVolume, FindVolume, RemoveVolume, Fails, OnFailure, Step, TypeOK
<1>6. CASE Lookup(p, "destroyLookup", "killDomain", "error")
  BY <1>1, <1>2, <1>6 DEF Lookup, Step, TypeOK
<1>7. CASE KillIgnored(p, "killDomain", "undefine")
  <2>1. /\ pc[p] = "killDomain" /\ pc'[p] = "undefine" /\ UNCHANGED volume
        /\ UNCHANGED domain \/ SetDomain(p, PoweredOff(domain[name[p]]))
    BY <1>1, <1>7 DEF KillIgnored, Step, TypeOK
  <2>2. PoweredOff(domain[name[p]]).persistent = domain[name[p]].persistent
    BY <1>1 DEF PoweredOff, NoDomain, Machines
  <2>3. domain'[name[p]].persistent = domain[name[p]].persistent
    BY <1>1, <2>1, <2>2 DEF SetDomain
  <2> QED
    BY <1>1, <1>2, <2>1, <2>3
<1>8. ASSUME UndefineDomain(p) \/ DropIgnored(p, "undefineAgain", "diskFind")
      PROVE  /\ pc[p] \in {"undefine", "undefineAgain"}
             /\ pc'[p] \in {"undefineAgain", "diskFind"}
             /\ UNCHANGED volume
             /\ \/ SetDomain(p, Undefined(domain[name[p]]))
                \/ UNCHANGED domain /\ pc[p] = "undefineAgain" /\ pc'[p] = "diskFind"
                \/ UNCHANGED domain /\ ~(Resolves(p) /\ domain[name[p]].persistent)
             /\ pc'[p] = "undefineAgain" =>
                   pc[p] = "undefine" /\ ~(Resolves(p) /\ domain[name[p]].persistent)
  BY <1>1, <1>8
  DEF UndefineDomain, DropIgnored, Fails, OnFailure, Step, TypeOK
<1>9. CASE UndefineDomain(p) \/ DropIgnored(p, "undefineAgain", "diskFind")
  <2>1. Undefined(domain[name[p]]).persistent = FALSE
    BY <1>1 DEF Undefined, NoDomain, Machines
  <2>2. Found(p)
    BY <1>8, <1>9 DEF Found, DestroySteps
  <2>3. pc[p] = "undefineAgain" => ~domain[name[p]].persistent
    BY DEF UndefinedByThen, PastUndefine
  <2>4. ~(Resolves(p) /\ domain[name[p]].persistent) => ~domain[name[p]].persistent
    BY <2>2, HandleFits
  <2>5. ~domain'[name[p]].persistent
    BY <1>1, <1>8, <1>9, <2>1, <2>3, <2>4 DEF SetDomain
  <2> QED
    BY <1>1, <1>2, <1>8, <1>9, <2>4, <2>5
<1> QED
  BY <1>3, <1>4, <1>5, <1>6, <1>7, <1>9 DEF Destroy, DestroyDomain

(***************************************************************************)
(* What other processes, the guests and a kill signal leave alone.         *)
(***************************************************************************)
\* A create that still builds shares its name with no destroy that found a
\* machine.
LEMMA BuildsAlone ==
  ASSUME Ownership, NEW p \in Invocations, NEW q \in Invocations, name[p] = name[q],
         cmd[p] = "create", pc[p] \notin PastDefine
  PROVE  /\ ~Found(q)
         /\ ~Exists(name[p])
<1>1. name[p] \in Names /\ Maker(p, name[p]) /\ p # Host
  BY OwnersDistinct DEF Ownership, CreatesRunners, Names, Maker
<1>2. ~Definer(p, name[p])
  BY DEF Definer
<1>3. \A o : Definer(o, name[p]) => o = p
  BY <1>1, SameMaker DEF Ownership, Definer
<1> QED
  BY <1>1, <1>2, <1>3 DEF Ownership, HandleDefined, DomainDefined

\* What is no step of Work changes no definition.
LEMMA OthersKeepDefinitions ==
  ASSUME TypeOK, [Next]_vars, \A p \in Invocations : ~Work(p)
  PROVE  /\ UNCHANGED volume
         /\ \A n \in Names : domain'[n].persistent = domain[n].persistent
<1>1. CASE \E n \in Names : GuestPowersOff(n)
  <2>1. PICK n \in Names : GuestPowersOff(n)
    BY <1>1
  <2>2. PoweredOff(domain[n]).persistent = domain[n].persistent
    BY DEF PoweredOff, NoDomain, TypeOK, Machines
  <2> QED
    BY <2>1, <2>2 DEF GuestPowersOff, TypeOK
<1> QED
  BY <1>1 DEF Next, vars, process, Killed, Begin, GuestPhonesHome, OtherwisePhonesHome

(***************************************************************************)
(* A create builds undisturbed, whatever fails and whoever else is at work.*)
(***************************************************************************)
LEMMA BuildsInit == Init => CreateBuilds
BY DEF Init, CreateBuilds

LEMMA WorkBuilds ==
  ASSUME IInv, NEW p \in Invocations, Work(p), NEW q \in Invocations,
         cmd[q] = "create", pc'[q] \notin PastDefine
  PROVE  pc'[q] \in BuildCalls /\ Storage(name[q])' = MadeBy(pc'[q])
<1>0. /\ TypeOK /\ volume \in [Kinds -> [Names -> Owners \cup {Nobody}]]
      /\ UNCHANGED <<cmd, name>>
  BY DEF IInv, Ownership, TypeOK, Work, process
<1>1. pc[q] \notin PastDefine
  BY <1>0, WorkMovesPc DEF TypeOK
<1>2. pc[q] \in BuildCalls /\ Storage(name[q]) = MadeBy(pc[q]) /\ ~Exists(name[q])
  BY <1>1, BuildsAlone DEF IInv, CreateBuilds
<1>3. CASE q = p
  <2>1. ASSUME NEW k \in Kinds, k \notin MadeBy(pc[p]),
               MadeBy(pc'[p]) = MadeBy(pc[p]) \cup {k},
               volume' = [volume EXCEPT ![k][name[p]] = p]
        PROVE  Storage(name[p])' = MadeBy(pc'[p])
    <3>1. name[p] \in Names
      BY <1>0, WorkMovesPc, RunningNamed
    <3>2. \A j \in Kinds : volume'[j][name[p]] =
             IF j = k THEN p ELSE volume[j][name[p]]
      BY <1>0, <2>1, <3>1
    <3> QED
      BY <1>0, <1>2, <1>3, <2>1, <3>2, OwnersDistinct DEF Storage
  <2>2. CASE /\ pc'[p] \in BuildCalls /\ MadeBy(pc'[p]) = MadeBy(pc[p])
             /\ UNCHANGED <<domain, volume>>
    BY <1>0, <1>2, <1>3, <2>2 DEF Storage
  <2>3. CASE \E k \in Kinds :
                /\ pc'[p] \in Building /\ MadeBy(pc'[p]) = MadeBy(pc[p]) \cup {k}
                /\ k \notin MadeBy(pc[p])
                /\ volume' = [volume EXCEPT ![k][name[p]] = p]
    BY <1>3, <2>1, <2>3 DEF BuildCalls
  <2>4. CASE pc'[p] \in {"startLookup", "error"}
    BY <1>3, <2>4 DEF PastDefine, Terminal
  <2> QED
    BY <1>0, <1>2, <1>3, <2>2, <2>3, <2>4, CreateStep
<1>4. CASE q # p
  <2>1. pc'[q] = pc[q]
    BY <1>0, <1>4, WorkMovesPc DEF TypeOK
  <2>2. ASSUME NEW k \in Kinds, volume'[k][name[q]] # volume[k][name[q]]
        PROVE  FALSE
    <3>1. /\ name[q] \in Names /\ name[q] = name[p]
          /\ \/ cmd[p] = "create"
             \/ cmd[p] = "destroy" /\ pc[p] \in {"diskDelete", "seedDelete"}
      BY <1>0, <2>2, RemovedWhen DEF TypeOK
    <3>2. cmd[p] # "create"
      BY <1>4, <3>1 DEF IInv, Ownership, OneCreate
    <3>3. Found(p)
      BY <3>1, <3>2 DEF Found, DestroySteps
    <3> QED
      BY <1>1, <3>1, <3>3, BuildsAlone DEF IInv
  <2> QED
    BY <1>0, <1>2, <2>1, <2>2 DEF Storage
<1> QED
  BY <1>3, <1>4

LEMMA BuildsNext ==
  ASSUME IInv, [Next]_vars
  PROVE  CreateBuilds'
<1> SUFFICES ASSUME NEW q \in Invocations, cmd'[q] = "create", pc'[q] \notin PastDefine
             PROVE  pc'[q] \in BuildCalls /\ Storage(name[q])' = MadeBy(pc'[q])
  BY DEF CreateBuilds, MadeBy
<1>0. TypeOK
  BY DEF IInv, Ownership
<1>1. CASE \E p \in Invocations : Work(p)
  BY <1>1, WorkBuilds DEF Work, process
<1>2. CASE \E p \in Invocations, c \in Commands, n \in Names : Begin(p, c, n)
  <2>1. PICK p \in Invocations, c \in Commands, n \in Names : Begin(p, c, n)
    BY <1>2
  <2>2. /\ UNCHANGED volume /\ cmd'[p] = c /\ name'[p] = n /\ pc'[p] = EntryPoint(c)
        /\ q # p => pc'[q] = pc[q] /\ cmd'[q] = cmd[q] /\ name'[q] = name[q]
    BY <1>0, <2>1 DEF Begin, TypeOK
  <2>3. CASE q # p
    BY <2>2, <2>3 DEF IInv, CreateBuilds, Storage
  <2>4. CASE q = p
    <3>1. /\ n \in RunnerNames /\ c = "create"
          /\ \A r \in Invocations : name[r] = n => cmd[r] # "create"
      BY <2>1, <2>2, <2>4 DEF Begin, GeneratedName
    <3>2. Storage(n) = {}
      BY <3>1, NamesDistinct DEF IInv, Ownership, VolumeMade, Maker, Storage, Names
    <3> QED
      BY <2>2, <2>4, <3>1, <3>2 DEF EntryPoint, Building, BuildCalls, MadeBy, Storage
  <2> QED
    BY <2>3, <2>4
<1>3. CASE \E p \in Invocations : Killed(p)
  BY <1>0, <1>3 DEF Killed, process, IInv, CreateBuilds, Storage, TypeOK, PastDefine, Terminal
<1>4. CASE UNCHANGED <<volume, pc, cmd, name>>
  BY <1>4 DEF IInv, CreateBuilds, Storage
<1> QED
  BY <1>1, <1>2, <1>3, <1>4 DEF Next, vars, process, GuestPowersOff, GuestPhonesHome, OtherwisePhonesHome

\* The inductive invariant always holds, with every fault and interleaving.
THEOREM Inductive == Spec => []IInv
<1>1. Init => CreateBuilds
  BY BuildsInit
<1>2. Ownership /\ CreateBuilds /\ [Next]_vars => CreateBuilds'
  BY BuildsNext DEF IInv
<1>3. Ownership /\ CreateBuilds => IInv
  BY DEF IInv
<1> QED
  BY <1>1, <1>2, <1>3, OwnershipHolds, PTL DEF Spec

(***************************************************************************)
(* Where no call fails, a definition that was dropped stays dropped.       *)
(***************************************************************************)
LEMMA UndefinedInit == Init => UndefinedByThen
BY DEF Init, UndefinedByThen

LEMMA UndefinedNext ==
  ASSUME Ownership, UndefinedByThen, ~MayFail, [Next]_vars
  PROVE  UndefinedByThen'
<1> SUFFICES ASSUME NEW q \in Invocations, cmd'[q] = "destroy", pc'[q] \in PastUndefine
             PROVE  ~domain'[name'[q]].persistent
  BY DEF UndefinedByThen
<1>0. TypeOK
  BY DEF Ownership
<1>1. CASE \E p \in Invocations : Work(p)
  <2>1. PICK p \in Invocations : Work(p)
    BY <1>1
  <2>2. UNCHANGED <<cmd, name>> /\ name[q] \in Names
    BY <1>0, <2>1 DEF Work, process, TypeOK
  <2>3. CASE q = p
    <3>1. pc[p] \in PastUndefine \/ ~domain'[name[p]].persistent
      BY <2>1, <2>2, <2>3, DestroyStep DEF PastUndefine
    <3>2. CASE pc[p] \in PastUndefine
      BY <1>0, <2>1, <2>2, <2>3, <3>2, DefinitionAppears DEF UndefinedByThen
    <3> QED
      BY <2>2, <2>3, <3>1, <3>2
  <2>4. CASE q # p
    <3>1. pc'[q] = pc[q]
      BY <1>0, <2>1, <2>4, WorkMovesPc DEF TypeOK
    <3>2. ~domain[name[q]].persistent /\ Found(q)
      BY <2>2, <3>1 DEF UndefinedByThen, PastUndefine, Found, DestroySteps
    <3>3. ASSUME domain'[name[q]].persistent PROVE FALSE
      <4>1. name[q] = name[p] /\ cmd[p] = "create" /\ pc[p] = "domDefine"
        BY <1>0, <2>1, <2>2, <3>2, <3>3, DefinitionAppears
      <4> QED
        BY <3>2, <4>1, BuildsAlone DEF PastDefine, Terminal
    <3> QED
      BY <2>2, <3>3
  <2> QED
    BY <2>3, <2>4
<1>2. CASE \A p \in Invocations : ~Work(p)
  <2>1. pc[q] \in PastUndefine /\ cmd[q] = "destroy" /\ name'[q] = name[q]
    BY <1>0, <1>2
    DEF Next, vars, process, Killed, Begin, EntryPoint, GuestPhonesHome, OtherwisePhonesHome, GuestPowersOff,
        PastUndefine, TypeOK
  <2> QED
    BY <1>0, <1>2, <2>1, OthersKeepDefinitions DEF UndefinedByThen, TypeOK
<1> QED
  BY <1>1, <1>2

\* Where no call fails, destroy deletes a volume only once its machine has no
\* definition, although others start, stop or destroy it, or are killed, in
\* between (domain.go:170-180, manager.go:240-255).
THEOREM DeletesUndefined ==
  ASSUME ~MayFail PROVE Spec => DeletesOnlyUndefined
<1>1. Ownership /\ UndefinedByThen /\ [Next]_vars => [DeletesOnlyUndefinedStep]_vars
  <2> SUFFICES ASSUME Ownership, UndefinedByThen, [Next]_vars, NEW k \in Kinds,
                      NEW n \in Names, Removed(k, n)
               PROVE  ~domain[n].persistent
    BY DEF DeletesOnlyUndefinedStep
  <2>1. PICK p \in Invocations : Work(p)
    BY OthersKeepDefinitions DEF Removed, Ownership
  <2>2. /\ n = name[p]
        /\ \/ cmd[p] = "create" /\ pc[p] \notin PastDefine
           \/ cmd[p] = "destroy" /\ pc[p] \in {"diskDelete", "seedDelete"}
    BY <2>1, RemovedWhen DEF Removed, Ownership
  <2>3. CASE cmd[p] = "create"
    BY <2>2, <2>3, BuildsAlone DEF Ownership, DefinitionExists
  <2>4. CASE cmd[p] = "destroy"
    BY <2>2, <2>4 DEF UndefinedByThen, PastUndefine
  <2> QED
    BY <2>2, <2>3, <2>4
<1>2. Init => UndefinedByThen
  BY UndefinedInit
<1>3. Ownership /\ UndefinedByThen /\ [Next]_vars => UndefinedByThen'
  BY UndefinedNext
<1> QED
  BY <1>1, <1>2, <1>3, OwnershipHolds, PTL DEF Spec, DeletesOnlyUndefined

(***************************************************************************)
(* What rests is whole or gone: the rest of CalmIInv.                      *)
(***************************************************************************)
LEMMA CalmInit == Init => DefinedIsWhole /\ BuiltOrDestroyed
<1> SUFFICES ASSUME Init PROVE DefinedIsWhole /\ BuiltOrDestroyed
  OBVIOUS
<1>1. \A n \in RunnerNames :
        ~domain[n].persistent /\ volume["disk"][n] = Nobody /\ volume["seed"][n] = Nobody
  BY NamesDistinct DEF Init, NoDomain, Names, Kinds
<1> QED
  BY <1>1 DEF Init, DefinedIsWhole, BuiltOrDestroyed

\* A definition appears with the storage complete, and as long as it is there
\* nothing takes the storage away.
LEMMA WholeNext ==
  ASSUME Ownership, UndefinedByThen, CreateBuilds, DefinedIsWhole, ~MayFail, [Next]_vars
  PROVE  DefinedIsWhole'
<1> SUFFICES ASSUME NEW n \in RunnerNames, domain'[n].persistent
             PROVE  Storage(n)' = Kinds
  BY DEF DefinedIsWhole
<1>0. TypeOK /\ n \in Names
  BY DEF Ownership, Names
<1>1. CASE \E p \in Invocations : Work(p)
  <2>1. PICK p \in Invocations : Work(p)
    BY <1>1
  <2>2. CASE domain[n].persistent
    <3>1. Storage(n) = Kinds /\ Exists(n)
      BY <1>0, <2>2 DEF DefinedIsWhole, Ownership, DefinitionExists
    <3>2. ASSUME NEW k \in Kinds, volume'[k][n] # volume[k][n] PROVE FALSE
      <4>1. /\ n = name[p]
            /\ \/ cmd[p] = "create" /\ pc[p] \notin PastDefine
               \/ cmd[p] = "destroy" /\ pc[p] \in {"diskDelete", "seedDelete"}
        BY <1>0, <2>1, <3>2, RemovedWhen
      <4> QED
        BY <2>2, <3>1, <4>1, BuildsAlone DEF UndefinedByThen, PastUndefine
    <3> QED
      BY <3>1, <3>2 DEF Storage
  <2>3. CASE ~domain[n].persistent
    <3>1. n = name[p] /\ cmd[p] = "create" /\ pc[p] = "domDefine"
      BY <1>0, <2>1, <2>3, DefinitionAppears
    <3>2. pc[p] \in Building /\ pc[p] \notin PastDefine /\ MadeBy(pc[p]) = Kinds
      BY <3>1 DEF Building, PastDefine, Terminal, MadeBy
    <3>3. Storage(n) = Kinds /\ ~Exists(n)
      BY <3>1, <3>2, BuildsAlone DEF CreateBuilds
    <3>4. Storage(n) = MadeBy(pc[p])
      BY <3>2, <3>3
    <3>5. UNCHANGED volume
      <4>1. ASSUME UNCHANGED domain PROVE FALSE
        BY <2>3, <4>1
      <4> QED
        BY <1>0, <2>1, <3>1, <3>2, <3>3, <3>4, <4>1, CreateStep DEF BuildCalls
    <3> QED
      BY <3>3, <3>5 DEF Storage
  <2> QED
    BY <2>2, <2>3
<1>2. CASE \A p \in Invocations : ~Work(p)
  BY <1>0, <1>2, OthersKeepDefinitions DEF DefinedIsWhole, Storage
<1> QED
  BY <1>1, <1>2

\* While volumes without a definition are left, a destroy is on its way to
\* them: destroys that race with it may fail, it does not.
LEMMA BuiltNext ==
  ASSUME Ownership, UndefinedByThen, CreateBuilds, DefinedIsWhole, BuiltOrDestroyed,
         ~MayFail, [Next]_vars
  PROVE  BuiltOrDestroyed'
<1> DEFINE Destroying(n, calls) ==
             \E p \in Invocations : cmd[p] = "destroy" /\ At(p, n, calls)
           Builds(n) == \E p \in Invocations : cmd[p] = "create" /\ At(p, n, Building)
           Killing(n) == \E p \in Invocations : At(p, n, {"killed"})
<1> SUFFICES ASSUME NEW n \in RunnerNames, ~domain'[n].persistent, ~Builds(n)',
                    ~Killing(n)'
             PROVE  /\ volume'["disk"][n] # Nobody =>
                          Destroying(n, {"diskFind", "diskDelete"})'
                    /\ volume'["disk"][n] = Nobody /\ volume'["seed"][n] # Nobody =>
                          Destroying(n, {"seedFind", "seedDelete"})'
  BY DEF BuiltOrDestroyed
<1>0. TypeOK /\ n \in Names
  BY DEF Ownership, Names
<1>1. CASE \E p \in Invocations : Work(p)
  <2>1. PICK p \in Invocations : Work(p)
    BY <1>1
  <2>2. /\ UNCHANGED <<cmd, name>>
        /\ \A q \in Invocations \ {p} : pc'[q] = pc[q]
    BY <1>0, <2>1, WorkMovesPc DEF Work, process, TypeOK
  <2>3. ~Killing(n)
    BY <1>0, <2>1, <2>2, WorkMovesPc DEF At, Running, Terminal
  <2>4. ASSUME n = name[p], cmd[p] = "create", pc[p] \notin PastDefine PROVE FALSE
    <3>1. pc[p] \in BuildCalls /\ Storage(name[p]) = MadeBy(pc[p]) /\ ~Exists(name[p])
      BY <2>4, BuildsAlone DEF CreateBuilds
    <3>2. pc'[p] \in Building \/ domain'[name[p]].persistent
      BY <1>0, <2>1, <2>4, <3>1, CreateStep DEF BuildCalls
    <3> QED
      BY <2>2, <2>4, <3>2 DEF At
  <2>5. ASSUME NEW q \in Invocations, cmd[q] = "create", At(q, n, Building)
        PROVE  FALSE
    <3>1. pc[q] \notin PastDefine /\ name[q] = n
      BY <2>5 DEF At, Building, PastDefine, Terminal
    <3> QED
      BY <2>2, <2>4, <2>5, <3>1 DEF At
  <2>6. CASE n = name[p] /\ cmd[p] = "destroy"
    <3>1. CASE domain[n].persistent
      <4>1. Storage(n) = Kinds
        BY <3>1 DEF DefinedIsWhole
      <4>2. pc[p] \notin PastUndefine
        BY <2>6, <3>1 DEF UndefinedByThen
      <4>3. pc'[p] = "diskFind" /\ UNCHANGED volume
        BY <1>0, <2>1, <2>6, <3>1, <4>2, DestroyStep DEF PastUndefine
      <4> QED
        BY <2>2, <2>6, <4>1, <4>3 DEF At, Storage, Kinds
    <3>2. CASE ~domain[n].persistent
      <4>1. /\ volume["disk"][n] # Nobody => Destroying(n, {"diskFind", "diskDelete"})
            /\ volume["disk"][n] = Nobody /\ volume["seed"][n] # Nobody =>
                  Destroying(n, {"seedFind", "seedDelete"})
        BY <2>5, <2>3, <3>2 DEF BuiltOrDestroyed
      <4>2. \A calls : Destroying(n, calls) /\ pc[p] \notin calls => Destroying(n, calls)'
        BY <2>2 DEF At
      <4>3. \A calls : pc'[p] \in calls => Destroying(n, calls)'
        BY <2>2, <2>6 DEF At
      <4>4. volume \in [Kinds -> [Names -> Owners \cup {Nobody}]] /\ Kinds = {"disk", "seed"}
        BY <1>0 DEF TypeOK, Kinds
      <4>5. CASE pc[p] \in {"destroyLookup", "killDomain", "undefine", "undefineAgain"}
        <5>1. UNCHANGED volume
          BY <2>1, <2>6, <4>5, DestroyStep
        <5> QED
          BY <4>1, <4>2, <4>5, <5>1
      <4>6. CASE pc[p] = "diskFind"
        <5>1. /\ UNCHANGED volume
              /\ pc'[p] = IF volume["disk"][n] # Nobody THEN "diskDelete" ELSE "seedFind"
          BY <2>1, <2>6, <4>6, DestroyStep
        <5> QED
          BY <4>1, <4>3, <5>1
      <4>7. CASE pc[p] = "diskDelete"
        <5>1. \/ pc'[p] = "seedFind" /\ volume' = [volume EXCEPT !["disk"][n] = Nobody]
              \/ volume["disk"][n] = Nobody /\ UNCHANGED volume
          BY <2>1, <2>6, <4>7, DestroyStep
        <5>2. volume'["disk"][n] = Nobody
          BY <1>0, <4>4, <5>1
        <5> QED
          BY <4>1, <4>2, <4>3, <4>7, <5>1, <5>2
      <4>8. CASE pc[p] = "seedFind"
        <5>1. /\ UNCHANGED volume
              /\ pc'[p] = IF volume["seed"][n] # Nobody THEN "seedDelete" ELSE "ok"
          BY <2>1, <2>6, <4>8, DestroyStep
        <5> QED
          BY <4>1, <4>2, <4>3, <4>8, <5>1
      <4>9. CASE pc[p] = "seedDelete"
        <5>1. \/ volume' = [volume EXCEPT !["seed"][n] = Nobody]
              \/ volume["seed"][n] = Nobody /\ UNCHANGED volume
          BY <2>1, <2>6, <4>9, DestroyStep
        <5>2. volume'["seed"][n] = Nobody /\ volume'["disk"][n] = volume["disk"][n]
          BY <1>0, <4>4, <5>1
        <5> QED
          BY <4>1, <4>2, <4>9, <5>2
      <4> QED
        BY <2>1, <2>6, <4>5, <4>6, <4>7, <4>8, <4>9, DestroyStep
    <3> QED
      BY <3>1, <3>2
  <2>7. CASE ~(n = name[p] /\ cmd[p] = "destroy")
    <3>1. \A k \in Kinds : volume'[k][n] = volume[k][n]
      BY <1>0, <2>1, <2>4, <2>7, RemovedWhen
    <3>2. ~domain[n].persistent
      <4>1. CASE n # name[p]
        BY <1>0, <2>1, <4>1, WorkMachine
      <4>2. CASE n = name[p] /\ cmd[p] # "destroy"
        BY <1>0, <2>1, <2>4, <4>2, OtherStep
      <4> QED
        BY <2>7, <4>1, <4>2
    <3>3. \A q \in Invocations : \A calls :
            cmd[q] = "destroy" /\ At(q, n, calls) => (cmd[q] = "destroy" /\ At(q, n, calls))'
      BY <2>2, <2>7 DEF At
    <3> QED
      BY <2>5, <2>3, <3>1, <3>2, <3>3 DEF BuiltOrDestroyed, Kinds
  <2> QED
    BY <2>6, <2>7
<1>2. CASE \A p \in Invocations : ~Work(p)
  <2>1. /\ UNCHANGED volume /\ domain'[n].persistent = domain[n].persistent
    BY <1>0, <1>2, OthersKeepDefinitions
  <2>2. \A q \in Invocations : cmd[q] \in {"create", "destroy"} \/ pc[q] = "killed" =>
            /\ cmd'[q] = cmd[q] /\ name'[q] = name[q]
            /\ pc'[q] \in {pc[q], "killed"}
    BY <1>0, <1>2
    DEF Next, vars, process, Killed, Begin, GuestPhonesHome, OtherwisePhonesHome, GuestPowersOff, TypeOK,
        Terminal, StepsOf, CreateSteps, DestroySteps
  <2>3. \A q \in Invocations : name'[q] = n => pc'[q] # "killed"
    BY DEF At
  <2>4. ~Builds(n) /\ ~Killing(n)
    BY <2>2, <2>3 DEF At
  <2>5. \A calls : Destroying(n, calls) => Destroying(n, calls)'
    BY <2>2, <2>3 DEF At
  <2> QED
    BY <2>1, <2>4, <2>5 DEF BuiltOrDestroyed
<1> QED
  BY <1>1, <1>2

\* Where no call fails, CalmIInv always holds.
THEOREM CalmInductive ==
  ASSUME ~MayFail PROVE Spec => []CalmIInv
<1>1. Init => CalmIInv
  BY UndefinedInit, CalmInit DEF CalmIInv
<1>2. IInv /\ CalmIInv /\ [Next]_vars => CalmIInv'
  BY UndefinedNext, WholeNext, BuiltNext DEF CalmIInv, IInv
<1> QED
  BY <1>1, <1>2, Inductive, PTL DEF Spec

\* A runner whose commands have all ended has its definition and both volumes,
\* or none of the three, whatever raced with what.
THEOREM RestIsWhole ==
  ASSUME ~MayFail PROVE Spec => []QuietConsistent
<1>1. CalmIInv => QuietConsistent
  <2> SUFFICES ASSUME CalmIInv, NEW n \in RunnerNames, Quiet(n), NEW k \in Kinds
               PROVE  domain[n].persistent <=> volume[k][n] # Nobody
    BY DEF QuietConsistent
  <2>1. \A p \in Invocations :
          ~At(p, n, Building) /\ ~At(p, n, {"diskFind", "diskDelete"})
          /\ ~At(p, n, {"seedFind", "seedDelete"}) /\ ~At(p, n, {"killed"})
    BY DEF Quiet, At, Building
  <2> QED
    BY <2>1 DEF CalmIInv, DefinedIsWhole, BuiltOrDestroyed, Storage, Kinds
<1> QED
  BY <1>1, CalmInductive, PTL

(***************************************************************************)
(* The commands implement StorageOrder.                                    *)
(***************************************************************************)
LEMMA OrderInit == Init => Order!Init
<1> SUFFICES ASSUME Init PROVE Order!Init
  OBVIOUS
<1>1. ASSUME NEW n \in RunnerNames PROVE Stage(n) = "none" /\ Storage(n) = {}
  BY <1>1, NamesDistinct DEF Init, Stage, Storage, NoDomain, Names
<1>2. ASSUME NEW n \in ForeignNames PROVE Stage(n) = "defined" /\ Storage(n) = {"disk"}
  BY <1>2, OwnersDistinct DEF Init, Stage, Storage, NoDomain, Names, Kinds
<1> QED
  BY <1>1, <1>2, NamesDistinct DEF Order!Init, Names

\* The abstract picture of a name follows from its definition, its volumes and
\* the calls its create is at.
LEMMA SamePicture ==
  ASSUME NEW n \in Names, domain'[n].persistent = domain[n].persistent,
         \A p \in Invocations :
            (cmd[p] = "create" /\ name[p] = n /\ pc[p] \in PastDefine)'
            <=> (cmd[p] = "create" /\ name[p] = n /\ pc[p] \in PastDefine)
  PROVE  Stage(n)' = Stage(n)
BY DEF Stage

\* Steps that change the picture of one name are steps of StorageOrder.
LEMMA OneName ==
  ASSUME NEW n \in Names,
         \A o \in Names \ {n} : Stage(o)' = Stage(o) /\ Storage(o)' = Storage(o),
         \/ Stage(n)' = Stage(n) /\ Storage(n)' = Storage(n)
         \/ /\ Stage(n) = "none" /\ Stage(n)' = Stage(n)
            /\ \E k \in Kinds : k \notin Storage(n) /\ Storage(n)' = Storage(n) \cup {k}
         \/ /\ Stage(n) = "gone" \/ (MayFail /\ Stage(n) = "defined")
            /\ Stage(n)' = Stage(n)
            /\ \E k \in Kinds : k \in Storage(n) /\ Storage(n)' = Storage(n) \ {k}
         \/ /\ Stage(n) = "none" /\ Stage(n)' = "defined"
            /\ Storage(n) = Kinds /\ Storage(n)' = Storage(n)
         \/ Stage(n) = "defined" /\ Stage(n)' = "gone" /\ Storage(n)' = Storage(n)
         \/ /\ MayFail \/ MayDie
            /\ Stage(n) = "none" /\ Stage(n)' = "gone" /\ Storage(n)' = Storage(n)
         \/ /\ MayFail /\ Stage(n) = "none" /\ Stage(n)' = "gone"
            /\ \E k \in Kinds : k \in Storage(n) /\ Storage(n)' = Storage(n) \ {k}
  PROVE  [Order!Next]_<<[o \in Names |-> Stage(o)], [o \in Names |-> Storage(o)]>>
<1> DEFINE machine == [o \in Names |-> Stage(o)]
           storage == [o \in Names |-> Storage(o)]
<1>1. CASE Stage(n)' = Stage(n) /\ Storage(n)' = Storage(n)
  BY <1>1
<1>2. CASE /\ Stage(n) = "none" /\ Stage(n)' = Stage(n)
           /\ \E k \in Kinds : k \notin Storage(n) /\ Storage(n)' = Storage(n) \cup {k}
  <2>1. PICK k \in Kinds : k \notin Storage(n) /\ Storage(n)' = Storage(n) \cup {k}
    BY <1>2
  <2>2. Order!Make(n, k)
    BY <1>2, <2>1 DEF Order!Make
  <2> QED
    BY <2>2 DEF Order!Next, Names
<1>3. CASE /\ Stage(n) = "gone" \/ (MayFail /\ Stage(n) = "defined")
           /\ Stage(n)' = Stage(n)
           /\ \E k \in Kinds : k \in Storage(n) /\ Storage(n)' = Storage(n) \ {k}
  <2>1. PICK k \in Kinds : k \in Storage(n) /\ Storage(n)' = Storage(n) \ {k}
    BY <1>3
  <2>2. Order!Delete(n, k)
    BY <1>3, <2>1 DEF Order!Delete
  <2> QED
    BY <2>2 DEF Order!Next, Names
<1>4. CASE /\ Stage(n) = "none" /\ Stage(n)' = "defined"
           /\ Storage(n) = Kinds /\ Storage(n)' = Storage(n)
  <2>1. Order!Define(n)
    BY <1>4 DEF Order!Define
  <2> QED
    BY <2>1 DEF Order!Next, Names
<1>5. CASE Stage(n) = "defined" /\ Stage(n)' = "gone" /\ Storage(n)' = Storage(n)
  <2>1. Order!Undefine(n)
    BY <1>5 DEF Order!Undefine
  <2> QED
    BY <2>1 DEF Order!Next, Names
<1>6. CASE /\ MayFail \/ MayDie
           /\ Stage(n) = "none" /\ Stage(n)' = "gone" /\ Storage(n)' = Storage(n)
  <2>1. Order!Abandon(n)
    BY <1>6 DEF Order!Abandon
  <2> QED
    BY <2>1 DEF Order!Next, Names
<1>7. CASE /\ MayFail /\ Stage(n) = "none" /\ Stage(n)' = "gone"
           /\ \E k \in Kinds : k \in Storage(n) /\ Storage(n)' = Storage(n) \ {k}
  <2>1. PICK k \in Kinds : k \in Storage(n) /\ Storage(n)' = Storage(n) \ {k}
    BY <1>7
  <2>2. Order!Discard(n, k)
    BY <1>7, <2>1 DEF Order!Discard
  <2> QED
    BY <2>2 DEF Order!Next, Names
<1> QED
  BY <1>1, <1>2, <1>3, <1>4, <1>5, <1>6, <1>7

\* A step of a create that has not defined its machine yet: the name is at
\* stage "none", and stays there until the create defines it or gives it up.
LEMMA BuildOrder ==
  ASSUME IInv, NEW p \in Invocations, Work(p), NEW n \in Names, n = name[p],
         cmd[p] = "create", pc[p] \notin PastDefine,
         \A o \in Names \ {n} : Stage(o)' = Stage(o) /\ Storage(o)' = Storage(o)
  PROVE  [Order!Next]_<<[o \in Names |-> Stage(o)], [o \in Names |-> Storage(o)]>>
<1>0. /\ TypeOK /\ Ownership /\ UNCHANGED <<cmd, name>>
      /\ volume \in [Kinds -> [Names -> Owners \cup {Nobody}]]
  BY DEF IInv, Ownership, TypeOK, Work, process
<1>1. pc[p] \in BuildCalls /\ Storage(n) = MadeBy(pc[p]) /\ ~Exists(n)
  BY <1>0, BuildsAlone DEF IInv, CreateBuilds
<1>2. ~domain[n].persistent /\ n \in RunnerNames
  BY <1>0, <1>1 DEF Ownership, DefinitionExists, CreatesRunners
<1>3. \A q \in Invocations : cmd[q] = "create" /\ name[q] = n => q = p
  BY <1>0 DEF Ownership, OneCreate
<1>4. Stage(n) = "none"
  BY <1>2, <1>3 DEF Stage
<1>5. ASSUME UNCHANGED domain
      PROVE  Stage(n)' = IF pc'[p] \in PastDefine THEN "gone" ELSE "none"
  BY <1>0, <1>2, <1>3, <1>5 DEF Stage
<1>6. ASSUME NEW k \in Kinds, NEW o, volume' = [volume EXCEPT ![k][n] = o]
      PROVE  Storage(n)' = IF o = Nobody THEN Storage(n) \ {k} ELSE Storage(n) \cup {k}
  <2>1. \A j \in Kinds : volume'[j][n] = IF j = k THEN o ELSE volume[j][n]
    BY <1>0, <1>6
  <2> QED
    BY <2>1 DEF Storage
<1>7. CASE pc'[p] \in BuildCalls /\ UNCHANGED <<domain, volume>>
  <2>1. pc'[p] \notin PastDefine
    BY <1>7 DEF BuildCalls, Building, Discarding, PastDefine, Terminal
  <2> QED
    BY <1>4, <1>5, <1>7, <2>1, OneName DEF Storage
<1>8. CASE \E k \in Kinds : /\ pc'[p] \in Building /\ k \notin MadeBy(pc[p])
                            /\ volume' = [volume EXCEPT ![k][n] = p]
                            /\ UNCHANGED domain
  <2>1. Stage(n)' = Stage(n)
    BY <1>4, <1>5, <1>8 DEF Building, PastDefine, Terminal
  <2>2. PICK k \in Kinds : /\ k \notin MadeBy(pc[p])
                           /\ volume' = [volume EXCEPT ![k][n] = p]
    BY <1>8
  <2>3. p # Nobody
    BY OwnersDistinct
  <2>4. Storage(n)' = Storage(n) \cup {k}
    BY <1>6, <2>2, <2>3
  <2>5. k \notin Storage(n)
    BY <1>1, <2>2
  <2> QED
    BY <1>4, <2>1, <2>4, <2>5, OneName
<1>9. CASE pc[p] = "domDefine" /\ domain'[n].persistent /\ UNCHANGED volume
  <2>1. Stage(n)' = "defined" /\ Storage(n)' = Storage(n) /\ MadeBy(pc[p]) = Kinds
    BY <1>9 DEF Stage, Storage, MadeBy
  <2>2. Storage(n) = Kinds
    BY <1>1, <2>1
  <2> QED
    BY <1>4, <2>1, <2>2, OneName
<1>10. CASE MayFail /\ pc'[p] = "error" /\ UNCHANGED <<domain, volume>>
  <2>1. Stage(n)' = "gone"
    BY <1>5, <1>10 DEF PastDefine, Terminal
  <2> QED
    BY <1>4, <1>10, <2>1, OneName DEF Storage
<1>11. CASE \E k \in MadeBy(pc[p]) :
               /\ MayFail /\ pc'[p] = "error" /\ UNCHANGED domain
               /\ volume' = [volume EXCEPT ![k][n] = Nobody]
  <2>1. Stage(n)' = "gone"
    BY <1>5, <1>11 DEF PastDefine, Terminal
  <2>2. PICK k \in MadeBy(pc[p]) : volume' = [volume EXCEPT ![k][n] = Nobody]
    BY <1>11
  <2>3. k \in Storage(n) /\ k \in Kinds
    BY <1>1 DEF Storage
  <2>4. Storage(n)' = Storage(n) \ {k}
    BY <1>6, <2>2, <2>3
  <2> QED
    BY <1>4, <1>11, <2>1, <2>3, <2>4, OneName
<1> QED
  BY <1>0, <1>1, <1>7, <1>8, <1>9, <1>10, <1>11, CreateStep

\* A step of a destroy: it found a machine that was defined, so the name is at
\* stage "defined" or "gone" when it comes to the volumes, and at "gone" if its
\* undefine did not fail.
LEMMA DestroyOrder ==
  ASSUME IInv, MayFail \/ UndefinedByThen,
         NEW p \in Invocations, Work(p), NEW n \in Names, n = name[p],
         cmd[p] = "destroy",
         \A o \in Names \ {n} : Stage(o)' = Stage(o) /\ Storage(o)' = Storage(o)
  PROVE  [Order!Next]_<<[o \in Names |-> Stage(o)], [o \in Names |-> Storage(o)]>>
<1>0. TypeOK /\ Ownership /\ UNCHANGED <<cmd, name>>
  BY DEF IInv, Ownership, Work, process
<1>1. /\ \A q \in Invocations \ {p} : pc'[q] = pc[q]
      /\ volume \in [Kinds -> [Names -> Owners \cup {Nobody}]]
      /\ domain[n] \in Machines /\ domain'[n] \in Machines
  BY <1>0, WorkMovesPc, WorkTypes DEF TypeOK
<1>2. \A q \in Invocations :
        (cmd[q] = "create" /\ name[q] = n /\ pc[q] \in PastDefine)'
        <=> (cmd[q] = "create" /\ name[q] = n /\ pc[q] \in PastDefine)
  BY <1>0, <1>1
<1>3. domain'[n].persistent = domain[n].persistent => Stage(n)' = Stage(n)
  BY <1>2, SamePicture
<1>4. CASE UNCHANGED volume
  <2>1. CASE domain[n].persistent /\ ~domain'[n].persistent
    <3>1. Definer(domain[n].uuid, n)
      BY <1>0, <2>1 DEF Ownership, DefinitionExists, DomainDefined
    <3>2. Stage(n)' = "gone"
      BY <1>0, <1>2, <2>1, <3>1, NamesDistinct DEF Stage, Definer, Maker
    <3> QED
      BY <1>4, <2>1, <3>2, OneName DEF Stage, Storage
  <2>2. CASE domain[n].persistent = domain'[n].persistent
    BY <1>3, <1>4, <2>2, OneName DEF Storage
  <2>3. ~(~domain[n].persistent /\ domain'[n].persistent)
    BY <1>0, DefinitionAppears
  <2> QED
    BY <1>1, <2>1, <2>2, <2>3 DEF Machines
<1>5. CASE /\ pc[p] \in {"diskDelete", "seedDelete"} /\ UNCHANGED domain
           /\ \E k \in Storage(n) : volume' = [volume EXCEPT ![k][n] = Nobody]
  <2>1. PICK k \in Storage(n) : volume' = [volume EXCEPT ![k][n] = Nobody]
    BY <1>5
  <2>2. k \in Kinds
    BY DEF Storage
  <2>3. Definer(handle[p], n)
    BY <1>0, <1>5 DEF Ownership, HandleDefined, Found, DestroySteps
  <2>4. UndefinedByThen => ~domain[n].persistent
    BY <1>5 DEF UndefinedByThen, PastUndefine
  <2>5. Stage(n) = "gone" \/ (MayFail /\ Stage(n) = "defined")
    BY <2>3, <2>4, NamesDistinct DEF Stage, Definer, Maker
  <2>6. Storage(n)' = Storage(n) \ {k}
    <3>1. \A j \in Kinds : volume'[j][n] = IF j = k THEN Nobody ELSE volume[j][n]
      BY <1>1, <2>1, <2>2
    <3> QED
      BY <3>1 DEF Storage
  <2> QED
    BY <1>3, <1>5, <2>2, <2>5, <2>6, OneName
<1> QED
  BY <1>0, <1>4, <1>5, DestroyRemoves

LEMMA WorkOrder ==
  ASSUME IInv, MayFail \/ UndefinedByThen,
         NEW p \in Invocations, Work(p), NEW n \in Names, n = name[p]
  PROVE  [Order!Next]_<<[o \in Names |-> Stage(o)], [o \in Names |-> Storage(o)]>>
<1>0. TypeOK /\ UNCHANGED <<cmd, name>>
  BY DEF IInv, Ownership, Work, process
<1>1. \A q \in Invocations \ {p} : pc'[q] = pc[q]
  BY <1>0, WorkMovesPc DEF TypeOK
<1>2. \A o \in Names \ {n} : Stage(o)' = Stage(o) /\ Storage(o)' = Storage(o)
  <2> SUFFICES ASSUME NEW o \in Names, o # n
               PROVE  Stage(o)' = Stage(o) /\ Storage(o)' = Storage(o)
    OBVIOUS
  <2>1. domain'[o] = domain[o]
    BY <1>0, WorkMachine
  <2>2. \A k \in Kinds : volume'[k][o] = volume[k][o]
    BY <1>0, RemovedWhen
  <2> QED
    BY <1>0, <1>1, <2>1, <2>2, SamePicture DEF Storage
<1>3. CASE cmd[p] # "destroy" /\ ~(cmd[p] = "create" /\ pc[p] \notin PastDefine)
  <2>1. UNCHANGED volume /\ domain'[n].persistent = domain[n].persistent
    BY <1>0, <1>3, OtherStep
  <2>2. cmd[p] = "create" => pc'[p] \in PastDefine
    BY <1>0, <1>3, WorkMovesPc
  <2>3. Stage(n)' = Stage(n)
    BY <1>0, <1>1, <1>3, <2>1, <2>2, SamePicture
  <2> QED
    BY <1>2, <2>1, <2>3, OneName DEF Storage
<1> QED
  BY <1>2, <1>3, BuildOrder, DestroyOrder

\* A killed create gives its name up, if it had not defined its machine.
LEMMA KilledOrder ==
  ASSUME IInv, NEW p \in Invocations, Killed(p)
  PROVE  [Order!Next]_<<[o \in Names |-> Stage(o)], [o \in Names |-> Storage(o)]>>
<1>0. /\ TypeOK /\ Ownership /\ MayDie /\ UNCHANGED <<domain, volume, cmd, name>>
      /\ pc'[p] = "killed" /\ \A q \in Invocations \ {p} : pc'[q] = pc[q]
  BY DEF IInv, Ownership, TypeOK, Killed, process
<1>1. \A n \in Names : Storage(n)' = Storage(n)
  BY <1>0 DEF Storage
<1>2. ASSUME NEW n \in Names, ~(cmd[p] = "create" /\ name[p] = n)
      PROVE  Stage(n)' = Stage(n)
  BY <1>0, <1>2, SamePicture
<1>3. CASE cmd[p] = "create" /\ pc[p] \notin PastDefine
  <2>1. name[p] \in RunnerNames /\ name[p] \in Names /\ ~Exists(name[p])
    BY <1>0, <1>3, BuildsAlone DEF Ownership, CreatesRunners, Names
  <2>2. ~domain[name[p]].persistent
    BY <1>0, <2>1 DEF Ownership, DefinitionExists
  <2>3. \A q \in Invocations : cmd[q] = "create" /\ name[q] = name[p] => q = p
    BY <1>0, <1>3 DEF Ownership, OneCreate
  <2>4. Stage(name[p]) = "none" /\ Stage(name[p])' = "gone"
    BY <1>0, <1>3, <2>1, <2>2, <2>3 DEF Stage, PastDefine, Terminal
  <2> QED
    BY <1>0, <1>1, <1>2, <2>1, <2>4, OneName
<1>4. CASE ~(cmd[p] = "create" /\ pc[p] \notin PastDefine)
  <2>1. \A n \in Names : Stage(n)' = Stage(n)
    BY <1>0, <1>4, SamePicture DEF PastDefine, Terminal
  <2> QED
    BY <1>1, <2>1
<1> QED
  BY <1>3, <1>4

LEMMA OrderStep ==
  ASSUME IInv, MayFail \/ UndefinedByThen, [Next]_vars
  PROVE  [Order!Next]_<<[n \in Names |-> Stage(n)], [n \in Names |-> Storage(n)]>>
<1>0. TypeOK
  BY DEF IInv, Ownership
<1>1. CASE \E p \in Invocations : Work(p)
  <2>1. PICK p \in Invocations : Work(p)
    BY <1>1
  <2>2. name[p] \in Names
    BY <1>0, <2>1, WorkMovesPc, RunningNamed
  <2> QED
    BY <2>1, <2>2, WorkOrder
<1>2. CASE \E p \in Invocations : Killed(p)
  BY <1>2, KilledOrder
<1>3. CASE \A p \in Invocations : ~Work(p) /\ ~Killed(p)
  <2>1. /\ UNCHANGED volume
        /\ \A n \in Names : domain'[n].persistent = domain[n].persistent
    BY <1>0, <1>3, OthersKeepDefinitions
  <2>2. \A q \in Invocations, n \in Names :
          (cmd[q] = "create" /\ name[q] = n /\ pc[q] \in PastDefine)'
          <=> (cmd[q] = "create" /\ name[q] = n /\ pc[q] \in PastDefine)
    BY <1>0, <1>3
    DEF Next, vars, process, Begin, EntryPoint, GuestPhonesHome, OtherwisePhonesHome,
        GuestPowersOff, TypeOK, PastDefine, Terminal
  <2>3. \A n \in Names : Stage(n)' = Stage(n) /\ Storage(n)' = Storage(n)
    BY <2>1, <2>2, SamePicture DEF Storage
  <2> QED
    BY <2>3
<1> QED
  BY <1>1, <1>2, <1>3

\* The commands implement StorageOrder, for any number of them and of names and
\* with every call failing and every process killed that may: volumes are made
\* once and before the one definition, a name given up stays given up, and as
\* long as no call fails volumes are deleted only after their definition has
\* gone (manager.go:160-255, domain.go:42-180, storage.go:172-316).
THEOREM CommandsKeepOrder == Spec => KeepsStorageOrder
<1>1. CASE MayFail
  <2>1. IInv /\ [Next]_vars =>
          [Order!Next]_<<[n \in Names |-> Stage(n)], [n \in Names |-> Storage(n)]>>
    BY <1>1, OrderStep
  <2> QED
    BY <2>1, OrderInit, Inductive, PTL DEF Spec, KeepsStorageOrder, Order!Spec
<1>2. CASE ~MayFail
  <2>1. IInv /\ UndefinedByThen /\ [Next]_vars =>
          /\ [Order!Next]_<<[n \in Names |-> Stage(n)], [n \in Names |-> Storage(n)]>>
          /\ UndefinedByThen'
    BY <1>2, OrderStep, UndefinedNext DEF IInv
  <2> QED
    BY <2>1, OrderInit, UndefinedInit, Inductive, PTL
    DEF Spec, KeepsStorageOrder, Order!Spec
<1> QED
  BY <1>1, <1>2
===========================================================================
