------------------------------ MODULE Provisioning ------------------------------
(***************************************************************************)
(* `tender create' from its options to a runner that serves, repeated      *)
(* until it succeeds: the registration token is obtained first, then the   *)
(* image and the runner tools are found in the caches or downloaded, then  *)
(* the machine starts, and its cloud-init script registers the runner with *)
(* the token, which has aged meanwhile.                                    *)
(*                                                                         *)
(* Sources: cmd/tender/main.go (createCmd), internal/github,               *)
(* internal/runner/manager.go, internal/cloudinit/config.go.  The volumes  *)
(* of a create are in RunnerLifecycle, overlapping creates in ImageCache,  *)
(* the choice of the image in ImageCatalog, the report in PhoneHome.       *)
(***************************************************************************)
EXTENDS Integers, FiniteSets

CONSTANTS
    Commands,       \* [provider, organization, repository] of a create
    TokenLife,      \* GitHub accepts a token that long
    DownloadTime,   \* Timeout of the clients that download
    WaitTime,       \* limit of WaitForPhoneHome
    MaxEvents       \* bound: failures, kills and new releases

Providers == {"app", "cli", "given"}

ASSUME CommandsKnown ==
    Commands \subseteq [provider: Providers, organization: BOOLEAN, repository: BOOLEAN]
ASSUME TimesKnown ==
    /\ TokenLife \in Nat /\ DownloadTime \in Nat /\ WaitTime \in Nat
    /\ TokenLife > DownloadTime + WaitTime
ASSUME EventsBounded == MaxEvents \in Nat

VARIABLES
    command,    \* the options, the same every time
    pc,         \* what create does next, or how it ended
    token,      \* "none", "empty", "minted", "given"
    age,        \* of the token; expired at TokenLife
    spent,      \* time the present step of create has taken
    downloads,  \* volumes this create has downloaded itself
    volume,     \* the two volumes of the newest releases in the images pool
    guest,      \* what the machine of this create does next
    registered, \* GitHub: the runner of this create
    serving,    \* ... and whether its service was started
    event,      \* the report of the guest is in the map of create
    events,     \* failures, kills and releases so far
    troubled    \* something of that has hit this create (history)

host  == <<command, pc, token, spent, downloads, troubled>>
hub   == <<registered, serving>>
vars  == <<host, age, volume, guest, hub, event, events>>

Volumes == {"image", "tools"}
Ended   == {"ready", "failed", "killed"}
Working == {"boot", "tools", "register", "install", "serve", "report"}

Init ==
    /\ command \in Commands
    /\ pc = "failed"
    /\ token = "none" /\ age = 0 /\ spent = 0
    /\ downloads = {} /\ guest = "off"
    /\ volume \in [Volumes -> {"none", "good"}]
    /\ registered = FALSE /\ serving = FALSE /\ event = FALSE
    /\ events = 0 /\ troubled = TRUE

Goes(to) == pc' = to /\ spent' = 0 /\ UNCHANGED <<command, troubled>>

Event == events < MaxEvents /\ events' = events + 1
Trouble(to) ==
    /\ Event
    /\ pc' = to /\ spent' = 0 /\ troubled' = TRUE
    /\ UNCHANGED command

(***************************************************************************)
(* The token.                                                              *)
(***************************************************************************)
\* createCmd, as often as the user tries.  A token that is given may be old.
Begin ==
    /\ pc \in {"failed", "killed"}
    /\ pc' = "connect" /\ spent' = 0 /\ troubled' = FALSE
    /\ downloads' = {} /\ guest' = "off"
    /\ registered' = FALSE /\ serving' = FALSE /\ event' = FALSE
    /\ IF command.provider = "given"
       THEN token' = "given" /\ age' \in age .. TokenLife
       ELSE token' = "none" /\ age' = 0
    /\ UNCHANGED <<command, volume, events>>

\* NewClient, the private key and the choice of the provider.
Connect ==
    /\ pc = "connect"
    /\ Goes(CASE command.provider = "app"   -> "installation"
            [] command.provider = "cli"   -> "gh"
            [] command.provider = "given" -> "callback")
    /\ UNCHANGED <<token, age, downloads, volume, guest, hub, event, events>>

\* getInstallationID: without an organization there is no such page.
getInstallationID ==
    /\ pc = "installation"
    /\ Goes(IF command.organization THEN "access" ELSE "failed")
    /\ UNCHANGED <<token, age, downloads, volume, guest, hub, event, events>>

GetInstallationToken ==
    /\ pc = "access"
    /\ Goes("registration")
    /\ UNCHANGED <<token, age, downloads, volume, guest, hub, event, events>>

\* The App takes an answer without a token for a token.
GetRunnerRegistrationToken ==
    /\ pc = "registration"
    /\ age' = 0
    /\ \/ Goes("callback") /\ token' = "minted" /\ UNCHANGED events
       \/ Trouble("callback") /\ token' = "empty"
    /\ UNCHANGED <<downloads, volume, guest, hub, event>>

\* gh does not.
RunGh ==
    /\ pc = "gh"
    /\ \/ /\ command.organization
          /\ Goes("callback") /\ token' = "minted" /\ age' = 0
       \/ /\ ~command.organization
          /\ Goes("failed") /\ UNCHANGED <<token, age>>
    /\ UNCHANGED <<downloads, volume, guest, hub, event, events>>

Requests == {"installation", "access", "registration", "gh"}

\* Neither the App's clients nor gh have a deadline.
NeverAnswered ==
    /\ pc \in Requests
    /\ Trouble("hung")
    /\ UNCHANGED <<token, age, downloads, volume, guest, hub, event>>

Tokens ==
    \/ Connect
    \/ getInstallationID \/ GetInstallationToken \/ GetRunnerRegistrationToken
    \/ RunGh

(***************************************************************************)
(* The infrastructure.  An image is checked against its digest, the runner *)
(* archive against nothing.                                                *)
(***************************************************************************)
phoneHomeBinaryPath ==
    /\ pc = "callback"
    /\ Goes("lookupImage")
    /\ UNCHANGED <<token, age, downloads, volume, guest, hub, event, events>>

\* Faulty variant: what was uploaded is deleted at the end in any case.
KeptNever(v, content) == volume' = volume

\* keepVolume.
Kept(v, content) == volume' = [volume EXCEPT ![v] = content]

\* Faulty variant: what is there is downloaded again.
LookupAlwaysMisses(v, step, hit, miss) ==
    /\ pc = step
    /\ Goes(miss)
    /\ UNCHANGED <<token, age, downloads, volume, guest, hub, event, events>>

\* Whatever has the name of the volume is used.
Lookup(v, step, hit, miss) ==
    /\ pc = step
    /\ Goes(IF volume[v] = "none" THEN miss ELSE hit)
    /\ UNCHANGED <<token, age, downloads, volume, guest, hub, event, events>>

Download(v, step, next) ==
    /\ pc = step
    /\ downloads' = downloads \cup {v}
    /\ \/ Kept(v, "good") /\ Goes(next) /\ UNCHANGED events
       \/ v = "tools" /\ Kept(v, "damaged") /\ Trouble(next)
    /\ UNCHANGED <<token, age, guest, hub, event>>

EnsureInfrastructure ==
    \/ phoneHomeBinaryPath
    \/ Lookup("image", "lookupImage", "lookupTools", "image")
    \/ Download("image", "image", "lookupTools")
    \/ Lookup("tools", "lookupTools", "validate", "tools")
    \/ Download("tools", "tools", "validate")

(***************************************************************************)
(* The machine.                                                            *)
(***************************************************************************)
\* Faulty variant: nobody looks at the token.
ValidateOptions ==
    /\ pc = "validate"
    /\ Goes(IF command.organization \/ command.repository THEN "machine" ELSE "failed")
    /\ UNCHANGED <<token, age, downloads, volume, guest, hub, event, events>>

\* Faulty variant: an organization and a repository.
ValidateRepository ==
    /\ pc = "validate"
    /\ Goes(IF command.repository /\ token # "empty" THEN "machine" ELSE "failed")
    /\ UNCHANGED <<token, age, downloads, volume, guest, hub, event, events>>

\* Only now the options and the token are looked at.
Validate ==
    /\ pc = "validate"
    /\ Goes(IF (command.organization \/ command.repository) /\ token # "empty"
            THEN "machine" ELSE "failed")
    /\ UNCHANGED <<token, age, downloads, volume, guest, hub, event, events>>

\* Phone-home server, seed, disk and definition, then Start.
StartMachine ==
    /\ pc = "machine"
    /\ Goes("wait")
    /\ guest' = "boot"
    /\ UNCHANGED <<token, age, downloads, volume, hub, event, events>>

ReadEvent ==
    /\ pc = "wait" /\ event
    /\ Goes("ready")
    /\ UNCHANGED <<token, age, downloads, volume, guest, hub, event, events>>

\* Faulty variant: the loop has no end.
WaitForever == FALSE /\ UNCHANGED vars

\* It is trouble when the guest is still at work or its event is there.
WaitTimesOut ==
    /\ pc = "wait" /\ spent = WaitTime
    /\ IF guest \in Working \/ event THEN Trouble("failed")
       ELSE Goes("failed") /\ UNCHANGED events
    /\ UNCHANGED <<token, age, downloads, volume, guest, hub, event>>

Create ==
    \/ Tokens \/ EnsureInfrastructure
    \/ Validate \/ StartMachine \/ ReadEvent \/ WaitTimesOut

\* A volume that was being filled and is not deleted.
LeftAsItIs == pc \in Volumes /\ \E content \in {"good", "damaged"} : Kept(pc, content)

\* Any call of create may fail.  A volume that was being filled is deleted,
\* unless that fails too.
CallFails ==
    /\ pc \notin Ended \cup {"hung", "validate", "wait"}
    /\ Trouble("failed")
    /\ \/ UNCHANGED volume
       \/ LeftAsItIs
    /\ UNCHANGED <<token, age, downloads, guest, hub, event>>

\* A signal; a volume that was being filled stays as it is.
Killed ==
    /\ pc \notin Ended
    /\ Trouble("killed")
    /\ \/ UNCHANGED volume
       \/ LeftAsItIs
    /\ UNCHANGED <<token, age, downloads, guest, hub, event>>

(***************************************************************************)
(* The guest: the script of GenerateUserData under `set -e'.               *)
(***************************************************************************)
After == [boot |-> "tools", tools |-> "register", register |-> "install",
          install |-> "serve", serve |-> "report", report |-> "done"]

\* config.sh is told the organization only.
Accepted == age < TokenLife /\ command.organization

\* Faulty variant: the script without `set -e'.
RunCommandRegardless ==
    /\ guest \in Working
    /\ guest' = After[guest]
    /\ registered' = (registered \/ (guest = "register" /\ Accepted))
    /\ serving' = (serving \/ guest = "serve")
    /\ event' = (event \/ (guest = "report" /\ pc = "wait"))
    /\ UNCHANGED <<host, age, volume, events>>

\* One command after the other; distaff fails when create has ended.
RunCommand ==
    /\ guest \in Working
    /\ guest' = CASE guest = "register" /\ ~Accepted -> "refused"
                  [] guest = "report" /\ pc # "wait"  -> "stopped"
                  [] OTHER                            -> After[guest]
    /\ registered' = (registered \/ (guest = "register" /\ Accepted))
    /\ serving' = (serving \/ guest = "serve")
    /\ event' = (event \/ (guest = "report" /\ pc = "wait"))
    /\ UNCHANGED <<host, age, volume, events>>

\* A command fails or the machine crashes.
GuestFails ==
    /\ guest \in Working
    /\ Event
    /\ guest' = "stopped" /\ troubled' = TRUE
    /\ UNCHANGED <<command, pc, token, spent, downloads, age, volume, hub, event>>

\* A damaged volume may stop the guest anywhere, or do no harm.
GuestIsSpoiled ==
    /\ guest \in Working
    /\ \E v \in Volumes : volume[v] = "damaged"
    /\ guest' = "spoiled"
    /\ UNCHANGED <<host, age, volume, hub, event, events>>

(***************************************************************************)
(* Time passes in the steps that may be long.                              *)
(***************************************************************************)
Limit == CASE pc \in Volumes -> DownloadTime
           [] pc = "wait"    -> WaitTime
           [] OTHER          -> 0

Older == IF age < TokenLife THEN age + 1 ELSE age

\* Faulty variant: clients without a Timeout.
PassUnlimited ==
    /\ spent < Limit \/ pc \in Volumes
    /\ spent' = spent + 1
    /\ age' = Older
    /\ UNCHANGED <<command, pc, token, downloads, troubled, volume, guest, hub, event, events>>

Pass ==
    /\ spent < Limit
    /\ spent' = spent + 1
    /\ age' = Older
    /\ UNCHANGED <<command, pc, token, downloads, troubled, volume, guest, hub, event, events>>

\* The guest of a create that has ended goes on.
PassForGuest ==
    /\ pc \in Ended /\ guest \in Working
    /\ age' = Older
    /\ UNCHANGED <<host, volume, guest, hub, event, events>>

\* A new image or runner has another name in the images pool.
NewRelease(v) ==
    /\ pc \in {"failed", "killed"} /\ volume[v] # "none"
    /\ Event
    /\ volume' = [volume EXCEPT ![v] = "none"]
    /\ UNCHANGED <<host, age, guest, hub, event>>

Next ==
    \/ Begin \/ Create \/ CallFails \/ NeverAnswered \/ Killed
    \/ RunCommand \/ GuestFails \/ GuestIsSpoiled
    \/ Pass \/ PassForGuest
    \/ \E v \in Volumes : NewRelease(v)

(***************************************************************************)
(* Calls return or reach their deadline, the guest goes on, time passes,   *)
(* and the user tries again.  Nobody needs to notice that a create hangs.  *)
(***************************************************************************)
Fairness ==
    /\ WF_vars(Begin) /\ WF_vars(Create)
    /\ WF_vars(RunCommand) /\ WF_vars(Pass)

Spec == Init /\ [][Next]_vars /\ Fairness
-----------------------------------------------------------------------------
(***************************************************************************)
(* Type invariant.                                                         *)
(***************************************************************************)
Steps == {"connect", "callback", "lookupImage", "lookupTools", "validate", "machine",
          "wait", "hung"} \cup Requests \cup Volumes

\* Every variable has its shape, and no step takes longer than its deadline.
TypeOK ==
    /\ command \in Commands
    /\ pc \in Steps \cup Ended
    /\ token \in {"none", "empty", "minted", "given"}
    /\ age \in 0 .. TokenLife
    /\ spent \in Nat /\ spent <= Limit
    /\ downloads \subseteq Volumes
    /\ volume \in [Volumes -> {"none", "good", "damaged"}]
    /\ guest \in Working \cup {"off", "done", "refused", "spoiled", "stopped"}
    /\ registered \in BOOLEAN /\ serving \in BOOLEAN /\ event \in BOOLEAN
    /\ events \in 0 .. MaxEvents
    /\ troubled \in BOOLEAN

(***************************************************************************)
(* Safety.                                                                 *)
(***************************************************************************)
\* When create reports a runner as ready, GitHub has it and its service runs:
\* in a guest that sends nothing else, the last command of the script is what
\* tells create, and it is not reached when an earlier one fails.  A report of
\* somebody else, which create would believe too, is in PhoneHome.
ReadyMeansServing == pc = "ready" => registered /\ serving

MintsToken == command.provider # "given" /\ command.organization

\* A token that create has obtained itself is refused in time only to a create
\* that downloaded both the image and the tools: with one of them in the cache
\* the token outlives the other download and the wait.
RefusedMeansCold ==
    ~troubled /\ MintsToken /\ guest = "refused" => downloads = Volumes

\* A create that no call failed in, whose guest was not late and that could
\* obtain a token fails for two reasons only: the token grew too old during
\* both downloads, or a volume was left damaged by an earlier create.
OnlyAgeFails ==
    pc = "failed" /\ ~troubled /\ MintsToken =>
        \/ guest = "refused" /\ downloads = Volumes
        \/ guest = "spoiled" /\ downloads # Volumes

\* What creates do to the two volumes one after the other is no more than what
\* creates that overlap do to them, call by call, in ImageCache: a volume that
\* was kept is neither replaced nor deleted before a newer release.
Shared == INSTANCE SharedCache WITH Renewed <- TRUE
KeepsCache == Shared!Spec

(***************************************************************************)
(* Liveness.                                                               *)
(***************************************************************************)
\* Every create ends, unless GitHub or gh never answers.
CreateEnds == (pc = "connect") ~> (pc \in Ended \cup {"hung"})

\* Failures that come to an end are healed by trying again: what one create
\* downloads is there for the next one, whose token then is young enough.
\* Only a damaged volume stays, and a create that hangs.
RetryHeals ==
    MintsToken =>
        \/ <>(pc = "ready")
        \/ <>[](pc = "hung")
        \/ <>[](\E v \in Volumes : volume[v] = "damaged")

(***************************************************************************)
(* The inductive invariant.                                                *)
(***************************************************************************)
Cost(v) == IF v \in downloads THEN DownloadTime ELSE 0

\* A token that create has obtained is no older than what it waited for.
AgeOfToken ==
    token = "minted" /\ pc \notin Ended \cup {"hung"} =>
        age <= Cost("image") + Cost("tools") + spent

\* Each volume is downloaded once, in this order.
DownloadsInOrder ==
    /\ pc \in Requests \cup {"connect", "callback", "lookupImage", "image"} => downloads = {}
    /\ pc \in {"lookupTools", "tools"} => downloads \subseteq {"image"}
    /\ ~troubled => \A v \in downloads : volume[v] # "damaged"

\* What is in the cache is not downloaded again.
DownloadsMissing == pc \in Volumes => volume[pc] = "none"

\* Whose token it is.
TokenKnown ==
    /\ pc \notin Ended => (token = "given" <=> command.provider = "given")
    /\ pc = "connect" => token \in {"none", "given"}
    /\ pc \in Requests => token = "none"
    /\ pc \in {"access", "registration"} => command.organization
    /\ pc \in {"callback", "lookupImage", "lookupTools", "validate"} \cup Volumes => token # "none"
    /\ guest # "off" \/ pc \in {"machine", "wait"} => token \in {"minted", "given"}
    /\ token = "minted" => MintsToken
    /\ token = "empty" => troubled

\* How far the guest is, and what it has done so far.
ScriptInOrder ==
    /\ pc \notin Ended => (guest = "off" <=> pc # "wait")
    /\ guest \in {"install", "serve", "report", "done"} => registered
    /\ guest \in {"report", "done"} => serving
    /\ event => guest = "done"
    /\ pc = "ready" => event

\* What an untroubled create finds its guest in.
Untroubled ==
    ~troubled =>
        /\ pc # "killed" /\ guest # "stopped"
        /\ guest \in Working => pc = "wait"
        /\ guest = "done" => event /\ pc # "failed"
        /\ guest = "spoiled" => downloads # Volumes
        /\ guest = "refused" /\ MintsToken => downloads = Volumes
        /\ pc = "failed" /\ MintsToken => guest # "off"

ProvisionIInv ==
    /\ TypeOK /\ AgeOfToken /\ DownloadsInOrder /\ DownloadsMissing
    /\ TokenKnown /\ ScriptInOrder /\ Untroubled
================================================================================
