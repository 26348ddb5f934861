--------------------------- MODULE ProvisioningProofs ---------------------------
(***************************************************************************)
(* Proofs about Provisioning, for every life of a token, every deadline    *)
(* and any number of failures: the invariant is inductive, and the         *)
(* properties of a create follow from it.                                  *)
(***************************************************************************)
EXTENDS Provisioning, TLAPS

\* Time that passes ages the token by one at most, and not beyond its life.
LEMMA OlderBounds ==
    ASSUME age \in 0 .. TokenLife
    PROVE  Older \in 0 .. TokenLife /\ Older <= age + 1
BY TimesKnown, SMT DEF Older

\* The options of a create have their types.
LEMMA CommandKnown ==
    ASSUME TypeOK
    PROVE  /\ command.provider \in Providers
           /\ command.organization \in BOOLEAN /\ command.repository \in BOOLEAN
BY CommandsKnown DEF TypeOK

\* A failure is counted up to the bound.
LEMMA EventCounts ==
    ASSUME TypeOK, Event \/ UNCHANGED events
    PROVE  events' \in 0 .. MaxEvents
BY EventsBounded, SMT DEF TypeOK, Event

\* The invariant without the shapes of the variables.
Bounds == AgeOfToken /\ DownloadsInOrder /\ DownloadsMissing /\ TokenKnown /\ ScriptInOrder /\ Untroubled

-----------------------------------------------------------------------------
\* The initial states satisfy the invariant.
LEMMA ProvisionInit == Init => ProvisionIInv
<1> SUFFICES ASSUME Init PROVE ProvisionIInv
  OBVIOUS
<1>1. TypeOK
  <2>1. spent \in Nat /\ spent <= Limit /\ volume \in [Volumes -> {"none", "good", "damaged"}]
    BY TimesKnown, SMT DEF Init, Limit, Volumes
  <2>2. pc \in Steps \cup Ended /\ age \in 0 .. TokenLife /\ events \in 0 .. MaxEvents
    BY TimesKnown, EventsBounded, SMT DEF Init, Steps, Ended
  <2>3. QED
    BY <2>1, <2>2, Zenon DEF Init, TypeOK
<1>2. Bounds
  BY TimesKnown, SMT
  DEF Bounds, Init, AgeOfToken, DownloadsInOrder, DownloadsMissing, TokenKnown, ScriptInOrder, Untroubled,
      MintsToken, Ended, Requests, Working, Volumes
<1> QED
  BY <1>1, <1>2 DEF ProvisionIInv, Bounds

\* Obtaining the token.
LEMMA TokensKeep ==
    ASSUME ProvisionIInv, Tokens
    PROVE  ProvisionIInv'
<1> USE CommandKnown, TimesKnown DEF ProvisionIInv
<1>1. CASE Connect
  <2>1. /\ pc' \in {"installation", "gh", "callback"}
        /\ pc' = "callback" <=> command.provider = "given"
        /\ pc = "connect" /\ spent' = 0
        /\ UNCHANGED <<command, troubled, token, age, downloads, volume, guest, hub, event>>
    BY <1>1, SMT DEF Connect, Goes, Providers
  <2>2. TypeOK'
    BY <1>1, SMT
    DEF TypeOK, Steps, Limit, Providers, Goes, Connect, host, hub, Ended, Working,
        Requests, Volumes
  <2>3. Bounds'
    BY <2>1, SMT
    DEF TypeOK, Bounds, AgeOfToken, DownloadsInOrder, DownloadsMissing, TokenKnown, ScriptInOrder,
        Untroubled, Cost, Limit, MintsToken, Providers, host, hub, Ended, Working,
        Requests, Volumes
  <2> QED
    BY <2>2, <2>3 DEF Bounds
<1>2. CASE getInstallationID
  <2>1. TypeOK'
    BY <1>2, SMT
    DEF TypeOK, Steps, Limit, Providers, Goes, getInstallationID, host, hub, Ended,
        Working, Requests, Volumes
  <2>2. Bounds'
    BY <1>2, SMT
    DEF TypeOK, Bounds, AgeOfToken, DownloadsInOrder, DownloadsMissing, TokenKnown, ScriptInOrder,
        Untroubled, Cost, Limit, MintsToken, Providers, Goes, getInstallationID, host,
        hub, Ended, Working, Requests, Volumes
  <2> QED
    BY <2>1, <2>2 DEF Bounds
<1>3. CASE GetInstallationToken
  <2>1. TypeOK'
    BY <1>3, SMT
    DEF TypeOK, Steps, Limit, Providers, Goes, GetInstallationToken, host, hub, Ended,
        Working, Requests, Volumes
  <2>2. Bounds'
    BY <1>3, SMT
    DEF TypeOK, Bounds, AgeOfToken, DownloadsInOrder, DownloadsMissing, TokenKnown, ScriptInOrder,
        Untroubled, Cost, Limit, MintsToken, Providers, Goes, GetInstallationToken,
        host, hub, Ended, Working, Requests, Volumes
  <2> QED
    BY <2>1, <2>2 DEF Bounds
<1>4. CASE GetRunnerRegistrationToken
  <2>1. events' \in 0 .. MaxEvents
    BY <1>4, EventCounts DEF Goes, Trouble, Event, GetRunnerRegistrationToken
  <2>2. troubled' \in BOOLEAN /\ registered' \in BOOLEAN
        /\ serving' \in BOOLEAN /\ event' \in BOOLEAN
    BY <1>4, Zenon DEF TypeOK, Goes, Trouble, GetRunnerRegistrationToken, hub
  <2>3. TypeOK'
    BY <1>4, <2>1, <2>2, SMT
    DEF TypeOK, Steps, Limit, Providers, Goes, Trouble, Event,
        GetRunnerRegistrationToken, host, hub, Ended, Working, Requests, Volumes
  <2>4. Bounds'
    BY <1>4, SMT
    DEF TypeOK, Bounds, AgeOfToken, DownloadsInOrder, DownloadsMissing, TokenKnown, ScriptInOrder,
        Untroubled, Cost, Limit, MintsToken, Providers, Goes, Trouble, Event,
        GetRunnerRegistrationToken, host, hub, Ended, Working, Requests, Volumes
  <2> QED
    BY <2>3, <2>4 DEF Bounds
<1>5. CASE RunGh
  <2>1. TypeOK'
    BY <1>5, SMT
    DEF TypeOK, Steps, Limit, Providers, Goes, RunGh, host, hub, Ended, Working,
        Requests, Volumes
  <2>2. Bounds'
    BY <1>5, SMT
    DEF TypeOK, Bounds, AgeOfToken, DownloadsInOrder, DownloadsMissing, TokenKnown, ScriptInOrder,
        Untroubled, Cost, Limit, MintsToken, Providers, Goes, RunGh, host, hub, Ended,
        Working, Requests, Volumes
  <2> QED
    BY <2>1, <2>2 DEF Bounds
<1> QED
  BY <1>1, <1>2, <1>3, <1>4, <1>5 DEF Tokens

\* Lookups and downloads.
LEMMA InfrastructureKeeps ==
    ASSUME ProvisionIInv, EnsureInfrastructure
    PROVE  ProvisionIInv'
<1> USE CommandKnown, TimesKnown DEF ProvisionIInv
<1>1. CASE phoneHomeBinaryPath
  <2>1. TypeOK'
    BY <1>1, SMT
    DEF TypeOK, Steps, Limit, Providers, Goes, phoneHomeBinaryPath, host, hub, Ended,
        Working, Requests, Volumes
  <2>2. Bounds'
    BY <1>1, SMT
    DEF TypeOK, Bounds, AgeOfToken, DownloadsInOrder, DownloadsMissing, TokenKnown, ScriptInOrder,
        Untroubled, Cost, Limit, MintsToken, Providers, Goes, phoneHomeBinaryPath,
        host, hub, Ended, Working, Requests, Volumes
  <2> QED
    BY <2>1, <2>2 DEF Bounds
<1>2. CASE Lookup("image", "lookupImage", "lookupTools", "image")
  <2>1. TypeOK'
    BY <1>2, SMT
    DEF TypeOK, Steps, Limit, Providers, Lookup, Goes, host, hub, Ended, Working,
        Requests, Volumes
  <2>2. Bounds'
    BY <1>2, SMT
    DEF TypeOK, Bounds, AgeOfToken, DownloadsInOrder, DownloadsMissing, TokenKnown, ScriptInOrder,
        Untroubled, Cost, Limit, MintsToken, Providers, Lookup, Goes, host, hub, Ended,
        Working, Requests, Volumes
  <2> QED
    BY <2>1, <2>2 DEF Bounds
<1>3. CASE Download("image", "image", "lookupTools")
  <2>1. events' \in 0 .. MaxEvents
    BY <1>3, EventCounts DEF Download, Goes, Kept, Trouble, Event
  <2>2. TypeOK'
    BY <1>3, <2>1, SMT
    DEF TypeOK, Steps, Limit, Providers, Download, Goes, Kept, Trouble, Event, host,
        hub, Ended, Working, Requests, Volumes
  <2>3. Bounds'
    BY <1>3, SMT
    DEF TypeOK, Bounds, AgeOfToken, DownloadsInOrder, DownloadsMissing, TokenKnown, ScriptInOrder,
        Untroubled, Cost, Limit, MintsToken, Providers, Download, Goes, Kept, Trouble,
        Event, host, hub, Ended, Working, Requests, Volumes
  <2> QED
    BY <2>2, <2>3 DEF Bounds
<1>4. CASE Lookup("tools", "lookupTools", "validate", "tools")
  <2>1. TypeOK'
    BY <1>4, SMT
    DEF TypeOK, Steps, Limit, Providers, Lookup, Goes, host, hub, Ended, Working,
        Requests, Volumes
  <2>2. Bounds'
    BY <1>4, SMT
    DEF TypeOK, Bounds, AgeOfToken, DownloadsInOrder, DownloadsMissing, TokenKnown, ScriptInOrder,
        Untroubled, Cost, Limit, MintsToken, Providers, Lookup, Goes, host, hub, Ended,
        Working, Requests, Volumes
  <2> QED
    BY <2>1, <2>2 DEF Bounds
<1>5. CASE Download("tools", "tools", "validate")
  <2>1. events' \in 0 .. MaxEvents
    BY <1>5, EventCounts DEF Download, Goes, Kept, Trouble, Event
  <2>2. troubled' \in BOOLEAN /\ registered' \in BOOLEAN
        /\ serving' \in BOOLEAN /\ event' \in BOOLEAN
    BY <1>5, Zenon DEF TypeOK, Download, Goes, Trouble, hub
  <2>3. TypeOK'
    BY <1>5, <2>1, <2>2, SMT
    DEF TypeOK, Steps, Limit, Providers, Download, Goes, Kept, Trouble, Event, host,
        hub, Ended, Working, Requests, Volumes
  <2>4. Bounds'
    BY <1>5, SMT
    DEF TypeOK, Bounds, AgeOfToken, DownloadsInOrder, DownloadsMissing, TokenKnown, ScriptInOrder,
        Untroubled, Cost, Limit, MintsToken, Providers, Download, Goes, Kept, Trouble,
        Event, host, hub, Ended, Working, Requests, Volumes
  <2> QED
    BY <2>3, <2>4 DEF Bounds
<1> QED
  BY <1>1, <1>2, <1>3, <1>4, <1>5 DEF EnsureInfrastructure

\* From the look at the options to the end of the wait.
LEMMA MachineKeeps ==
    ASSUME ProvisionIInv, Validate \/ StartMachine \/ ReadEvent \/ WaitTimesOut
    PROVE  ProvisionIInv'
<1> USE CommandKnown, TimesKnown DEF ProvisionIInv
<1>1. CASE Validate
  <2>1. TypeOK'
    BY <1>1, SMT
    DEF TypeOK, Steps, Limit, Providers, Goes, Validate, host, hub, Ended, Working,
        Requests, Volumes
  <2>2. Bounds'
    BY <1>1, SMT
    DEF TypeOK, Bounds, AgeOfToken, DownloadsInOrder, DownloadsMissing, TokenKnown, ScriptInOrder,
        Untroubled, Cost, Limit, MintsToken, Providers, Goes, Validate, host, hub,
        Ended, Working, Requests, Volumes
  <2> QED
    BY <2>1, <2>2 DEF Bounds
<1>2. CASE StartMachine
  <2>1. TypeOK'
    BY <1>2, SMT
    DEF TypeOK, Steps, Limit, Providers, Goes, StartMachine, host, hub, Ended, Working,
        Requests, Volumes
  <2>2. Bounds'
    BY <1>2, SMT
    DEF TypeOK, Bounds, AgeOfToken, DownloadsInOrder, DownloadsMissing, TokenKnown, ScriptInOrder,
        Untroubled, Cost, Limit, MintsToken, Providers, Goes, StartMachine, host, hub,
        Ended, Working, Requests, Volumes
  <2> QED
    BY <2>1, <2>2 DEF Bounds
<1>3. CASE ReadEvent
  <2>1. TypeOK'
    BY <1>3, SMT
    DEF TypeOK, Steps, Limit, Providers, Goes, ReadEvent, host, hub, Ended, Working,
        Requests, Volumes
  <2>2. Bounds'
    BY <1>3, SMT
    DEF TypeOK, Bounds, AgeOfToken, DownloadsInOrder, DownloadsMissing, TokenKnown, ScriptInOrder,
        Untroubled, Cost, Limit, MintsToken, Providers, Goes, ReadEvent, host, hub,
        Ended, Working, Requests, Volumes
  <2> QED
    BY <2>1, <2>2 DEF Bounds
<1>4. CASE WaitTimesOut
  <2>1. events' \in 0 .. MaxEvents
    BY <1>4, EventCounts DEF Goes, Trouble, Event, WaitTimesOut
  <2>2. troubled' \in BOOLEAN /\ registered' \in BOOLEAN
        /\ serving' \in BOOLEAN /\ event' \in BOOLEAN
    BY <1>4, Zenon DEF TypeOK, Goes, Trouble, WaitTimesOut, hub
  <2>3. TypeOK'
    BY <1>4, <2>1, <2>2, SMT
    DEF TypeOK, Steps, Limit, Providers, Goes, Trouble, Event, WaitTimesOut, host, hub,
        Ended, Working, Requests, Volumes
  <2>4. Bounds'
    BY <1>4, SMT
    DEF TypeOK, Bounds, AgeOfToken, DownloadsInOrder, DownloadsMissing, TokenKnown, ScriptInOrder,
        Untroubled, Cost, Limit, MintsToken, Providers, Goes, Trouble, Event,
        WaitTimesOut, host, hub, Ended, Working, Requests, Volumes
  <2> QED
    BY <2>3, <2>4 DEF Bounds
<1> QED
  BY <1>1, <1>2, <1>3, <1>4

\* A new create, and the ways to end one early.
LEMMA FaultsKeep ==
    ASSUME ProvisionIInv, Begin \/ CallFails \/ NeverAnswered \/ Killed
    PROVE  ProvisionIInv'
<1> USE CommandKnown, TimesKnown DEF ProvisionIInv
<1>1. CASE Begin
  <2>1. troubled' \in BOOLEAN /\ registered' \in BOOLEAN
        /\ serving' \in BOOLEAN /\ event' \in BOOLEAN
    BY <1>1, Zenon DEF TypeOK, Begin, hub
  <2>2. TypeOK'
    BY <1>1, <2>1, SMT
    DEF TypeOK, Steps, Limit, Providers, Begin, host, hub, Ended, Working, Requests,
        Volumes
  <2>3. Bounds'
    BY <1>1, SMT
    DEF TypeOK, Bounds, AgeOfToken, DownloadsInOrder, DownloadsMissing, TokenKnown, ScriptInOrder,
        Untroubled, Cost, Limit, MintsToken, Providers, Begin, host, hub, Ended,
        Working, Requests, Volumes
  <2> QED
    BY <2>2, <2>3 DEF Bounds
<1>2. CASE CallFails
  <2>1. events' \in 0 .. MaxEvents
    BY <1>2, EventCounts DEF Trouble, Event, Kept, LeftAsItIs, CallFails
  <2>2. TypeOK'
    BY <1>2, <2>1, SMT
    DEF TypeOK, Steps, Limit, Providers, Trouble, Event, Kept, LeftAsItIs, CallFails, host, hub,
        Ended, Working, Requests, Volumes
  <2>3. Bounds'
    BY <1>2, SMT
    DEF TypeOK, Bounds, AgeOfToken, DownloadsInOrder, DownloadsMissing, TokenKnown, ScriptInOrder,
        Untroubled, Cost, Limit, MintsToken, Providers, Trouble, Event, Kept,
        LeftAsItIs, CallFails, host, hub, Ended, Working, Requests, Volumes
  <2> QED
    BY <2>2, <2>3 DEF Bounds
<1>3. CASE NeverAnswered
  <2>1. events' \in 0 .. MaxEvents
    BY <1>3, EventCounts DEF Trouble, Event, NeverAnswered
  <2>2. TypeOK'
    BY <1>3, <2>1, SMT
    DEF TypeOK, Steps, Limit, Providers, Trouble, Event, NeverAnswered, host, hub,
        Ended, Working, Requests, Volumes
  <2>3. Bounds'
    BY <1>3, SMT
    DEF TypeOK, Bounds, AgeOfToken, DownloadsInOrder, DownloadsMissing, TokenKnown, ScriptInOrder,
        Untroubled, Cost, Limit, MintsToken, Providers, Trouble, Event, NeverAnswered,
        host, hub, Ended, Working, Requests, Volumes
  <2> QED
    BY <2>2, <2>3 DEF Bounds
<1>4. CASE Killed
  <2>1. events' \in 0 .. MaxEvents
    BY <1>4, EventCounts DEF Trouble, Event, Kept, LeftAsItIs, Killed
  <2>2. TypeOK'
    BY <1>4, <2>1, SMT
    DEF TypeOK, Steps, Limit, Providers, Trouble, Event, Kept, LeftAsItIs, Killed, host, hub,
        Ended, Working, Requests, Volumes
  <2>3. Bounds'
    BY <1>4, SMT
    DEF TypeOK, Bounds, AgeOfToken, DownloadsInOrder, DownloadsMissing, TokenKnown, ScriptInOrder,
        Untroubled, Cost, Limit, MintsToken, Providers, Trouble, Event, Kept, LeftAsItIs, Killed,
        host, hub, Ended, Working, Requests, Volumes
  <2> QED
    BY <2>2, <2>3 DEF Bounds
<1> QED
  BY <1>1, <1>2, <1>3, <1>4

\* The script of the guest.
LEMMA GuestKeeps ==
    ASSUME ProvisionIInv, RunCommand \/ GuestFails \/ GuestIsSpoiled
    PROVE  ProvisionIInv'
<1> USE CommandKnown, TimesKnown DEF ProvisionIInv
<1>1. CASE RunCommand
  <2>1. TypeOK'
    BY <1>1, SMT
    DEF TypeOK, Steps, Limit, Providers, After, Accepted, RunCommand, host, hub, Ended,
        Working, Requests, Volumes
  <2>2. Bounds'
    BY <1>1, SMT
    DEF TypeOK, Bounds, AgeOfToken, DownloadsInOrder, DownloadsMissing, TokenKnown, ScriptInOrder,
        Untroubled, Cost, Limit, MintsToken, Providers, After, Accepted, RunCommand,
        host, hub, Ended, Working, Requests, Volumes
  <2> QED
    BY <2>1, <2>2 DEF Bounds
<1>2. CASE GuestFails
  <2>1. events' \in 0 .. MaxEvents
    BY <1>2, EventCounts DEF Event, GuestFails
  <2>2. TypeOK'
    BY <1>2, <2>1, SMT
    DEF TypeOK, Steps, Limit, Providers, Event, GuestFails, host, hub, Ended, Working,
        Requests, Volumes
  <2>3. Bounds'
    BY <1>2, SMT
    DEF TypeOK, Bounds, AgeOfToken, DownloadsInOrder, DownloadsMissing, TokenKnown, ScriptInOrder,
        Untroubled, Cost, Limit, MintsToken, Providers, Event, GuestFails, host, hub,
        Ended, Working, Requests, Volumes
  <2> QED
    BY <2>2, <2>3 DEF Bounds
<1>3. CASE GuestIsSpoiled
  <2>1. TypeOK'
    BY <1>3, SMT
    DEF TypeOK, Steps, Limit, Providers, GuestIsSpoiled, host, hub, Ended, Working,
        Requests, Volumes
  <2>2. Bounds'
    BY <1>3, SMT
    DEF TypeOK, Bounds, AgeOfToken, DownloadsInOrder, DownloadsMissing, TokenKnown, ScriptInOrder,
        Untroubled, Cost, Limit, MintsToken, Providers, GuestIsSpoiled, host, hub,
        Ended, Working, Requests, Volumes
  <2> QED
    BY <2>1, <2>2 DEF Bounds
<1> QED
  BY <1>1, <1>2, <1>3

\* Time, and the publishers.
LEMMA TimeKeeps ==
    ASSUME ProvisionIInv, Pass \/ PassForGuest \/ \E v \in Volumes : NewRelease(v)
    PROVE  ProvisionIInv'
<1> USE CommandKnown, TimesKnown DEF ProvisionIInv
<1>1. CASE Pass
  <2>1. TypeOK'
    BY <1>1, OlderBounds, SMT
    DEF TypeOK, Steps, Limit, Providers, Pass, host, hub, Ended, Working, Requests,
        Volumes
  <2>2. Bounds'
    BY <1>1, OlderBounds, SMT
    DEF TypeOK, Bounds, AgeOfToken, DownloadsInOrder, DownloadsMissing, TokenKnown, ScriptInOrder,
        Untroubled, Cost, Limit, MintsToken, Providers, Pass, host, hub, Ended,
        Working, Requests, Volumes
  <2> QED
    BY <2>1, <2>2 DEF Bounds
<1>2. CASE PassForGuest
  <2>1. TypeOK'
    BY <1>2, OlderBounds, SMT
    DEF TypeOK, Steps, Limit, Providers, PassForGuest, host, hub, Ended, Working,
        Requests, Volumes
  <2>2. Bounds'
    BY <1>2, OlderBounds, SMT
    DEF TypeOK, Bounds, AgeOfToken, DownloadsInOrder, DownloadsMissing, TokenKnown, ScriptInOrder,
        Untroubled, Cost, Limit, MintsToken, Providers, PassForGuest, host, hub, Ended,
        Working, Requests, Volumes
  <2> QED
    BY <2>1, <2>2 DEF Bounds
<1>3. CASE \E v \in Volumes : NewRelease(v)
  <2> PICK v \in Volumes : NewRelease(v)
    BY <1>3
  <2>1. events' \in 0 .. MaxEvents
    BY EventCounts DEF Event, NewRelease
  <2>2. TypeOK'
    BY <2>1, SMT
    DEF TypeOK, Steps, Limit, Providers, Event, NewRelease, host, hub, Ended, Working,
        Requests, Volumes
  <2>3. Bounds'
    BY SMT
    DEF TypeOK, Bounds, AgeOfToken, DownloadsInOrder, DownloadsMissing, TokenKnown, ScriptInOrder,
        Untroubled, Cost, Limit, MintsToken, Providers, Event, NewRelease, host, hub,
        Ended, Working, Requests, Volumes
  <2> QED
    BY <2>2, <2>3 DEF Bounds
<1> QED
  BY <1>1, <1>2, <1>3

\* Every step satisfies it.
LEMMA ProvisionNext == ProvisionIInv /\ [Next]_vars => ProvisionIInv'
<1> SUFFICES ASSUME ProvisionIInv, [Next]_vars PROVE ProvisionIInv'
  OBVIOUS
<1>1. CASE UNCHANGED vars
  BY <1>1, TimesKnown
  DEF ProvisionIInv, TypeOK, AgeOfToken, DownloadsInOrder, DownloadsMissing, TokenKnown, ScriptInOrder,
      Untroubled, Cost, Limit, MintsToken, vars, host, hub
<1>2. CASE Next
  BY <1>2, TokensKeep, InfrastructureKeeps, MachineKeeps, FaultsKeep, GuestKeeps, TimeKeeps
  DEF Next, Create
<1> QED
  BY <1>1, <1>2

-----------------------------------------------------------------------------
(***************************************************************************)
(* The theorems.                                                           *)
(***************************************************************************)
\* The inductive invariant: how old the token may be, what was downloaded,
\* how far the script is (createCmd and GenerateUserData).
THEOREM ProvisionInductive == Spec => []ProvisionIInv
  BY ProvisionInit, ProvisionNext, PTL DEF Spec

\* Every variable has its shape, and no step of createCmd outlasts its deadline.
THEOREM ProvisionTypeOK == Spec => []TypeOK
<1>1. ProvisionIInv => TypeOK
  BY DEF ProvisionIInv
<1> QED
  BY <1>1, ProvisionInductive, PTL

\* A runner createCmd reports as ready is registered and its service runs, in a
\* guest that sends nothing but the report of its script.
THEOREM ReadyServes == Spec => []ReadyMeansServing
<1>1. ProvisionIInv => ReadyMeansServing
  BY DEF ProvisionIInv, ScriptInOrder, ReadyMeansServing
<1> QED
  BY <1>1, ProvisionInductive, PTL

\* Whenever a token outlives one download and the wait, only a create that
\* downloads twice can have its own token refused.
THEOREM OneCacheSuffices == Spec => []RefusedMeansCold
<1>1. ProvisionIInv => RefusedMeansCold
  BY DEF ProvisionIInv, Untroubled, RefusedMeansCold
<1> QED
  BY <1>1, ProvisionInductive, PTL

\* Without a failed call, an untimely guest or a volume left damaged by an
\* earlier create, the age of the token is the one thing create fails for.
THEOREM FailureIsExplained == Spec => []OnlyAgeFails
<1>1. ProvisionIInv => OnlyAgeFails
  BY DEF ProvisionIInv, TypeOK, Untroubled, ScriptInOrder, OnlyAgeFails, Ended
<1> QED
  BY <1>1, ProvisionInductive, PTL

-----------------------------------------------------------------------------
(***************************************************************************)
(* The shared cache.                                                       *)
(***************************************************************************)
LEMMA CacheInit == Init => Shared!Init
BY DEF Init, Shared!Init

\* A volume that is being filled is kept as it is only after a failure.
LEMMA LeftIsKept ==
    ASSUME ProvisionIInv, LeftAsItIs, troubled'
    PROVE  \E v \in Volumes : \E content \in {"good", "damaged"} : Shared!Keep(v, content)
BY DEF LeftAsItIs, Kept, Shared!Keep, ProvisionIInv, DownloadsMissing

LEMMA DownloadIsKept ==
    ASSUME ProvisionIInv, NEW v \in Volumes, NEW next, Download(v, v, next)
    PROVE  \E content \in {"good", "damaged"} : Shared!Keep(v, content)
BY DEF Download, Kept, Trouble, Shared!Keep, ProvisionIInv, DownloadsMissing

LEMMA CacheNext ==
    ProvisionIInv /\ ProvisionIInv' /\ [Next]_vars => [Shared!Next]_<<volume, troubled>>
<1> SUFFICES ASSUME ProvisionIInv, ProvisionIInv', [Next]_vars
             PROVE  Shared!Next \/ UNCHANGED <<volume, troubled>>
  OBVIOUS
<1>1. troubled' \in BOOLEAN
  BY DEF ProvisionIInv, TypeOK
<1>2. CASE UNCHANGED volume
  BY <1>1, <1>2 DEF Shared!Next
<1>3. CASE Download("image", "image", "lookupTools") \/ Download("tools", "tools", "validate")
  BY <1>1, <1>3, DownloadIsKept DEF Shared!Next, Volumes
<1>4. CASE LeftAsItIs /\ troubled'
  BY <1>1, <1>4, LeftIsKept DEF Shared!Next
<1>5. CASE \E v \in Volumes : NewRelease(v)
  BY <1>1, <1>5 DEF NewRelease, Shared!Next, Shared!Outdate
<1>6. CASE EnsureInfrastructure
  BY <1>2, <1>3, <1>6 DEF EnsureInfrastructure, phoneHomeBinaryPath, Lookup
<1>7. CASE Begin \/ Tokens \/ Validate \/ StartMachine \/ ReadEvent \/ WaitTimesOut
  BY <1>2, <1>7
  DEF Begin, Tokens, Connect, getInstallationID, GetInstallationToken,
      GetRunnerRegistrationToken, RunGh, Validate, StartMachine, ReadEvent, WaitTimesOut
<1>8. CASE CallFails \/ Killed
  BY <1>2, <1>4, <1>8 DEF CallFails, Killed, Trouble
<1>9. CASE NeverAnswered \/ RunCommand \/ GuestFails \/ GuestIsSpoiled \/ Pass \/ PassForGuest
  BY <1>2, <1>9 DEF NeverAnswered, RunCommand, GuestFails, GuestIsSpoiled, Pass, PassForGuest
<1>10. CASE UNCHANGED vars
  BY <1>2, <1>10 DEF vars
<1> QED
  BY <1>5, <1>6, <1>7, <1>8, <1>9, <1>10 DEF Next, Create

\* One create after the other keeps the promise that the creates of ImageCache
\* keep call by call: what EnsureInfrastructure finds here is what they leave.
THEOREM ProvisioningKeepsCache == Spec => KeepsCache
BY CacheInit, CacheNext, ProvisionInductive, PTL DEF Spec, KeepsCache, Shared!Spec

(***************************************************************************)
(* Why trying again heals: the steps of RetryHeals that need no fairness.  *)
(***************************************************************************)
\* A create that has passed a volume has it.
CacheFilled ==
    /\ pc \in {"lookupTools", "tools"} => volume["image"] # "none"
    /\ pc \in {"validate", "machine", "wait"} => \A v \in Volumes : volume[v] # "none"

LEMMA FilledInit == Init => CacheFilled
BY DEF Init, CacheFilled

LEMMA FilledNext == TypeOK /\ CacheFilled /\ [Next]_vars => CacheFilled'
<1> SUFFICES ASSUME TypeOK, CacheFilled, [Next]_vars PROVE CacheFilled'
  OBVIOUS
<1> USE DEF TypeOK, CacheFilled, Goes, Trouble
<1>1. CASE EnsureInfrastructure
  BY <1>1 DEF EnsureInfrastructure, phoneHomeBinaryPath, Lookup, Download, Kept, Volumes
<1>2. CASE Tokens
  BY <1>2, CommandKnown
  DEF Tokens, Connect, getInstallationID, GetInstallationToken, GetRunnerRegistrationToken,
      RunGh, Providers
<1>3. CASE Validate \/ StartMachine \/ ReadEvent \/ WaitTimesOut
  BY <1>3 DEF Validate, StartMachine, ReadEvent, WaitTimesOut
<1>4. CASE Begin \/ CallFails \/ Killed \/ NeverAnswered
  BY <1>4 DEF Begin, CallFails, Killed, NeverAnswered
<1>5. CASE RunCommand \/ GuestFails \/ GuestIsSpoiled \/ Pass \/ PassForGuest
  BY <1>5 DEF RunCommand, GuestFails, GuestIsSpoiled, Pass, PassForGuest, host
<1>6. CASE \E v \in Volumes : NewRelease(v)
  BY <1>6 DEF NewRelease, host
<1>7. CASE UNCHANGED vars
  BY <1>7 DEF vars, host
<1> QED
  BY <1>1, <1>2, <1>3, <1>4, <1>5, <1>6, <1>7 DEF Next, Create

\* A create that could obtain a token, and that fails although nothing went
\* wrong but its age, leaves both volumes behind for the next one.
FailsFilled ==
    pc # "failed" /\ pc' = "failed" /\ ~troubled' /\ MintsToken =>
        \A v \in Volumes : volume'[v] # "none"

\* What was in the cache when a create began stays there, as it is, and is not
\* downloaded, until it has ended.
UsesCached ==
    pc \notin Ended =>
        \A v \in Volumes : volume[v] # "none" =>
            /\ volume'[v] = volume[v]
            /\ v \in downloads' => v \in downloads

LEMMA FailsFilledStep == ProvisionIInv /\ CacheFilled /\ [Next]_vars => FailsFilled
<1> SUFFICES ASSUME ProvisionIInv, CacheFilled, [Next]_vars, pc # "failed", pc' = "failed",
                    ~troubled', MintsToken
             PROVE  \A v \in Volumes : volume'[v] # "none"
  BY DEF FailsFilled
<1> USE DEF Goes, Trouble
<1>1. CASE Validate \/ WaitTimesOut
  BY <1>1 DEF Validate, WaitTimesOut, CacheFilled
<1>2. ~Tokens
  BY CommandKnown
  DEF Tokens, Connect, getInstallationID, GetInstallationToken, GetRunnerRegistrationToken,
      RunGh, MintsToken, ProvisionIInv, Providers
<1>3. ~EnsureInfrastructure /\ ~StartMachine /\ ~ReadEvent
  BY DEF EnsureInfrastructure, phoneHomeBinaryPath, Lookup, Download, StartMachine, ReadEvent
<1>4. ~Begin /\ ~CallFails /\ ~Killed /\ ~NeverAnswered
  BY DEF Begin, CallFails, Killed, NeverAnswered
<1>5. ~RunCommand /\ ~GuestFails /\ ~GuestIsSpoiled /\ ~Pass /\ ~PassForGuest
  BY DEF RunCommand, GuestFails, GuestIsSpoiled, Pass, PassForGuest, host
<1>6. ~(\E v \in Volumes : NewRelease(v)) /\ ~UNCHANGED vars
  BY DEF NewRelease, host, vars
<1> QED
  BY <1>1, <1>2, <1>3, <1>4, <1>5, <1>6 DEF Next, Create

LEMMA UsesCachedStep == ProvisionIInv /\ [Next]_vars => UsesCached
<1> SUFFICES ASSUME ProvisionIInv, [Next]_vars, pc \notin Ended, NEW v \in Volumes,
                    volume[v] # "none"
             PROVE  volume'[v] = volume[v] /\ (v \in downloads' => v \in downloads)
  BY DEF UsesCached
<1>0. volume \in [Volumes -> {"none", "good", "damaged"}] /\ DownloadsMissing
  BY DEF ProvisionIInv, TypeOK
<1>1. CASE UNCHANGED <<volume, downloads>>
  BY <1>1
<1>2. ASSUME NEW w \in Volumes, NEW next, Download(w, w, next)
      PROVE  volume'[v] = volume[v] /\ (v \in downloads' => v \in downloads)
  <2>1. w # v /\ downloads' = downloads \cup {w}
    BY <1>0, <1>2 DEF Download, DownloadsMissing
  <2> QED
    BY <1>0, <1>2, <2>1 DEF Download, Kept
<1>3. CASE CallFails \/ Killed
  BY <1>0, <1>3 DEF CallFails, Killed, LeftAsItIs, Kept, DownloadsMissing
<1>4. CASE EnsureInfrastructure
  BY <1>1, <1>2, <1>4 DEF EnsureInfrastructure, phoneHomeBinaryPath, Lookup, Volumes
<1>5. CASE Tokens \/ Validate \/ StartMachine \/ ReadEvent \/ WaitTimesOut
  BY <1>1, <1>5
  DEF Tokens, Connect, getInstallationID, GetInstallationToken,
      GetRunnerRegistrationToken, RunGh, Validate, StartMachine, ReadEvent, WaitTimesOut
<1>6. ~Begin /\ ~(\E w \in Volumes : NewRelease(w))
  BY DEF Begin, NewRelease, Ended
<1>7. CASE NeverAnswered \/ RunCommand \/ GuestFails \/ GuestIsSpoiled \/ Pass \/ PassForGuest
  BY <1>1, <1>7
  DEF NeverAnswered, RunCommand, GuestFails, GuestIsSpoiled, Pass, PassForGuest, host
<1>8. CASE UNCHANGED vars
  BY <1>1, <1>8 DEF vars, host
<1> QED
  BY <1>3, <1>4, <1>5, <1>6, <1>7, <1>8 DEF Next, Create

\* After a failure of createCmd that was nobody's fault, the next one finds
\* both the image and the runner tools in the cache (CacheImage and
\* CacheRunnerTools, keepVolume) ...
THEOREM FailureFillsCache == Spec => [][FailsFilled]_vars
<1>1. ProvisionIInv /\ CacheFilled /\ [Next]_vars => [FailsFilled]_vars
  BY FailsFilledStep
<1>2. ProvisionIInv => TypeOK
  BY DEF ProvisionIInv
<1> QED
  BY <1>1, <1>2, FilledInit, FilledNext, ProvisionInductive, PTL DEF Spec

\* ... and downloads neither, so that by OneCacheSuffices its token is not
\* refused unless a newer release came out in between.
THEOREM CachedIsUsed == Spec => [][UsesCached]_vars
<1>1. ProvisionIInv /\ [Next]_vars => [UsesCached]_vars
  BY UsesCachedStep
<1> QED
  BY <1>1, ProvisionInductive, PTL DEF Spec

(***************************************************************************)
(* Why create ends: what the fairness of CreateEnds is applied to.         *)
(***************************************************************************)
\* How many steps of createCmd come after this one, at most.
StepsToEnd ==
    [connect |-> 13, installation |-> 12, access |-> 11, registration |-> 10, gh |-> 10,
     callback |-> 9, lookupImage |-> 8, image |-> 7, lookupTools |-> 6, tools |-> 5,
     validate |-> 4, machine |-> 3, wait |-> 2, hung |-> 1,
     ready |-> 0, failed |-> 0, killed |-> 0]

\* create is one step further, or its present step has used up some of the time
\* it has, or nothing happened to it.
GetsOn ==
    \/ StepsToEnd[pc'] < StepsToEnd[pc]
    \/ pc' = pc /\ spent' = spent + 1 /\ spent' <= Limit
    \/ pc' = pc /\ spent' = spent

LEMMA StepGetsOn == TypeOK /\ TypeOK' /\ pc \notin Ended /\ [Next]_vars => GetsOn
<1> SUFFICES ASSUME TypeOK, TypeOK', pc \notin Ended, [Next]_vars PROVE GetsOn
  OBVIOUS
<1> USE DEF GetsOn, Goes, Trouble
<1>1. CASE UNCHANGED <<pc, spent>>
  BY <1>1
<1>2. CASE Tokens
  BY <1>2, CommandKnown
  DEF Tokens, Connect, getInstallationID, GetInstallationToken, GetRunnerRegistrationToken,
      RunGh, Providers, StepsToEnd
<1>3. CASE EnsureInfrastructure
  BY <1>3 DEF EnsureInfrastructure, phoneHomeBinaryPath, Lookup, Download, StepsToEnd
<1>4. CASE Validate \/ StartMachine \/ ReadEvent \/ WaitTimesOut
  BY <1>4 DEF Validate, StartMachine, ReadEvent, WaitTimesOut, StepsToEnd
<1>5. CASE CallFails \/ Killed \/ NeverAnswered
  <2>1. pc \in Steps
    BY DEF TypeOK
  <2>2. pc' \in {"failed", "killed"} \/ (pc' = "hung" /\ pc \in Requests)
    BY <1>5 DEF CallFails, Killed, NeverAnswered
  <2> QED
    BY <2>1, <2>2 DEF Steps, Requests, Volumes, StepsToEnd
<1>6. CASE Pass
  <2>1. pc' = pc /\ spent' = spent + 1
    BY <1>6 DEF Pass
  <2>2. spent' <= Limit'
    BY DEF TypeOK
  <2> QED
    BY <2>1, <2>2 DEF Limit
<1>7. ~Begin /\ ~PassForGuest /\ ~(\E v \in Volumes : NewRelease(v))
  BY DEF Begin, PassForGuest, NewRelease, Ended
<1>8. RunCommand \/ GuestFails \/ GuestIsSpoiled => UNCHANGED <<pc, spent>>
  BY DEF RunCommand, GuestFails, GuestIsSpoiled, host
<1>9. UNCHANGED vars => UNCHANGED <<pc, spent>>
  BY DEF vars, host
<1> QED
  BY <1>1, <1>2, <1>3, <1>4, <1>5, <1>6, <1>7, <1>8, <1>9 DEF Next, Create

\* A create never goes back: whatever happens takes it to a later step of
\* createCmd or to its end, or uses up the time its present step has, or leaves
\* it where it is.  It hangs only where nothing limits the time of a request.
THEOREM CreateRunsOut == Spec => [][pc \notin Ended => GetsOn]_vars
<1>1. TypeOK /\ TypeOK' /\ [Next]_vars => [pc \notin Ended => GetsOn]_vars
  BY StepGetsOn
<1> QED
  BY <1>1, ProvisionTypeOK, PTL DEF Spec
================================================================================
