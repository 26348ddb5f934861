----------------------------- MODULE ImageCache -----------------------------
(***************************************************************************)
(* What create does before it makes a runner (Manager.EnsureInfrastructure *)
(* in internal/runner/manager.go): bring the storage pools up, then find   *)
(* or upload the base image and the runner tools ISO in the "images" pool. *)
(* Several creates may do this at once, and a create may find what an      *)
(* earlier one, perhaps a failed or killed one, left in the pool.          *)
(*                                                                         *)
(* Sources: internal/libvirt/storage.go (EnsureImagesPool, CacheImage,     *)
(* CacheRunnerTools).  A libvirt call is one atomic step, except that an   *)
(* upload in progress is visible to others between two steps.  All creates *)
(* of a day select the same image and the same runner release, so one      *)
(* volume name stands for each artifact.                                   *)
(***************************************************************************)
EXTENDS Naturals, FiniteSets

CONSTANTS
    Invocations,    \* processes, one per run of create
    Nobody,         \* maker of a volume that is absent
    Downloads,      \* what a download that reports success may contain
    MayFail,        \* TRUE: any libvirt call or transfer may return an error
    MayDie          \* TRUE: any invocation may be killed between two calls

ASSUME SomeInvocation == Invocations # {}
ASSUME NobodyIsNone == Nobody \notin Invocations
ASSUME DownloadsKnown == Downloads \subseteq {"good", "bad"} /\ Downloads # {}
ASSUME SwitchesBoolean == MayFail \in BOOLEAN /\ MayDie \in BOOLEAN

Pools     == {"default", "images"}
Artifacts == {"image", "tools"}

VARIABLES
    pool,       \* the two storage pools
    cache,      \* the volume of each artifact in the images pool
    pc,         \* the call an invocation makes next
    troubled    \* a call failed by itself, a download was bad, somebody was
                \* killed (history)

vars == <<pool, cache, pc, troubled>>

Absent    == [by |-> Nobody, content |-> "none"]
Cached(a) == cache[a].by # Nobody
Terminal  == {"ok", "error", "killed"}
Running(p) == pc[p] \notin Terminal \cup {"idle"}

\* The default pool is the host's; nobody made the images pool yet, but its
\* directory may be there.
Init ==
    /\ \E active, autostart, built \in BOOLEAN :
          pool = [q \in Pools |->
              IF q = "default"
              THEN [defined |-> TRUE, built |-> TRUE,
                    active |-> active, autostart |-> autostart]
              ELSE [defined |-> FALSE, built |-> built,
                    active |-> FALSE, autostart |-> FALSE]]
    /\ cache = [a \in Artifacts |-> Absent]
    /\ pc = [p \in Invocations |-> "idle"]
    /\ troubled = FALSE

Step(p, from, to) ==
    pc[p] = from /\ pc' = [pc EXCEPT ![p] = to] /\ UNCHANGED troubled

\* Faulty variant: the deletion is deferred before the volume was created.
OnFailureEarlyDefer(p) ==
    IF pc[p] \in {"imageCreate", "imageUpload", "imageVerify", "imageRefresh"}
    THEN "imageDiscard" ELSE "error"

\* Where the code goes when p's call returns an error: the deferred deletion
\* of an unfinished volume, the undefine of a pool that did not start, or out.
OnFailure(p) ==
    CASE pc[p] \in {"imageUpload", "imageVerify", "imageRefresh"} -> "imageDiscard"
      [] pc[p] \in {"toolsUpload", "toolsPath"}                   -> "toolsDiscard"
      [] pc[p] = "imagesBuild"                                    -> "imagesUndo"
      [] OTHER                                                    -> "error"

Fails(p) ==
    pc' = [pc EXCEPT ![p] = OnFailure(p)] /\ UNCHANGED <<pool, cache, troubled>>

(***************************************************************************)
(* EnsureImagesPool.                                                       *)
(***************************************************************************)
CheckActive(p, q, check, activate, mark) ==
    /\ pc[p] = check
    /\ IF pool[q].defined
       THEN Step(p, check, IF pool[q].active THEN mark ELSE activate)
            /\ UNCHANGED <<pool, cache>>
       ELSE Fails(p)

\* libvirt starts a directory pool only if its directory exists, and once.
Activate(p, q, activate, mark) ==
    /\ pc[p] = activate
    /\ IF pool[q].defined /\ pool[q].built /\ ~pool[q].active
       THEN Step(p, activate, mark)
            /\ pool' = [pool EXCEPT ![q].active = TRUE] /\ UNCHANGED cache
       ELSE Fails(p)

MarkAutostart(p, q, mark, done) ==
    /\ pc[p] = mark
    /\ IF pool[q].defined
       THEN Step(p, mark, done)
            /\ pool' = [pool EXCEPT ![q].autostart = TRUE] /\ UNCHANGED cache
       ELSE Fails(p)

ensurePoolReady(p, q, check, activate, mark, done) ==
    \/ CheckActive(p, q, check, activate, mark)
    \/ Activate(p, q, activate, mark)
    \/ MarkAutostart(p, q, mark, done)

\* Faulty variant: a pool that exists is taken for one that is up.
poolExistsSuffices(p) ==
    /\ Step(p, "imagesLookup",
            IF pool["images"].defined THEN "imageLookup" ELSE "imagesDefine")
    /\ UNCHANGED <<pool, cache>>

poolExists(p) ==
    /\ Step(p, "imagesLookup",
            IF pool["images"].defined THEN "imagesCheck" ELSE "imagesDefine")
    /\ UNCHANGED <<pool, cache>>

DefinePool(p) ==
    /\ pc[p] = "imagesDefine"
    /\ IF ~pool["images"].defined
       THEN Step(p, "imagesDefine", "imagesBuild")
            /\ pool' = [pool EXCEPT !["images"].defined = TRUE] /\ UNCHANGED cache
       ELSE Fails(p)

\* Creating the pool makes its directory first and may fail after that.
BuildPool(p) ==
    /\ pc[p] = "imagesBuild"
    /\ IF pool["images"].defined /\ ~pool["images"].active
       THEN \/ /\ Step(p, "imagesBuild", "imagesMark")
               /\ pool' = [pool EXCEPT !["images"].built = TRUE,
                                       !["images"].active = TRUE]
            \/ /\ MayFail /\ pc' = [pc EXCEPT ![p] = "imagesUndo"]
               /\ pool' = [pool EXCEPT !["images"].built = TRUE]
               /\ troubled' = TRUE
       ELSE Fails(p) /\ UNCHANGED pool
    /\ UNCHANGED cache

\* An active pool refuses to be undefined; the error is dropped.
UndoPool(p) ==
    /\ Step(p, "imagesUndo", "error")
    /\ pool' = IF pool["images"].active THEN pool
               ELSE [pool EXCEPT !["images"].defined = FALSE,
                                 !["images"].autostart = FALSE]
    /\ UNCHANGED cache

EnsureImagesPool(p) ==
    \/ ensurePoolReady(p, "default", "defaultCheck", "defaultActivate",
                       "defaultMark", "imagesLookup")
    \/ poolExists(p)
    \/ ensurePoolReady(p, "images", "imagesCheck", "imagesActivate",
                       "imagesMark", "imageLookup")
    \/ DefinePool(p)
    \/ BuildPool(p)
    \/ UndoPool(p)

(***************************************************************************)
(* CacheImage and CacheRunnerTools.                                        *)
(***************************************************************************)
\* A volume of the right name is taken as it is.
LookupVolume(p, a, lookup, hit, miss) ==
    /\ Step(p, lookup, IF Cached(a) THEN hit ELSE miss)
    /\ UNCHANGED <<pool, cache>>

\* Faulty variants: a conflicting volume is replaced; it is deleted on the way
\* out.
CreateVolumeReplaces(p, a, create, upload) ==
    /\ Step(p, create, upload)
    /\ cache' = [cache EXCEPT ![a] = [by |-> p, content |-> "partial"]]
    /\ UNCHANGED pool
CreateVolumeClears(p, a, create, upload) ==
    /\ IF Cached(a)
       THEN Step(p, create, "error") /\ cache' = [cache EXCEPT ![a] = Absent]
       ELSE /\ Step(p, create, upload)
            /\ cache' = [cache EXCEPT ![a] = [by |-> p, content |-> "partial"]]
    /\ UNCHANGED pool

\* A conflict ends the command before the deletion is deferred.
CreateVolume(p, a, create, upload) ==
    /\ pc[p] = create
    /\ IF Cached(a)
       THEN Fails(p)
       ELSE /\ Step(p, create, upload)
            /\ cache' = [cache EXCEPT ![a] = [by |-> p, content |-> "partial"]]
            /\ UNCHANGED pool

\* Faulty variant: the upload goes on behind the command's back.
UploadVolumeBehind(p, a, upload, next) ==
    Step(p, upload, next) /\ UNCHANGED <<pool, cache>>

UploadVolume(p, a, upload, next) ==
    /\ pc[p] = upload
    /\ IF Cached(a)
       THEN \E c \in Downloads :
               /\ pc' = [pc EXCEPT ![p] = next]
               /\ cache' = [cache EXCEPT ![a].content = c]
               /\ troubled' = (troubled \/ c = "bad")
               /\ UNCHANGED pool
       ELSE Fails(p)

\* Faulty variant: the checksum is not compared.
VerifyImageSkipped(p) ==
    Step(p, "imageVerify", "imageRefresh") /\ UNCHANGED <<pool, cache>>

\* The checksum is the one of the bytes that were just uploaded.
VerifyImage(p) ==
    /\ pc[p] = "imageVerify"
    /\ IF cache["image"].content = "good"
       THEN Step(p, "imageVerify", "imageRefresh") /\ UNCHANGED <<pool, cache>>
       ELSE Fails(p)

RefreshPool(p) ==
    /\ Step(p, "imageRefresh", "toolsLookup")
    /\ UNCHANGED <<pool, cache>>

DiscardVolume(p, a, discard) ==
    /\ Step(p, discard, "error")
    /\ cache' = [cache EXCEPT ![a] = Absent]
    /\ UNCHANGED pool

CacheImage(p) ==
    \/ LookupVolume(p, "image", "imageLookup", "toolsLookup", "imageCreate")
    \/ CreateVolume(p, "image", "imageCreate", "imageUpload")
    \/ UploadVolume(p, "image", "imageUpload", "imageVerify")
    \/ VerifyImage(p)
    \/ RefreshPool(p)
    \/ DiscardVolume(p, "image", "imageDiscard")

\* The path of the uploaded ISO is asked for by name.
ToolsPath(p) ==
    /\ pc[p] = "toolsPath"
    /\ IF Cached("tools")
       THEN Step(p, "toolsPath", "ok") /\ UNCHANGED <<pool, cache>>
       ELSE Fails(p)

CacheRunnerTools(p) ==
    \/ LookupVolume(p, "tools", "toolsLookup", "ok", "toolsCreate")
    \/ CreateVolume(p, "tools", "toolsCreate", "toolsUpload")
    \/ UploadVolume(p, "tools", "toolsUpload", "toolsPath")
    \/ ToolsPath(p)
    \/ DiscardVolume(p, "tools", "toolsDiscard")

(***************************************************************************)
(* The processes.                                                          *)
(***************************************************************************)
Begin(p) ==
    /\ Step(p, "idle", "defaultCheck")
    /\ UNCHANGED <<pool, cache>>

CallFails(p) ==
    /\ MayFail /\ Running(p)
    /\ pc' = [pc EXCEPT ![p] = OnFailure(p)] /\ troubled' = TRUE
    /\ UNCHANGED <<pool, cache>>

Killed(p) ==
    /\ MayDie /\ Running(p)
    /\ pc' = [pc EXCEPT ![p] = "killed"] /\ troubled' = TRUE
    /\ UNCHANGED <<pool, cache>>

EnsureInfrastructure(p) ==
    \/ EnsureImagesPool(p)
    \/ CacheImage(p)
    \/ CacheRunnerTools(p)
    \/ CallFails(p)

Next == \E p \in Invocations :
    Begin(p) \/ EnsureInfrastructure(p) \/ Killed(p)

Spec == Init /\ [][Next]_vars

-----------------------------------------------------------------------------
(***************************************************************************)
(* Type invariant.                                                         *)
(***************************************************************************)
PoolSteps ==
    {"defaultCheck", "defaultActivate", "defaultMark", "imagesLookup",
     "imagesCheck", "imagesActivate", "imagesMark", "imagesDefine",
     "imagesBuild", "imagesUndo"}
Making(a) ==
    IF a = "image"
    THEN {"imageUpload", "imageVerify", "imageRefresh", "imageDiscard"}
    ELSE {"toolsUpload", "toolsPath", "toolsDiscard"}
CacheSteps ==
    {"imageLookup", "imageCreate", "toolsLookup", "toolsCreate"}
        \cup Making("image") \cup Making("tools")
PoolStates ==
    [defined: BOOLEAN, built: BOOLEAN, active: BOOLEAN, autostart: BOOLEAN]
VolumeStates ==
    [by: Invocations \cup {Nobody},
     content: {"none", "partial"} \cup {"good", "bad"}]

\* Every variable keeps its shape.
TypeOK ==
    /\ pool \in [Pools -> PoolStates]
    /\ cache \in [Artifacts -> VolumeStates]
    /\ pc \in [Invocations ->
                  PoolSteps \cup CacheSteps \cup Terminal \cup {"idle"}]
    /\ troubled \in BOOLEAN

(***************************************************************************)
(* Safety.                                                                 *)
(***************************************************************************)
\* Only the invocation that made a cached volume ever deletes it, and only
\* before it handed that volume on: a failing create never takes away what
\* another one uploaded.
OnlyMakerDiscardsStep ==
    \A a \in Artifacts : Cached(a) /\ cache'[a].by # cache[a].by =>
        \E p \in Invocations :
            cache[a].by = p /\ pc[p] \in Making(a) /\ pc'[p] = "error"
OnlyMakerDiscards == [][OnlyMakerDiscardsStep]_vars

\* An image that is not the published one is traced to a create that is still
\* at work on it, was killed, or reported an error: no create that went on
\* with its own upload left a wrong image behind.
BadImageTraced ==
    Cached("image") /\ cache["image"].content # "good" =>
        pc[cache["image"].by] \in
            {"imageUpload", "imageVerify", "imageDiscard", "error", "killed"}

\* A half-uploaded ISO of the runner tools belongs to a create that is still at
\* work on it, was killed, or reported an error.
PartialToolsTraced ==
    Cached("tools") /\ cache["tools"].content = "partial" =>
        pc[cache["tools"].by] \in {"toolsUpload", "toolsDiscard", "error", "killed"}

\* Volumes are looked up and uploaded only in a pool that is up, whoever
\* defined it and whoever failed to.
PoolUsable ==
    \A p \in Invocations : pc[p] \in CacheSteps =>
        pool["images"].defined /\ pool["images"].built /\ pool["images"].active

\* However first creates race for the pools and the two volumes, they do not
\* all lose: unless a call fails by itself, a download is bad or somebody is
\* killed, one has succeeded when every one has ended.
RaceHasWinner ==
    (\A p \in Invocations : pc[p] \in Terminal) /\ ~troubled =>
        \E p \in Invocations : pc[p] = "ok"

\* The image a create goes on with is the published one.
DeliveredIsVerified ==
    [][\A p \in Invocations :
          pc[p] # "toolsLookup" /\ pc'[p] = "toolsLookup" =>
              cache["image"].content = "good"]_vars

(***************************************************************************)
(* What the next create finds, as it is in Provisioning.                   *)
(***************************************************************************)
\* A volume counts when its maker has let go of it.
Kept(a) == Cached(a) /\ pc[cache[a].by] \notin Making(a)

Volume(a) ==
    CASE ~Kept(a)                               -> "none"
      [] Kept(a) /\ cache[a].content = "good"   -> "good"
      [] Kept(a) /\ cache[a].content # "good"   -> "damaged"

Shared == INSTANCE SharedCache WITH
              Volumes <- Artifacts, Renewed <- FALSE,
              volume <- [a \in Artifacts |-> Volume(a)]

\* However creates overlap, fail and die, together they are the cache that
\* Provisioning takes for granted: nobody takes back or overwrites a volume
\* that its maker has let go of (keepVolume), and none is damaged unless
\* something went wrong by itself.
KeepsCache == Shared!Spec

(***************************************************************************)
(* The inductive invariant.                                                *)
(***************************************************************************)
MakerHolds ==
    \A p \in Invocations, a \in Artifacts :
        pc[p] \in Making(a) => cache[a].by = p
RefreshesGood ==
    \A p \in Invocations : pc[p] = "imageRefresh" => cache["image"].content = "good"
ActivePool ==
    /\ pool["images"].active => pool["images"].defined /\ pool["images"].built
    /\ \A p \in Invocations :
          pc[p] \in {"imagesMark"} \cup CacheSteps => pool["images"].active

\* Half a volume is not done, and a bad one was a bad download.
ContentKnown ==
    \A a \in Artifacts : Cached(a) =>
        /\ cache[a].content # "none"
        /\ cache[a].content = "bad" => troubled

MakerIInv ==
    /\ TypeOK
    /\ MakerHolds
    /\ RefreshesGood
    /\ BadImageTraced
    /\ PartialToolsTraced
    /\ ActivePool

\* Where the create stands that has not lost the race so far.
Leading ==
    CASE Cached("tools") -> {"toolsUpload", "toolsPath", "ok"}
      [] ~Cached("tools") /\ Cached("image") ->
             {"imageUpload", "imageVerify", "imageRefresh", "toolsLookup", "toolsCreate"}
      [] ~Cached("tools") /\ ~Cached("image") /\ pool["images"].active ->
             {"imagesMark", "imageLookup", "imageCreate"}
      [] ~pool["images"].active /\ pool["images"].defined -> {"imagesBuild"}
      [] ~pool["images"].defined /\ pool["default"].active ->
             {"idle", "defaultCheck", "defaultMark", "imagesLookup", "imagesDefine"}
      [] ~pool["default"].active -> {"idle", "defaultCheck", "defaultActivate"}

\* What is brought up stays up, and no volume is taken back.
RaceGoesOn ==
    /\ pool["default"].defined /\ pool["default"].built
    /\ pool["images"].defined => pool["default"].active
    /\ Cached("image") => pool["images"].active
    /\ Cached("tools") => Cached("image")
    /\ \A p \in Invocations :
          /\ pc[p] \notin {"killed", "imageDiscard", "toolsDiscard"}
          /\ ~pool["default"].active =>
                pc[p] \in {"idle", "defaultCheck", "defaultActivate"}
          /\ pc[p] = "imagesBuild" => pool["images"].defined
          /\ pc[p] = "imagesUndo" => pool["images"].active
          /\ pc[p] = "imageVerify" => cache["image"].content = "good"
          /\ pc[p] \in {"toolsLookup", "toolsCreate"} => Cached("image")

RaceIInv == ~troubled => RaceGoesOn /\ \E p \in Invocations : pc[p] \in Leading

CacheIInv == MakerIInv /\ ContentKnown /\ RaceIInv
=============================================================================
