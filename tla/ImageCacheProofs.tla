-------------------------- MODULE ImageCacheProofs --------------------------
(***************************************************************************)
(* Theorems about ImageCache, for any number of creates, overlapping or    *)
(* not, with every fault and any download allowed.                         *)
(***************************************************************************)
EXTENDS ImageCache, TLAPS

LEMMA InitInv == Init => MakerIInv
<1> SUFFICES ASSUME Init PROVE MakerIInv
  OBVIOUS
<1>1. pool \in [Pools -> PoolStates]
  BY DEF Init, PoolStates
<1>2. cache \in [Artifacts -> VolumeStates] /\ \A a \in Artifacts : cache[a].by = Nobody
  BY DEF Init, Absent, VolumeStates
<1>3. \A p \in Invocations : pc[p] = "idle"
  BY DEF Init
<1>4. TypeOK
  BY <1>1, <1>2 DEF Init, TypeOK
<1>5. MakerHolds /\ RefreshesGood /\ BadImageTraced /\ PartialToolsTraced
  BY <1>2, <1>3
  DEF MakerHolds, RefreshesGood, BadImageTraced, PartialToolsTraced, Cached, Making, Artifacts
<1>6. ActivePool
  BY <1>3 DEF Init, ActivePool, CacheSteps, Making, Pools
<1> QED
  BY <1>4, <1>5, <1>6 DEF MakerIInv

\* Whatever happens, the history stays a truth value.
LEMMA TroubledIsBoolean ==
  ASSUME MakerIInv, NEW p \in Invocations,
         Begin(p) \/ EnsureInfrastructure(p) \/ Killed(p)
  PROVE  troubled' \in BOOLEAN
<1>0. troubled \in BOOLEAN
  BY DEF MakerIInv, TypeOK
<1>1. CASE EnsureImagesPool(p)
  BY <1>0, <1>1, Zenon
  DEF EnsureImagesPool, ensurePoolReady, CheckActive, Activate, MarkAutostart, poolExists,
      DefinePool, BuildPool, UndoPool, Fails, Step
<1>2. CASE CacheImage(p) \/ CacheRunnerTools(p)
  <2>1. CASE \E a \in Artifacts, upload, next \in CacheSteps : UploadVolume(p, a, upload, next)
    BY <1>0, <2>1, Zenon DEF UploadVolume, Fails
  <2>2. CASE \A a \in Artifacts, upload, next \in CacheSteps : ~UploadVolume(p, a, upload, next)
    <3>1. ~UploadVolume(p, "image", "imageUpload", "imageVerify")
          /\ ~UploadVolume(p, "tools", "toolsUpload", "toolsPath")
      BY <2>2 DEF Artifacts, CacheSteps, Making
    <3> QED
      BY <1>0, <1>2, <3>1, Zenon
      DEF CacheImage, CacheRunnerTools, LookupVolume, CreateVolume, VerifyImage,
          RefreshPool, DiscardVolume, ToolsPath, Fails, Step
  <2> QED
    BY <2>1, <2>2
<1>3. CASE Begin(p) \/ CallFails(p) \/ Killed(p)
  BY <1>0, <1>3, Zenon DEF Begin, CallFails, Killed, Step
<1> QED
  BY <1>1, <1>2, <1>3 DEF EnsureInfrastructure

\* A step that leaves the pools and the volumes alone.
LEMMA FailureSteps ==
  ASSUME NEW p \in Invocations
  PROVE  OnFailure(p) \in {"imageDiscard", "toolsDiscard", "imagesUndo", "error"}
BY DEF OnFailure

(***************************************************************************)
(* The pools.                                                              *)
(***************************************************************************)
LEMMA PoolStep ==
  ASSUME MakerIInv, NEW p \in Invocations, EnsureImagesPool(p)
  PROVE  /\ UNCHANGED cache
         /\ pc' = [pc EXCEPT ![p] = pc'[p]]
         /\ pc[p] \in PoolSteps
         /\ pc'[p] \in PoolSteps \cup {"imageLookup", "error"}
BY DEF EnsureImagesPool, ensurePoolReady, CheckActive, Activate, MarkAutostart, poolExists,
    DefinePool, BuildPool, UndoPool, Fails, OnFailure, Step, PoolSteps, MakerIInv, TypeOK

LEMMA PoolStepTypes ==
  ASSUME MakerIInv, NEW p \in Invocations, EnsureImagesPool(p)
  PROVE  pool' \in [Pools -> PoolStates]
<1>0. pool \in [Pools -> PoolStates] /\ "default" \in Pools /\ "images" \in Pools
  BY DEF MakerIInv, TypeOK, Pools
<1>1. ASSUME NEW q \in Pools, NEW check, NEW activate, NEW mark, NEW done,
             ensurePoolReady(p, q, check, activate, mark, done)
      PROVE  pool' \in [Pools -> PoolStates]
  <2>1. CASE CheckActive(p, q, check, activate, mark)
    BY <1>0, <2>1 DEF CheckActive, Fails
  <2>2. CASE Activate(p, q, activate, mark)
    BY <1>0, <2>2 DEF Activate, Fails, PoolStates
  <2>3. CASE MarkAutostart(p, q, mark, done)
    BY <1>0, <2>3 DEF MarkAutostart, Fails, PoolStates
  <2> QED
    BY <1>1, <2>1, <2>2, <2>3 DEF ensurePoolReady
<1>2. CASE poolExists(p) \/ DefinePool(p)
  BY <1>0, <1>2 DEF poolExists, DefinePool, Fails, PoolStates
<1>3. CASE BuildPool(p)
  <2>1. pool["images"] \in PoolStates
    BY <1>0
  <2>2. CASE pool' = [pool EXCEPT !["images"].built = TRUE, !["images"].active = TRUE]
    BY <1>0, <2>1, <2>2 DEF PoolStates
  <2>3. CASE pool' = [pool EXCEPT !["images"].built = TRUE]
    BY <1>0, <2>1, <2>3 DEF PoolStates
  <2> QED
    BY <1>0, <1>3, <2>2, <2>3 DEF BuildPool
<1>4. CASE UndoPool(p)
  BY <1>0, <1>4 DEF UndoPool, PoolStates
<1> QED
  BY <1>0, <1>1, <1>2, <1>3, <1>4 DEF EnsureImagesPool

LEMMA PoolStepActive ==
  ASSUME MakerIInv, NEW p \in Invocations, EnsureImagesPool(p)
  PROVE  ActivePool'
BY PoolStep
DEF EnsureImagesPool, ensurePoolReady, CheckActive, Activate, MarkAutostart, poolExists,
    DefinePool, BuildPool, UndoPool, Fails, OnFailure, Step, PoolStates, Pools, MakerIInv, TypeOK,
    ActivePool, CacheSteps, Making

LEMMA CacheStep ==
  ASSUME MakerIInv, NEW p \in Invocations, CacheImage(p) \/ CacheRunnerTools(p)
  PROVE  /\ UNCHANGED pool
         /\ pc' = [pc EXCEPT ![p] = pc'[p]]
         /\ pc[p] \in CacheSteps
         /\ pc'[p] \in CacheSteps \cup {"ok", "error"}
BY DEF CacheImage, CacheRunnerTools, LookupVolume, CreateVolume, UploadVolume,
    VerifyImage, RefreshPool, DiscardVolume, ToolsPath, Fails, OnFailure, Step,
    CacheSteps, Making, MakerIInv, TypeOK

LEMMA CacheStepTypes ==
  ASSUME MakerIInv, NEW p \in Invocations, CacheImage(p) \/ CacheRunnerTools(p)
  PROVE  cache' \in [Artifacts -> VolumeStates]
BY DownloadsKnown
DEF CacheImage, CacheRunnerTools, LookupVolume, CreateVolume, UploadVolume,
    VerifyImage, RefreshPool, DiscardVolume, ToolsPath, Fails, Artifacts,
    VolumeStates, Absent, MakerIInv, TypeOK

\* What a step does to the volume of one artifact: p fills an empty slot and
\* holds it, replaces the content while it holds it, or empties the slot it
\* holds.
LEMMA CacheStepVolume ==
  ASSUME MakerIInv, NEW p \in Invocations, CacheImage(p) \/ CacheRunnerTools(p),
         NEW a \in Artifacts
  PROVE  \/ cache'[a] = cache[a] /\ (pc'[p] \in Making(a) => pc[p] \in Making(a))
         \/ ~Cached(a) /\ cache'[a].by = p /\ pc'[p] \in {"imageUpload", "toolsUpload"}
         \/ /\ pc[p] \in Making(a) /\ cache'[a].by = cache[a].by
            /\ pc'[p] \in {"imageVerify", "toolsPath"}
         \/ /\ pc[p] \in Making(a) /\ cache'[a] = Absent /\ pc'[p] = "error"
<1>0. /\ cache \in [Artifacts -> VolumeStates]
      /\ pc \in [Invocations -> PoolSteps \cup CacheSteps \cup Terminal \cup {"idle"}]
      /\ "image" \in Artifacts /\ "tools" \in Artifacts
  BY DEF MakerIInv, TypeOK, Artifacts
<1>1. CASE CacheImage(p)
  BY <1>0, <1>1
  DEF CacheImage, LookupVolume, CreateVolume, UploadVolume, VerifyImage, RefreshPool,
      DiscardVolume, Fails, OnFailure, Step, Making, Artifacts, VolumeStates, Cached
<1>2. CASE CacheRunnerTools(p)
  BY <1>0, <1>2
  DEF CacheRunnerTools, LookupVolume, CreateVolume, UploadVolume, ToolsPath,
      DiscardVolume, Fails, OnFailure, Step, Making, Artifacts, VolumeStates, Cached
<1> QED
  BY <1>1, <1>2

\* An empty slot is filled by the upload of that very artifact.
LEMMA CacheStepImage ==
  ASSUME MakerIInv, NEW p \in Invocations, CacheImage(p) \/ CacheRunnerTools(p),
         cache'["image"].by # cache["image"].by, cache["image"].by = Nobody
  PROVE  pc'[p] = "imageUpload"
BY DEF CacheImage, CacheRunnerTools, LookupVolume, CreateVolume, UploadVolume,
    VerifyImage, RefreshPool, DiscardVolume, ToolsPath, Fails, Step, Absent, Cached,
    Artifacts, VolumeStates, MakerIInv, TypeOK

\* When p leaves the upload of the image for good, the image is the right one.
LEMMA CacheStepVerified ==
  ASSUME MakerIInv, NEW p \in Invocations, CacheImage(p) \/ CacheRunnerTools(p)
  PROVE  /\ pc'[p] = "imageRefresh" => cache'["image"].content = "good"
         /\ pc[p] = "imageRefresh" => pc'[p] = "toolsLookup" /\ UNCHANGED cache
         /\ pc[p] \in {"imageUpload", "imageVerify", "imageDiscard"} =>
              pc'[p] \in {"imageVerify", "imageDiscard", "error"}
                 \/ cache'["image"].content = "good"
BY DEF CacheImage, CacheRunnerTools, LookupVolume, CreateVolume, UploadVolume,
    VerifyImage, RefreshPool, DiscardVolume, ToolsPath, Fails, OnFailure, Step,
    CacheSteps, Making, MakerIInv, TypeOK

\* An ISO is partial from its creation to its upload.
LEMMA CacheStepPartial ==
  ASSUME MakerIInv, NEW p \in Invocations, CacheImage(p) \/ CacheRunnerTools(p),
         cache'["tools"].content = "partial"
  PROVE  \/ cache'["tools"].by = p /\ pc'[p] = "toolsUpload"
         \/ /\ cache'["tools"] = cache["tools"]
            /\ pc[p] \in {"toolsUpload", "toolsDiscard"} => pc'[p] \in {"toolsDiscard", "error"}
BY DownloadsKnown
DEF CacheImage, CacheRunnerTools, LookupVolume, CreateVolume, UploadVolume,
    VerifyImage, RefreshPool, DiscardVolume, ToolsPath, Fails, OnFailure, Step, Absent, Cached,
    Artifacts, VolumeStates, MakerIInv, TypeOK

(***************************************************************************)
(* The inductive invariant.                                                *)
(***************************************************************************)
LEMMA MovesPc ==
  ASSUME MakerIInv, NEW p \in Invocations, NEW x,
         pc' = [pc EXCEPT ![p] = x],
         x \in PoolSteps \cup CacheSteps \cup Terminal
  PROVE  /\ pc' \in [Invocations -> PoolSteps \cup CacheSteps \cup Terminal \cup {"idle"}]
         /\ pc'[p] = x
         /\ \A q \in Invocations \ {p} : pc'[q] = pc[q]
BY DEF MakerIInv, TypeOK

LEMMA PoolKeepsInv ==
  ASSUME MakerIInv, NEW p \in Invocations, EnsureImagesPool(p)
  PROVE  MakerIInv'
<1>1. /\ pc' \in [Invocations -> PoolSteps \cup CacheSteps \cup Terminal \cup {"idle"}]
      /\ \A q \in Invocations \ {p} : pc'[q] = pc[q]
      /\ pc'[p] \in PoolSteps \cup {"imageLookup", "error"}
      /\ pc[p] \in PoolSteps /\ UNCHANGED cache
  BY PoolStep, MovesPc DEF CacheSteps, Terminal
<1>2. TypeOK' /\ ActivePool'
  BY <1>1, PoolStepTypes, PoolStepActive, TroubledIsBoolean
  DEF MakerIInv, TypeOK, EnsureInfrastructure
<1>3. MakerHolds' /\ RefreshesGood'
  BY <1>1 DEF MakerIInv, MakerHolds, RefreshesGood, Making, PoolSteps
<1>4. BadImageTraced'
  <2>1. pc[p] \notin {"imageUpload", "imageVerify", "imageDiscard", "error", "killed"}
    BY <1>1 DEF PoolSteps
  <2>2. cache["image"].by \in Invocations \cup {Nobody}
    BY DEF MakerIInv, TypeOK, Artifacts, VolumeStates
  <2> QED
    BY <1>1, <2>1, <2>2 DEF MakerIInv, BadImageTraced, Cached
<1>5. PartialToolsTraced'
  <2>1. cache["tools"].by \in Invocations \cup {Nobody}
    BY DEF MakerIInv, TypeOK, Artifacts, VolumeStates
  <2> QED
    BY <1>1, <2>1 DEF MakerIInv, PartialToolsTraced, Cached, PoolSteps
<1> QED
  BY <1>2, <1>3, <1>4, <1>5 DEF MakerIInv

LEMMA CacheKeepsInv ==
  ASSUME MakerIInv, NEW p \in Invocations, CacheImage(p) \/ CacheRunnerTools(p)
  PROVE  MakerIInv'
<1>1. /\ pc' \in [Invocations -> PoolSteps \cup CacheSteps \cup Terminal \cup {"idle"}]
      /\ \A q \in Invocations \ {p} : pc'[q] = pc[q]
      /\ pc'[p] \in CacheSteps \cup {"ok", "error"}
      /\ pc[p] \in CacheSteps /\ UNCHANGED pool
  BY CacheStep, MovesPc DEF Terminal
<1>2. TypeOK'
  BY <1>1, CacheStepTypes, TroubledIsBoolean DEF MakerIInv, TypeOK, EnsureInfrastructure
<1>3. ActivePool'
  BY <1>1 DEF MakerIInv, ActivePool, CacheSteps, Making
<1>4. MakerHolds'
  <2> SUFFICES ASSUME NEW q \in Invocations, NEW a \in Artifacts, pc'[q] \in Making(a)
               PROVE  cache'[a].by = q
    BY DEF MakerHolds
  <2>1. pc[q] \in Making(a) => cache[a].by = q
    BY DEF MakerIInv, MakerHolds
  <2>2. pc[p] \in Making(a) => cache[a].by = p
    BY DEF MakerIInv, MakerHolds
  <2>3. CASE q = p
    BY <2>1, <2>3, CacheStepVolume DEF Making
  <2>4. CASE q # p
    <3>1. pc'[q] = pc[q]
      BY <1>1, <2>4
    <3>2. Cached(a)
      BY <2>1, <3>1, NobodyIsNone DEF Cached
    <3> QED
      BY <2>1, <2>2, <2>4, <3>1, <3>2, CacheStepVolume
  <2> QED
    BY <2>3, <2>4
<1>5. "image" \in Artifacts
  BY DEF Artifacts
<1>6. \A q \in Invocations \ {p} :
        cache[ "image" ].by = q =>
          \/ cache'["image"] = cache["image"]
          \/ cache'["image"] = Absent
  BY <1>5, CacheStepVolume, NobodyIsNone DEF Cached, MakerIInv, MakerHolds
<1>7. RefreshesGood'
  <2> SUFFICES ASSUME NEW q \in Invocations, pc'[q] = "imageRefresh"
               PROVE  cache'["image"].content = "good"
    BY DEF RefreshesGood
  <2>1. CASE q = p
    BY <2>1, CacheStepVerified
  <2>2. CASE q # p
    <3>1. pc[q] = "imageRefresh" /\ cache["image"].by = q
      BY <1>1, <1>5, <2>2 DEF MakerIInv, MakerHolds, Making
    <3>2. cache'["image"].by = q
      BY <1>4, <1>5 DEF MakerHolds, Making
    <3> QED
      BY <1>6, <2>2, <3>1, <3>2, NobodyIsNone DEF MakerIInv, RefreshesGood, Absent
  <2> QED
    BY <2>1, <2>2
<1>8. BadImageTraced'
  <2> SUFFICES ASSUME cache'["image"].by # Nobody, cache'["image"].content # "good"
               PROVE  pc'[cache'["image"].by] \in
                        {"imageUpload", "imageVerify", "imageDiscard", "error", "killed"}
    BY DEF BadImageTraced, Cached
  <2>1. cache'["image"] # Absent /\ cache'["image"].by \in Invocations
    BY <1>2, <1>5 DEF Absent, TypeOK, VolumeStates
  <2>2. CASE ~Cached("image")
    <3>1. cache'["image"].by = p
      BY <1>5, <2>2, CacheStepVolume, NobodyIsNone
      DEF Cached, MakerIInv, MakerHolds
    <3> QED
      BY <3>1, <2>2, CacheStepImage DEF Cached
  <2>3. CASE Cached("image") /\ cache["image"].by = p
    BY <1>1, <1>5, <2>1, <2>3, CacheStepVolume, CacheStepVerified, NobodyIsNone
    DEF MakerIInv, BadImageTraced, RefreshesGood, CacheSteps, Making
  <2>4. CASE Cached("image") /\ cache["image"].by # p
    <3>1. cache'["image"] = cache["image"]
      BY <1>5, <2>1, <2>4, CacheStepVolume DEF MakerIInv, MakerHolds
    <3> QED
      BY <1>1, <2>1, <2>4, <3>1 DEF MakerIInv, BadImageTraced
  <2> QED
    BY <2>2, <2>3, <2>4
<1>9. PartialToolsTraced'
  <2> SUFFICES ASSUME cache'["tools"].by # Nobody, cache'["tools"].content = "partial"
               PROVE  pc'[cache'["tools"].by] \in
                        {"toolsUpload", "toolsDiscard", "error", "killed"}
    BY DEF PartialToolsTraced, Cached
  <2>1. cache'["tools"].by \in Invocations
    BY <1>2 DEF TypeOK, VolumeStates, Artifacts
  <2>2. CASE cache'["tools"].by = p /\ pc'[p] = "toolsUpload"
    BY <2>2
  <2>3. CASE /\ cache'["tools"] = cache["tools"]
             /\ pc[p] \in {"toolsUpload", "toolsDiscard"} => pc'[p] \in {"toolsDiscard", "error"}
    BY <1>1, <2>1, <2>3 DEF MakerIInv, PartialToolsTraced, Cached, CacheSteps, Making
  <2> QED
    BY <2>2, <2>3, CacheStepPartial
<1> QED
  BY <1>2, <1>3, <1>4, <1>7, <1>8, <1>9 DEF MakerIInv

\* A failing call, a kill or a new create touches neither pool nor volume.
LEMMA ControlKeepsInv ==
  ASSUME MakerIInv, NEW p \in Invocations, Begin(p) \/ CallFails(p) \/ Killed(p)
  PROVE  MakerIInv'
<1>1. /\ UNCHANGED <<pool, cache>>
      /\ \/ pc[p] = "idle" /\ pc' = [pc EXCEPT ![p] = "defaultCheck"]
         \/ Running(p) /\ pc' = [pc EXCEPT ![p] = OnFailure(p)]
         \/ Running(p) /\ pc' = [pc EXCEPT ![p] = "killed"]
  BY DEF Begin, CallFails, Killed, Fails, Step
<1>2. PICK x \in {"defaultCheck", "imageDiscard", "toolsDiscard", "imagesUndo",
                  "error", "killed"} :
        /\ pc' = [pc EXCEPT ![p] = x]
        /\ x = "imageDiscard" => pc[p] \in Making("image")
        /\ x = "toolsDiscard" => pc[p] \in Making("tools")
        /\ pc[p] \in {"imageUpload", "imageVerify", "imageDiscard", "error", "killed"}
             => x \in {"imageDiscard", "error", "killed"}
        /\ pc[p] \in {"toolsUpload", "toolsDiscard", "error", "killed"}
             => x \in {"toolsDiscard", "error", "killed"}
  BY <1>1 DEF OnFailure, Making, Running, Terminal
<1>3. /\ pc' \in [Invocations -> PoolSteps \cup CacheSteps \cup Terminal \cup {"idle"}]
      /\ pc'[p] = x /\ \A q \in Invocations \ {p} : pc'[q] = pc[q]
  BY <1>2, MovesPc DEF PoolSteps, CacheSteps, Making, Terminal
<1>4. TypeOK'
  BY <1>1, <1>3, TroubledIsBoolean DEF MakerIInv, TypeOK, EnsureInfrastructure
<1>5. MakerHolds'
  BY <1>1, <1>2, <1>3 DEF MakerIInv, MakerHolds, Making, Artifacts
<1>6. RefreshesGood'
  BY <1>1, <1>2, <1>3 DEF MakerIInv, RefreshesGood
<1>7. BadImageTraced'
  <2>1. cache["image"].by \in Invocations \cup {Nobody}
    BY DEF MakerIInv, TypeOK, Artifacts, VolumeStates
  <2> QED
    BY <1>1, <1>2, <1>3, <2>1 DEF MakerIInv, BadImageTraced, Cached
<1>8. ActivePool'
  BY <1>1, <1>2, <1>3 DEF MakerIInv, ActivePool, CacheSteps, Making
<1>9. PartialToolsTraced'
  <2>1. cache["tools"].by \in Invocations \cup {Nobody}
    BY DEF MakerIInv, TypeOK, Artifacts, VolumeStates
  <2> QED
    BY <1>1, <1>2, <1>3, <2>1 DEF MakerIInv, PartialToolsTraced, Cached
<1> QED
  BY <1>4, <1>5, <1>6, <1>7, <1>8, <1>9 DEF MakerIInv

LEMMA NextKeepsInv == MakerIInv /\ [Next]_vars => MakerIInv'
<1> SUFFICES ASSUME MakerIInv, [Next]_vars PROVE MakerIInv'
  OBVIOUS
<1>1. CASE UNCHANGED vars
  BY <1>1
  DEF vars, MakerIInv, TypeOK, MakerHolds, RefreshesGood, BadImageTraced, PartialToolsTraced,
      ActivePool, Cached
<1> QED
  BY <1>1, PoolKeepsInv, CacheKeepsInv, ControlKeepsInv DEF Next, EnsureInfrastructure

\* The part of the invariant about makers and pools holds in every behaviour.
THEOREM MakerInductive == Spec => []MakerIInv
BY InitInv, NextKeepsInv, PTL DEF Spec

(***************************************************************************)
(* What is in a volume.                                                    *)
(***************************************************************************)
\* Trouble is never forgotten.
LEMMA TroubleStays == [Next]_vars /\ ~troubled' => ~troubled
BY Zenon
DEF Next, vars, Begin, EnsureInfrastructure, EnsureImagesPool, ensurePoolReady, CheckActive,
    Activate, MarkAutostart, poolExists, DefinePool, BuildPool, UndoPool, CacheImage,
    CacheRunnerTools, LookupVolume, CreateVolume, UploadVolume, VerifyImage, RefreshPool,
    DiscardVolume, ToolsPath, CallFails, Killed, Fails, Step

\* A volume is as it was, has just been created, or has just been filled, and
\* what it is filled with is only bad after a bad download.
LEMMA CacheStepContent ==
  ASSUME MakerIInv, NEW p \in Invocations, CacheImage(p) \/ CacheRunnerTools(p),
         NEW a \in Artifacts
  PROVE  \/ cache'[a] \in {cache[a], Absent}
         \/ cache'[a].content \in {"partial", "good"}
         \/ (cache'[a].content = "bad" /\ troubled')
<1>0. cache \in [Artifacts -> VolumeStates] /\ "image" \in Artifacts /\ "tools" \in Artifacts
  BY DEF MakerIInv, TypeOK, Artifacts
<1>1. ASSUME NEW b \in Artifacts, NEW upload, NEW next, UploadVolume(p, b, upload, next)
      PROVE  \/ cache'[a] = cache[a]
             \/ cache'[a].content = "good"
             \/ (cache'[a].content = "bad" /\ troubled')
  <2>1. CASE ~Cached(b)
    BY <1>1, <2>1 DEF UploadVolume, Fails
  <2>2. CASE Cached(b)
    <3>1. PICK c \in Downloads : /\ cache' = [cache EXCEPT ![b].content = c]
                                /\ troubled' = (troubled \/ c = "bad")
      BY <1>1, <2>2 DEF UploadVolume
    <3>2. c = "good" \/ (c = "bad" /\ troubled')
      <4>1. c = "bad" => troubled'
        BY <3>1, Zenon
      <4> QED
        BY <4>1, DownloadsKnown
    <3> QED
      BY <1>0, <3>1, <3>2 DEF VolumeStates
  <2> QED
    BY <2>1, <2>2
<1>2. CASE CacheImage(p)
  BY <1>0, <1>1, <1>2
  DEF CacheImage, LookupVolume, CreateVolume, VerifyImage, RefreshPool, DiscardVolume,
      Fails, Step, VolumeStates
<1>3. CASE CacheRunnerTools(p)
  BY <1>0, <1>1, <1>3
  DEF CacheRunnerTools, LookupVolume, CreateVolume, ToolsPath, DiscardVolume,
      Fails, Step, VolumeStates
<1> QED
  BY <1>2, <1>3

LEMMA ContentInit == Init => ContentKnown
BY DEF Init, ContentKnown, Cached, Absent

LEMMA ContentNext == MakerIInv /\ ContentKnown /\ [Next]_vars => ContentKnown'
<1> SUFFICES ASSUME MakerIInv, ContentKnown, [Next]_vars, NEW a \in Artifacts,
                    cache'[a].by # Nobody
             PROVE  /\ cache'[a].content # "none"
                    /\ cache'[a].content = "bad" => troubled'
  BY DEF ContentKnown, Cached
<1>1. troubled => troubled'
  BY TroubleStays
<1>2. CASE cache'[a] = cache[a]
  BY <1>1, <1>2 DEF ContentKnown, Cached
<1>3. CASE cache'[a] # cache[a]
  <2>1. PICK p \in Invocations : CacheImage(p) \/ CacheRunnerTools(p)
    BY <1>3, PoolStep DEF Next, EnsureInfrastructure, Begin, CallFails, Killed, Fails, vars
  <2> QED
    BY <1>3, <2>1, CacheStepContent DEF Absent
<1> QED
  BY <1>2, <1>3

(***************************************************************************)
(* The race of first creates: as long as nothing goes wrong by itself,     *)
(* there is one that leads it.                                             *)
(***************************************************************************)
\* What the leader does, or somebody else does in its place.
KeepsLead(p) ==
  \/ pc'[p] \in Leading'
  \/ Leading' = Leading /\ (pc[p] \in Leading => pc'[p] \in Leading)

LEMMA RaceInit == Init => RaceIInv
<1> SUFFICES ASSUME Init PROVE RaceIInv
  OBVIOUS
<1>1. /\ pool["default"].defined /\ pool["default"].built
      /\ ~pool["images"].defined /\ ~pool["images"].active
      /\ pool["default"].active \in BOOLEAN
  BY DEF Init, Pools
<1>2. ~Cached("image") /\ ~Cached("tools")
  BY DEF Init, Cached, Absent, Artifacts
<1>3. \A p \in Invocations : pc[p] = "idle"
  BY DEF Init
<1>4. RaceGoesOn
  BY <1>1, <1>2, <1>3 DEF RaceGoesOn
<1>5. \E p \in Invocations : pc[p] \in Leading
  BY <1>1, <1>2, <1>3, SomeInvocation DEF Leading
<1> QED
  BY <1>4, <1>5 DEF RaceIInv

\* The lead passes from the old leader to p, or stays where it was.
LEMMA SomebodyLeads ==
  ASSUME NEW p \in Invocations, KeepsLead(p),
         \A q \in Invocations \ {p} : pc'[q] = pc[q],
         \E q \in Invocations : pc[q] \in Leading
  PROVE  \E q \in Invocations : pc'[q] \in Leading'
BY DEF KeepsLead

\* Bringing the pools up.
LEMMA PoolRace ==
  ASSUME MakerIInv, NEW p \in Invocations, EnsureImagesPool(p), RaceGoesOn, ~troubled'
  PROVE  RaceGoesOn' /\ KeepsLead(p)
<1>1. /\ \A q \in Invocations \ {p} : pc'[q] = pc[q]
      /\ pc'[p] \in PoolSteps \cup {"imageLookup", "error"}
      /\ pc[p] \in PoolSteps /\ UNCHANGED cache
  BY PoolStep, MovesPc DEF CacheSteps, Terminal
<1>2. pool \in [Pools -> PoolStates] /\ "default" \in Pools /\ "images" \in Pools
  BY DEF MakerIInv, TypeOK, Pools
<1>3. CASE ensurePoolReady(p, "default", "defaultCheck", "defaultActivate",
                           "defaultMark", "imagesLookup")
  <2>1. CASE CheckActive(p, "default", "defaultCheck", "defaultActivate", "defaultMark")
    <3>1. RaceGoesOn'
      BY <1>1, <1>2, <2>1
      DEF CheckActive, Fails, OnFailure, Step, PoolStates, RaceGoesOn, Cached, MakerIInv, TypeOK,
          ActivePool, PoolSteps
    <3>2. KeepsLead(p)
      BY <1>1, <1>2, <2>1
      DEF CheckActive, Fails, OnFailure, Step, PoolStates, RaceGoesOn, KeepsLead, Leading, Cached,
          MakerIInv, TypeOK, ActivePool, PoolSteps
    <3> QED
      BY <3>1, <3>2
  <2>2. CASE Activate(p, "default", "defaultActivate", "defaultMark")
    <3>1. pool["default"] \in PoolStates /\ pc[p] = "defaultActivate"
      BY <1>2, <2>2 DEF Activate
    <3>2. CASE ~pool["default"].active /\ pool["default"].built
      <4>1. /\ pc'[p] = "defaultMark" /\ pool'["images"] = pool["images"]
            /\ pool'["default"].active /\ pool'["default"].defined /\ pool'["default"].built
        BY <1>1, <1>2, <2>2, <3>1, <3>2 DEF Activate, Step, PoolStates, RaceGoesOn, MakerIInv, TypeOK
      <4>2. ~pool["images"].defined /\ ~pool["images"].active
        BY <3>2 DEF RaceGoesOn, MakerIInv, ActivePool
      <4>3. RaceGoesOn'
        BY <1>1, <4>1, <4>2 DEF RaceGoesOn, Cached
      <4>4. pc'[p] \in Leading'
        BY <1>1, <4>1, <4>2 DEF RaceGoesOn, Cached, Leading
      <4> QED
        BY <4>3, <4>4 DEF KeepsLead
    <3>3. CASE pool["default"].active \/ ~pool["default"].built
      <4>1. pc'[p] = "error" /\ UNCHANGED pool /\ pc[p] = "defaultActivate"
        BY <1>1, <2>2, <3>1, <3>3 DEF Activate, Fails, OnFailure, MakerIInv, TypeOK
      <4>2. pool["default"].active
        BY <3>3 DEF RaceGoesOn
      <4>3. RaceGoesOn'
        BY <1>1, <4>1, <4>2 DEF RaceGoesOn, Cached
      <4>4. Leading' = Leading /\ pc[p] \notin Leading
        BY <1>1, <4>1, <4>2 DEF Leading, Cached
      <4> QED
        BY <4>3, <4>4 DEF KeepsLead
    <3> QED
      BY <3>1, <3>2, <3>3 DEF PoolStates
  <2>3. CASE MarkAutostart(p, "default", "defaultMark", "imagesLookup")
    <3>1. RaceGoesOn'
      BY <1>1, <1>2, <2>3
      DEF MarkAutostart, Fails, OnFailure, Step, PoolStates, RaceGoesOn, Cached, MakerIInv, TypeOK,
          ActivePool, PoolSteps
    <3>2. KeepsLead(p)
      BY <1>1, <1>2, <2>3
      DEF MarkAutostart, Fails, OnFailure, Step, PoolStates, RaceGoesOn, KeepsLead, Leading, Cached,
          MakerIInv, TypeOK, ActivePool, PoolSteps
    <3> QED
      BY <3>1, <3>2
  <2> QED
    BY <1>3, <2>1, <2>2, <2>3 DEF ensurePoolReady
<1>4. CASE poolExists(p)
  <2>1. RaceGoesOn'
    BY <1>1, <1>2, <1>4
  DEF ensurePoolReady, CheckActive, Activate, MarkAutostart, poolExists, DefinePool, BuildPool,
      UndoPool, Fails, OnFailure, Step, PoolStates, RaceGoesOn, KeepsLead, Leading, Cached,
      MakerIInv, TypeOK, MakerHolds, ActivePool, PoolSteps, CacheSteps, Making
  <2>2. KeepsLead(p)
    BY <1>1, <1>2, <1>4
  DEF ensurePoolReady, CheckActive, Activate, MarkAutostart, poolExists, DefinePool, BuildPool,
      UndoPool, Fails, OnFailure, Step, PoolStates, RaceGoesOn, KeepsLead, Leading, Cached,
      MakerIInv, TypeOK, MakerHolds, ActivePool, PoolSteps, CacheSteps, Making
  <2> QED
    BY <2>1, <2>2
<1>5. CASE ensurePoolReady(p, "images", "imagesCheck", "imagesActivate",
                           "imagesMark", "imageLookup")
  <2>1. RaceGoesOn'
    BY <1>1, <1>2, <1>5
  DEF ensurePoolReady, CheckActive, Activate, MarkAutostart, poolExists, DefinePool, BuildPool,
      UndoPool, Fails, OnFailure, Step, PoolStates, RaceGoesOn, KeepsLead, Leading, Cached,
      MakerIInv, TypeOK, MakerHolds, ActivePool, PoolSteps, CacheSteps, Making
  <2>2. KeepsLead(p)
    BY <1>1, <1>2, <1>5
  DEF ensurePoolReady, CheckActive, Activate, MarkAutostart, poolExists, DefinePool, BuildPool,
      UndoPool, Fails, OnFailure, Step, PoolStates, RaceGoesOn, KeepsLead, Leading, Cached,
      MakerIInv, TypeOK, MakerHolds, ActivePool, PoolSteps, CacheSteps, Making
  <2> QED
    BY <2>1, <2>2
<1>6. CASE DefinePool(p)
  <2>1. RaceGoesOn'
    BY <1>1, <1>2, <1>6
  DEF ensurePoolReady, CheckActive, Activate, MarkAutostart, poolExists, DefinePool, BuildPool,
      UndoPool, Fails, OnFailure, Step, PoolStates, RaceGoesOn, KeepsLead, Leading, Cached,
      MakerIInv, TypeOK, MakerHolds, ActivePool, PoolSteps, CacheSteps, Making
  <2>2. KeepsLead(p)
    BY <1>1, <1>2, <1>6
  DEF ensurePoolReady, CheckActive, Activate, MarkAutostart, poolExists, DefinePool, BuildPool,
      UndoPool, Fails, OnFailure, Step, PoolStates, RaceGoesOn, KeepsLead, Leading, Cached,
      MakerIInv, TypeOK, MakerHolds, ActivePool, PoolSteps, CacheSteps, Making
  <2> QED
    BY <2>1, <2>2
<1>7. CASE BuildPool(p)
  <2>1. RaceGoesOn'
    BY <1>1, <1>2, <1>7
  DEF ensurePoolReady, CheckActive, Activate, MarkAutostart, poolExists, DefinePool, BuildPool,
      UndoPool, Fails, OnFailure, Step, PoolStates, RaceGoesOn, KeepsLead, Leading, Cached,
      MakerIInv, TypeOK, MakerHolds, ActivePool, PoolSteps, CacheSteps, Making
  <2>2. KeepsLead(p)
    BY <1>1, <1>2, <1>7
  DEF ensurePoolReady, CheckActive, Activate, MarkAutostart, poolExists, DefinePool, BuildPool,
      UndoPool, Fails, OnFailure, Step, PoolStates, RaceGoesOn, KeepsLead, Leading, Cached,
      MakerIInv, TypeOK, MakerHolds, ActivePool, PoolSteps, CacheSteps, Making
  <2> QED
    BY <2>1, <2>2
<1>8. CASE UndoPool(p)
  <2>1. RaceGoesOn'
    BY <1>1, <1>2, <1>8
  DEF ensurePoolReady, CheckActive, Activate, MarkAutostart, poolExists, DefinePool, BuildPool,
      UndoPool, Fails, OnFailure, Step, PoolStates, RaceGoesOn, KeepsLead, Leading, Cached,
      MakerIInv, TypeOK, MakerHolds, ActivePool, PoolSteps, CacheSteps, Making
  <2>2. KeepsLead(p)
    BY <1>1, <1>2, <1>8
  DEF ensurePoolReady, CheckActive, Activate, MarkAutostart, poolExists, DefinePool, BuildPool,
      UndoPool, Fails, OnFailure, Step, PoolStates, RaceGoesOn, KeepsLead, Leading, Cached,
      MakerIInv, TypeOK, MakerHolds, ActivePool, PoolSteps, CacheSteps, Making
  <2> QED
    BY <2>1, <2>2
<1> QED
  BY <1>3, <1>4, <1>5, <1>6, <1>7, <1>8 DEF EnsureImagesPool

\* Finding or making the image: nobody discards an upload that went well.
LEMMA ImageRace ==
  ASSUME MakerIInv, NEW p \in Invocations, CacheImage(p), RaceGoesOn, ~troubled'
  PROVE  RaceGoesOn' /\ KeepsLead(p)
<1>1. /\ \A q \in Invocations \ {p} : pc'[q] = pc[q]
      /\ pc'[p] \in CacheSteps \cup {"ok", "error"}
      /\ pc[p] \in CacheSteps /\ UNCHANGED pool
      /\ pool["images"].active /\ pool["images"].defined
  BY CacheStep, MovesPc DEF Terminal, MakerIInv, ActivePool
<1>2. /\ cache \in [Artifacts -> VolumeStates] /\ "image" \in Artifacts /\ "tools" \in Artifacts
      /\ pc \in [Invocations -> PoolSteps \cup CacheSteps \cup Terminal \cup {"idle"}]
  BY DEF MakerIInv, TypeOK, Artifacts
<1>3. CASE LookupVolume(p, "image", "imageLookup", "toolsLookup", "imageCreate")
  <2>1. RaceGoesOn'
    BY <1>1, <1>2, <1>3, DownloadsKnown, NobodyIsNone
    DEF LookupVolume, Fails, OnFailure, Step, RaceGoesOn, Cached, VolumeStates, MakerIInv,
        MakerHolds, RefreshesGood, Making, CacheSteps
  <2>2. KeepsLead(p)
    BY <1>1, <1>2, <1>3, <2>1, DownloadsKnown, NobodyIsNone
    DEF LookupVolume, Fails, OnFailure, Step, RaceGoesOn, KeepsLead, Leading, Cached, VolumeStates,
        MakerIInv, MakerHolds, RefreshesGood, Making, CacheSteps
  <2> QED
    BY <2>1, <2>2
<1>4. CASE CreateVolume(p, "image", "imageCreate", "imageUpload")
  <2>1. RaceGoesOn'
    BY <1>1, <1>2, <1>4, DownloadsKnown, NobodyIsNone
    DEF CreateVolume, Fails, OnFailure, Step, RaceGoesOn, Cached, VolumeStates, MakerIInv,
        MakerHolds, RefreshesGood, Making, CacheSteps
  <2>2. KeepsLead(p)
    BY <1>1, <1>2, <1>4, <2>1, DownloadsKnown, NobodyIsNone
    DEF CreateVolume, Fails, OnFailure, Step, RaceGoesOn, KeepsLead, Leading, Cached, VolumeStates,
        MakerIInv, MakerHolds, RefreshesGood, Making, CacheSteps
  <2> QED
    BY <2>1, <2>2
<1>5. CASE UploadVolume(p, "image", "imageUpload", "imageVerify")
  <2>1. pc[p] = "imageUpload" /\ cache["image"].by = p
    BY <1>5 DEF UploadVolume, MakerIInv, MakerHolds, Making, Artifacts
  <2>2. PICK c \in Downloads : /\ pc' = [pc EXCEPT ![p] = "imageVerify"]
                               /\ cache' = [cache EXCEPT !["image"].content = c]
                               /\ troubled' = (troubled \/ c = "bad")
    BY <1>5, <2>1, NobodyIsNone DEF UploadVolume, Cached
  <2>3. c = "good"
    <3>1. c # "bad"
      BY <2>2, Zenon
    <3> QED
      BY <3>1, DownloadsKnown
  <2>4. RaceGoesOn'
    BY <1>1, <1>2, <2>1, <2>2, <2>3, NobodyIsNone
    DEF RaceGoesOn, Cached, VolumeStates, MakerIInv, MakerHolds, Making, Artifacts
  <2>5. KeepsLead(p)
    BY <1>1, <1>2, <1>5, <2>4, DownloadsKnown, NobodyIsNone
    DEF UploadVolume, Fails, OnFailure, Step, RaceGoesOn, KeepsLead, Leading, Cached, VolumeStates,
        MakerIInv, MakerHolds, RefreshesGood, Making, CacheSteps
  <2> QED
    BY <2>4, <2>5
<1>6. CASE VerifyImage(p)
  <2>1. RaceGoesOn'
    BY <1>1, <1>2, <1>6, DownloadsKnown, NobodyIsNone
    DEF VerifyImage, Fails, OnFailure, Step, RaceGoesOn, Cached, VolumeStates, MakerIInv,
        MakerHolds, RefreshesGood, Making, CacheSteps
  <2>2. KeepsLead(p)
    BY <1>1, <1>2, <1>6, <2>1, DownloadsKnown, NobodyIsNone
    DEF VerifyImage, Fails, OnFailure, Step, RaceGoesOn, KeepsLead, Leading, Cached, VolumeStates,
        MakerIInv, MakerHolds, RefreshesGood, Making, CacheSteps
  <2> QED
    BY <2>1, <2>2
<1>7. CASE RefreshPool(p)
  <2>1. RaceGoesOn'
    BY <1>1, <1>2, <1>7, DownloadsKnown, NobodyIsNone
    DEF RefreshPool, Fails, OnFailure, Step, RaceGoesOn, Cached, VolumeStates, MakerIInv,
        MakerHolds, RefreshesGood, Making, CacheSteps
  <2>2. KeepsLead(p)
    BY <1>1, <1>2, <1>7, <2>1, DownloadsKnown, NobodyIsNone
    DEF RefreshPool, Fails, OnFailure, Step, RaceGoesOn, KeepsLead, Leading, Cached, VolumeStates,
        MakerIInv, MakerHolds, RefreshesGood, Making, CacheSteps
  <2> QED
    BY <2>1, <2>2
<1>8. CASE DiscardVolume(p, "image", "imageDiscard")
  <2>1. RaceGoesOn'
    BY <1>1, <1>2, <1>8, DownloadsKnown, NobodyIsNone
    DEF DiscardVolume, Fails, OnFailure, Step, RaceGoesOn, Cached, VolumeStates, MakerIInv,
        MakerHolds, RefreshesGood, Making, CacheSteps
  <2>2. KeepsLead(p)
    BY <1>1, <1>2, <1>8, <2>1, DownloadsKnown, NobodyIsNone
    DEF DiscardVolume, Fails, OnFailure, Step, RaceGoesOn, KeepsLead, Leading, Cached, VolumeStates,
        MakerIInv, MakerHolds, RefreshesGood, Making, CacheSteps
  <2> QED
    BY <2>1, <2>2
<1> QED
  BY <1>3, <1>4, <1>5, <1>6, <1>7, <1>8 DEF CacheImage

\* The same for the runner tools.
LEMMA ToolsRace ==
  ASSUME MakerIInv, NEW p \in Invocations, CacheRunnerTools(p), RaceGoesOn, ~troubled'
  PROVE  RaceGoesOn' /\ KeepsLead(p)
<1>1. /\ \A q \in Invocations \ {p} : pc'[q] = pc[q]
      /\ pc'[p] \in CacheSteps \cup {"ok", "error"}
      /\ pc[p] \in CacheSteps /\ UNCHANGED pool
      /\ pool["images"].active /\ pool["images"].defined
  BY CacheStep, MovesPc DEF Terminal, MakerIInv, ActivePool
<1>2. /\ cache \in [Artifacts -> VolumeStates] /\ "image" \in Artifacts /\ "tools" \in Artifacts
      /\ pc \in [Invocations -> PoolSteps \cup CacheSteps \cup Terminal \cup {"idle"}]
  BY DEF MakerIInv, TypeOK, Artifacts
<1>3. CASE LookupVolume(p, "tools", "toolsLookup", "ok", "toolsCreate")
  <2>1. RaceGoesOn'
    BY <1>1, <1>2, <1>3, DownloadsKnown, NobodyIsNone
    DEF LookupVolume, Fails, OnFailure, Step, RaceGoesOn, Cached, VolumeStates, MakerIInv,
        MakerHolds, Making, CacheSteps
  <2>2. KeepsLead(p)
    BY <1>1, <1>2, <1>3, <2>1, DownloadsKnown, NobodyIsNone
    DEF LookupVolume, Fails, OnFailure, Step, RaceGoesOn, KeepsLead, Leading, Cached, VolumeStates,
        MakerIInv, MakerHolds, Making, CacheSteps
  <2> QED
    BY <2>1, <2>2
<1>4. CASE CreateVolume(p, "tools", "toolsCreate", "toolsUpload")
  <2>1. RaceGoesOn'
    BY <1>1, <1>2, <1>4, DownloadsKnown, NobodyIsNone
    DEF CreateVolume, Fails, OnFailure, Step, RaceGoesOn, Cached, VolumeStates, MakerIInv,
        MakerHolds, Making, CacheSteps
  <2>2. KeepsLead(p)
    BY <1>1, <1>2, <1>4, <2>1, DownloadsKnown, NobodyIsNone
    DEF CreateVolume, Fails, OnFailure, Step, RaceGoesOn, KeepsLead, Leading, Cached, VolumeStates,
        MakerIInv, MakerHolds, Making, CacheSteps
  <2> QED
    BY <2>1, <2>2
<1>5. CASE UploadVolume(p, "tools", "toolsUpload", "toolsPath")
  <2>1. RaceGoesOn'
    BY <1>1, <1>2, <1>5, DownloadsKnown, NobodyIsNone
    DEF UploadVolume, Fails, OnFailure, Step, RaceGoesOn, Cached, VolumeStates, MakerIInv,
        MakerHolds, Making, CacheSteps
  <2>2. KeepsLead(p)
    BY <1>1, <1>2, <1>5, <2>1, DownloadsKnown, NobodyIsNone
    DEF UploadVolume, Fails, OnFailure, Step, RaceGoesOn, KeepsLead, Leading, Cached, VolumeStates,
        MakerIInv, MakerHolds, Making, CacheSteps
  <2> QED
    BY <2>1, <2>2
<1>6. CASE ToolsPath(p)
  <2>1. RaceGoesOn'
    BY <1>1, <1>2, <1>6, DownloadsKnown, NobodyIsNone
    DEF ToolsPath, Fails, OnFailure, Step, RaceGoesOn, Cached, VolumeStates, MakerIInv,
        MakerHolds, Making, CacheSteps
  <2>2. KeepsLead(p)
    BY <1>1, <1>2, <1>6, <2>1, DownloadsKnown, NobodyIsNone
    DEF ToolsPath, Fails, OnFailure, Step, RaceGoesOn, KeepsLead, Leading, Cached, VolumeStates,
        MakerIInv, MakerHolds, Making, CacheSteps
  <2> QED
    BY <2>1, <2>2
<1>7. CASE DiscardVolume(p, "tools", "toolsDiscard")
  <2>1. RaceGoesOn'
    BY <1>1, <1>2, <1>7, DownloadsKnown, NobodyIsNone
    DEF DiscardVolume, Fails, OnFailure, Step, RaceGoesOn, Cached, VolumeStates, MakerIInv,
        MakerHolds, Making, CacheSteps
  <2>2. KeepsLead(p)
    BY <1>1, <1>2, <1>7, <2>1, DownloadsKnown, NobodyIsNone
    DEF DiscardVolume, Fails, OnFailure, Step, RaceGoesOn, KeepsLead, Leading, Cached, VolumeStates,
        MakerIInv, MakerHolds, Making, CacheSteps
  <2> QED
    BY <2>1, <2>2
<1> QED
  BY <1>3, <1>4, <1>5, <1>6, <1>7 DEF CacheRunnerTools

\* Who has failed or was killed does not lead.
LEMMA ErrorLosesTheLead ==
  ASSUME MakerIInv
  PROVE  "error" \notin Leading /\ "killed" \notin Leading
<1>1. pool["images"].active => pool["images"].defined
  BY DEF MakerIInv, ActivePool
<1> QED
  BY <1>1 DEF Leading

LEMMA NextKeepsRace == MakerIInv /\ RaceIInv /\ [Next]_vars => RaceIInv'
<1> SUFFICES ASSUME MakerIInv, RaceIInv, [Next]_vars, ~troubled'
             PROVE  RaceGoesOn' /\ \E q \in Invocations : pc'[q] \in Leading'
  BY DEF RaceIInv
<1>1. RaceGoesOn /\ \E q \in Invocations : pc[q] \in Leading
  BY TroubleStays DEF RaceIInv
<1>2. CASE UNCHANGED vars
  BY <1>1, <1>2 DEF vars, RaceGoesOn, Leading, Cached
<1>3. ASSUME NEW p \in Invocations, EnsureImagesPool(p) \/ CacheImage(p) \/ CacheRunnerTools(p)
      PROVE  RaceGoesOn' /\ \E q \in Invocations : pc'[q] \in Leading'
  <2>1. RaceGoesOn' /\ KeepsLead(p)
    BY <1>1, <1>3, PoolRace, ImageRace, ToolsRace
  <2>2. \A q \in Invocations \ {p} : pc'[q] = pc[q]
    BY <1>3, PoolStep, CacheStep DEF MakerIInv, TypeOK
  <2> QED
    BY <1>1, <2>1, <2>2, SomebodyLeads
<1>4. ASSUME NEW p \in Invocations, Begin(p)
      PROVE  RaceGoesOn' /\ \E q \in Invocations : pc'[q] \in Leading'
  <2>1. /\ pc[p] = "idle" /\ pc' = [pc EXCEPT ![p] = "defaultCheck"]
        /\ pc'[p] = "defaultCheck" /\ UNCHANGED <<pool, cache>>
        /\ \A q \in Invocations \ {p} : pc'[q] = pc[q]
    BY <1>4 DEF Begin, Step, MakerIInv, TypeOK
  <2>2. RaceGoesOn'
    BY <1>1, <2>1 DEF RaceGoesOn, Cached
  <2>3. KeepsLead(p)
    BY <2>1 DEF KeepsLead, Leading, Cached
  <2> QED
    BY <1>1, <2>1, <2>2, <2>3, SomebodyLeads
<1>5. \A p \in Invocations : ~CallFails(p) /\ ~Killed(p)
  BY DEF CallFails, Killed
<1> QED
  BY <1>2, <1>3, <1>4, <1>5 DEF Next, EnsureInfrastructure

\* There is a create that leads the race as long as nothing goes wrong.
THEOREM RaceInductive == Spec => []RaceIInv
BY MakerInductive, RaceInit, NextKeepsRace, PTL DEF Spec

\* The inductive invariant holds in every behaviour.
THEOREM CacheInductive == Spec => []CacheIInv
<1>1. MakerIInv /\ ContentKnown /\ RaceIInv => CacheIInv
  BY DEF CacheIInv
<1> QED
  BY <1>1, MakerInductive, ContentInit, ContentNext, RaceInductive, PTL DEF Spec

(***************************************************************************)
(* The shared cache.                                                       *)
(***************************************************************************)
Volumes == [a \in Artifacts |-> Volume(a)]

\* Between states that agree on it, a volume counts for the same.
LEMMA SameVolume ==
  ASSUME NEW a \in Artifacts, cache'[a] = cache[a],
         Cached(a) => (pc'[cache[a].by] \in Making(a) <=> pc[cache[a].by] \in Making(a))
  PROVE  Volume(a)' = Volume(a)
BY DEF Volume, Kept, Cached, Making

\* While its maker is at work on it, a volume does not count.
LEMMA InTheMaking ==
  ASSUME NEW a \in Artifacts, NEW p, cache[a].by = p, pc[p] \in Making(a)
  PROVE  Volume(a) = "none"
BY DEF Volume, Kept

LEMMA CreatesInitCache == Init => Shared!Init
<1> SUFFICES ASSUME Init PROVE Shared!Init
  OBVIOUS
<1>1. \A a \in Artifacts : Volume(a) = "none"
  BY DEF Init, Volume, Kept, Cached, Absent
<1> QED
  BY <1>1 DEF Init, Shared!Init

\* Who creates a volume is at work on it.
LEMMA CreatedIsMade ==
  ASSUME MakerIInv, NEW p \in Invocations, CacheImage(p) \/ CacheRunnerTools(p),
         NEW a \in Artifacts, ~Cached(a), cache'[a].by = p
  PROVE  pc'[p] \in Making(a)
<1>0. /\ cache \in [Artifacts -> VolumeStates]
      /\ pc \in [Invocations -> PoolSteps \cup CacheSteps \cup Terminal \cup {"idle"}]
      /\ "image" \in Artifacts /\ "tools" \in Artifacts
  BY DEF MakerIInv, TypeOK, Artifacts
<1>1. CASE CacheImage(p)
  BY <1>0, <1>1, NobodyIsNone
  DEF CacheImage, LookupVolume, CreateVolume, UploadVolume, VerifyImage, RefreshPool,
      DiscardVolume, Fails, Step, Making, Artifacts, VolumeStates, Cached, Absent
<1>2. CASE CacheRunnerTools(p)
  BY <1>0, <1>2, NobodyIsNone
  DEF CacheRunnerTools, LookupVolume, CreateVolume, UploadVolume, ToolsPath,
      DiscardVolume, Fails, Step, Making, Artifacts, VolumeStates, Cached, Absent
<1> QED
  BY <1>1, <1>2

\* A create that no call has failed by itself ends with an error only after it
\* has deleted what it was at work on.
LEMMA FailsClean ==
  ASSUME MakerIInv, NEW p \in Invocations, CacheImage(p) \/ CacheRunnerTools(p),
         NEW a \in Artifacts, pc[p] \in Making(a), pc'[p] = "error"
  PROVE  cache'[a] = Absent
<1>0. /\ cache \in [Artifacts -> VolumeStates]
      /\ pc \in [Invocations -> PoolSteps \cup CacheSteps \cup Terminal \cup {"idle"}]
      /\ "image" \in Artifacts /\ "tools" \in Artifacts
  BY DEF MakerIInv, TypeOK, Artifacts
<1>1. CASE CacheImage(p)
  BY <1>0, <1>1
  DEF CacheImage, LookupVolume, CreateVolume, UploadVolume, VerifyImage, RefreshPool,
      DiscardVolume, Fails, OnFailure, Step, Making, Artifacts
<1>2. CASE CacheRunnerTools(p)
  BY <1>0, <1>2
  DEF CacheRunnerTools, LookupVolume, CreateVolume, UploadVolume, ToolsPath,
      DiscardVolume, Fails, OnFailure, Step, Making, Artifacts
<1> QED
  BY <1>1, <1>2

\* The maker of half a volume is still at work on it, or has ended.
LEMMA PartialIsTraced ==
  ASSUME MakerIInv', NEW a \in Artifacts, Cached(a)', cache'[a].content = "partial"
  PROVE  pc'[cache'[a].by] \in Making(a) \cup {"error", "killed"}
BY DEF MakerIInv, BadImageTraced, PartialToolsTraced, Artifacts, Making, Cached

\* What one step of p does to the volume of one artifact: nothing that counts,
\* unless p was at work on it and lets go of it.
LEMMA LetsGo ==
  ASSUME CacheIInv, CacheIInv', NEW p \in Invocations,
         Begin(p) \/ EnsureInfrastructure(p) \/ Killed(p),
         NEW a \in Artifacts, Volume(a)' # Volume(a)
  PROVE  /\ pc[p] \in Making(a)
         /\ Volume(a) = "none"
         /\ \/ Volume(a)' = "good"
            \/ (Volume(a)' = "damaged" /\ troubled')
<1>1. /\ pc \in [Invocations -> PoolSteps \cup CacheSteps \cup Terminal \cup {"idle"}]
      /\ cache \in [Artifacts -> VolumeStates] /\ cache' \in [Artifacts -> VolumeStates]
      /\ \A q \in Invocations \ {p} : pc'[q] = pc[q]
  <2>1. \E x : pc' = [pc EXCEPT ![p] = x]
    BY PoolStep, CacheStep
    DEF EnsureInfrastructure, Begin, CallFails, Killed, Step, CacheIInv
  <2> QED
    BY <2>1 DEF CacheIInv, MakerIInv, TypeOK
<1>2. pc[p] \in Making(a) => cache[a].by = p
  BY DEF CacheIInv, MakerIInv, MakerHolds
<1>3. ASSUME cache'[a] = cache[a]
      PROVE  pc[p] \in Making(a) /\ pc'[p] \notin Making(a)
  <2>1. PICK q \in Invocations :
          /\ cache[a].by = q
          /\ ~(pc'[q] \in Making(a) <=> pc[q] \in Making(a))
    BY <1>1, <1>3, SameVolume DEF Cached, VolumeStates
  <2>2. q = p
    BY <1>1, <2>1
  <2>3. pc'[p] \in Making(a) => pc[p] \in Making(a)
    <3>1. CASE EnsureImagesPool(p)
      BY <3>1, PoolStep DEF CacheIInv, Making, PoolSteps
    <3>2. CASE CacheImage(p) \/ CacheRunnerTools(p)
      BY <1>3, <2>1, <2>2, <3>2, CacheStepVolume, NobodyIsNone DEF CacheIInv, Cached
    <3>3. CASE Begin(p)
      BY <1>1, <3>3 DEF Begin, Step, Making
    <3>4. CASE CallFails(p)
      BY <1>1, <3>4 DEF CallFails, OnFailure, Making
    <3>5. CASE Killed(p)
      BY <1>1, <3>5 DEF Killed, Making
    <3> QED
      BY <3>1, <3>2, <3>3, <3>4, <3>5 DEF EnsureInfrastructure
  <2> QED
    BY <2>1, <2>2, <2>3
<1>4. pc[p] \in Making(a)
  <2>1. CASE cache'[a] = cache[a]
    BY <1>3, <2>1
  <2>2. CASE cache'[a] # cache[a]
    <3>1. CacheImage(p) \/ CacheRunnerTools(p)
      BY <2>2, PoolStep DEF EnsureInfrastructure, Begin, CallFails, Killed, CacheIInv
    <3>2. CASE ~Cached(a) /\ cache'[a].by = p /\ pc'[p] \in {"imageUpload", "toolsUpload"}
      <4>1. Volume(a) = "none"
        BY <3>2 DEF Volume, Kept
      <4>2. pc'[p] \in Making(a)
        BY <3>1, <3>2, CreatedIsMade DEF CacheIInv, Cached
      <4>3. Volume(a)' = "none"
        BY <3>2, <4>2 DEF Volume, Kept, Making
      <4> QED
        BY <4>1, <4>3
    <3> QED
      BY <2>2, <3>1, <3>2, CacheStepVolume DEF CacheIInv
  <2> QED
    BY <2>1, <2>2
<1>5. Volume(a) = "none"
  BY <1>2, <1>4, InTheMaking
<1>6. Kept(a)'
  BY <1>5 DEF Volume
<1>7. CASE cache'[a].content = "good"
  BY <1>4, <1>5, <1>6, <1>7 DEF Volume
<1>8. CASE cache'[a].content # "good"
  <2>1. Volume(a)' = "damaged"
    BY <1>6, <1>8 DEF Volume
  <2>2. troubled'
    <3>1. cache'[a].content \in {"partial", "bad"} /\ (cache'[a].content = "bad" => troubled')
      BY <1>1, <1>6, <1>8 DEF CacheIInv, ContentKnown, Kept, Cached, VolumeStates
    <3>2. ASSUME cache'[a].content = "partial" PROVE troubled'
      <4>1. CASE CacheImage(p) \/ CacheRunnerTools(p)
        <5>1. pc'[cache'[a].by] \in {"error", "killed"}
          BY <1>6, <3>2, PartialIsTraced DEF CacheIInv, Kept
        <5>2. cache'[a].by = p
          BY <1>2, <1>4, <1>6, <4>1, CacheStepVolume, NobodyIsNone
          DEF CacheIInv, Kept, Cached, Absent
        <5>3. pc'[p] = "error"
          BY <1>1, <4>1, <5>1, <5>2, CacheStep DEF CacheIInv, CacheSteps, Making
        <5> QED
          BY <1>4, <1>6, <4>1, <5>3, FailsClean DEF CacheIInv, Kept, Cached, Absent
      <4>2. CASE CallFails(p) \/ Killed(p)
        BY <4>2 DEF CallFails, Killed
      <4>3. ~Begin(p) /\ ~EnsureImagesPool(p)
        BY <1>4, PoolStep DEF Begin, Step, Making, PoolSteps, CacheIInv
      <4> QED
        BY <4>1, <4>2, <4>3 DEF EnsureInfrastructure
    <3> QED
      BY <3>1, <3>2
  <2> QED
    BY <1>4, <1>5, <2>1, <2>2
<1> QED
  BY <1>7, <1>8

\* At most one artifact's volume is let go of in a step.
LEMMA CreatesNextCache ==
  CacheIInv /\ CacheIInv' /\ [Next]_vars => [Shared!Next]_<<Volumes, troubled>>
<1> SUFFICES ASSUME CacheIInv, CacheIInv', [Next]_vars
             PROVE  Shared!Next \/ UNCHANGED <<Volumes, troubled>>
  OBVIOUS
<1>1. CASE UNCHANGED vars
  BY <1>1 DEF vars, Volumes, Volume, Kept, Cached
<1>2. ASSUME NEW p \in Invocations, Begin(p) \/ EnsureInfrastructure(p) \/ Killed(p)
      PROVE  Shared!Next
  <2>1. troubled' \in BOOLEAN
    BY DEF CacheIInv, MakerIInv, TypeOK
  <2>2. CASE \A a \in Artifacts : Volume(a)' = Volume(a)
    BY <2>1, <2>2 DEF Shared!Next
  <2>3. CASE \E a \in Artifacts : Volume(a)' # Volume(a)
    <3>1. PICK a \in Artifacts : Volume(a)' # Volume(a)
      BY <2>3
    <3>2. /\ pc[p] \in Making(a) /\ Volume(a) = "none"
          /\ Volume(a)' = "good" \/ (Volume(a)' = "damaged" /\ troubled')
      BY <1>2, <3>1, LetsGo
    <3>3. \A b \in Artifacts : b # a => Volume(b)' = Volume(b)
      <4> SUFFICES ASSUME NEW b \in Artifacts, b # a, Volume(b)' # Volume(b) PROVE FALSE
        OBVIOUS
      <4>1. pc[p] \in Making(b)
        BY <1>2, LetsGo
      <4> QED
        BY <3>2, <4>1 DEF Making, Artifacts
    <3>4. PICK content \in {"good", "damaged"} :
            /\ Volume(a)' = content
            /\ content = "good" \/ (content = "damaged" /\ troubled')
      BY <3>2
    <3>5. [b \in Artifacts |-> Volume(b)]' =
            [[b \in Artifacts |-> Volume(b)] EXCEPT ![a] = content]
      BY <3>3, <3>4
    <3>6. Shared!Keep(a, content)
      BY <3>2, <3>4, <3>5 DEF Shared!Keep
    <3> QED
      BY <2>1, <3>6 DEF Shared!Next
  <2> QED
    BY <2>2, <2>3
<1> QED
  BY <1>1, <1>2 DEF Next

\* Any number of creates, overlapping, failing and dying, keep the promise of
\* SharedCache: CacheImage and CacheRunnerTools never replace or take back a
\* volume that was let go of, and none of those is damaged without a cause.
THEOREM CreatesKeepCache == Spec => KeepsCache
BY CreatesInitCache, CreatesNextCache, CacheInductive, PTL
DEF Spec, KeepsCache, Shared!Spec, Volumes

(***************************************************************************)
(* The properties that follow.                                             *)
(***************************************************************************)
\* A wrong image in the cache always has a create to answer for it that is
\* still at work on it, was killed or reported an error.
THEOREM BadImageIsTraced == Spec => []BadImageTraced
<1>1. MakerIInv => BadImageTraced
  BY DEF MakerIInv
<1> QED
  BY <1>1, MakerInductive, PTL

\* Whoever looks up or uploads a volume does so in a pool that is up.
THEOREM PoolIsUp == Spec => []PoolUsable
<1>1. MakerIInv => PoolUsable
  BY DEF MakerIInv, ActivePool, PoolUsable
<1> QED
  BY <1>1, MakerInductive, PTL

\* A cached volume is deleted only by its maker, before it was handed on.
THEOREM MakerDiscards == Spec => OnlyMakerDiscards
<1>1. MakerIInv /\ [Next]_vars => [OnlyMakerDiscardsStep]_vars
  <2> SUFFICES ASSUME MakerIInv, [Next]_vars, NEW a \in Artifacts, Cached(a),
                      cache'[a].by # cache[a].by
               PROVE  \E p \in Invocations :
                        cache[a].by = p /\ pc[p] \in Making(a) /\ pc'[p] = "error"
    BY DEF OnlyMakerDiscardsStep
  <2>1. PICK p \in Invocations : CacheImage(p) \/ CacheRunnerTools(p)
    BY PoolStep DEF Next, EnsureInfrastructure, Begin, CallFails, Killed, Fails, vars
  <2>2. pc[p] \in Making(a) /\ pc'[p] = "error"
    BY <2>1, CacheStepVolume
  <2> QED
    BY <2>2 DEF MakerIInv, MakerHolds
<1> QED
  BY <1>1, MakerInductive, PTL DEF Spec, OnlyMakerDiscards

\* Every variable has its shape.
THEOREM CacheTypeOK == Spec => []TypeOK
<1>1. MakerIInv => TypeOK
  BY DEF MakerIInv
<1> QED
  BY <1>1, MakerInductive, PTL

\* A half-uploaded ISO always has a create to answer for it.
THEOREM PartialToolsAreTraced == Spec => []PartialToolsTraced
<1>1. MakerIInv => PartialToolsTraced
  BY DEF MakerIInv
<1> QED
  BY <1>1, MakerInductive, PTL

\* Of any number of first creates that nothing goes wrong for, not all lose.
THEOREM RaceIsWon == Spec => []RaceHasWinner
<1>1. MakerIInv /\ RaceIInv => RaceHasWinner
  <2> SUFFICES ASSUME MakerIInv, RaceIInv, ~troubled, \A p \in Invocations : pc[p] \in Terminal
               PROVE  \E p \in Invocations : pc[p] = "ok"
    BY DEF RaceHasWinner
  <2>1. PICK p \in Invocations : pc[p] \in Leading
    BY DEF RaceIInv
  <2>2. pc[p] \in {"ok", "error", "killed"}
    BY DEF Terminal
  <2>3. pc[p] = "ok"
    BY <2>1, <2>2, ErrorLosesTheLead
  <2> QED
    BY <2>3
<1> QED
  BY <1>1, MakerInductive, RaceInductive, PTL
=============================================================================
