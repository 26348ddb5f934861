---------------------------- MODULE ImageCatalogProofs ----------------------------
(***************************************************************************)
(* Proofs about Versions and ImageCatalog for all releases, artifacts and  *)
(* requests.                                                               *)
(***************************************************************************)
EXTENDS ImageCatalog, FiniteSetTheorems, WellFoundedInduction, TLAPS

LEMMA LeastElement ==
    ASSUME NEW D \in SUBSET Nat, D # {}
    PROVE  \E m \in D : \A k \in D : ~(k < m)
<1>1. PICK m \in D : \A k \in D : ~(<<k, m>> \in OpToRel(<, Nat))
    BY NatLessThanWellFounded, WFMin
<1>2. \A k \in D : ~(k < m)
    BY <1>1, Zenon DEF OpToRel
<1> QED BY <1>2

(***************************************************************************)
(* The order of versions.                                                  *)
(***************************************************************************)
LEMMA PartIsNat ==
    ASSUME NEW v \in Seq(Nat), NEW i \in Nat \ {0}
    PROVE  Part(v, i) \in Nat /\ (Part(v, i) # 0 => i <= Len(v))
<1>1. CASE i <= Len(v)
    BY <1>1, i \in 1 .. Len(v) DEF Part
<1>2. CASE ~(i <= Len(v))
    BY <1>2 DEF Part
<1> QED BY <1>1, <1>2

\* One position decides, wherever the shorter version ends.
LEMMA AboveAt ==
    ASSUME NEW a \in Seq(Nat), NEW b \in Seq(Nat)
    PROVE  Above(a, b) <=>
           \E i \in Nat \ {0} : /\ Part(a, i) > Part(b, i)
                                /\ \A j \in 1 .. i - 1 : Part(a, j) = Part(b, j)
<1>1. ASSUME NEW i \in Nat \ {0}, Part(a, i) > Part(b, i)
      PROVE  i \in 1 .. Longest(a, b)
    BY <1>1, PartIsNat DEF Longest
<1>2. 1 .. Longest(a, b) \subseteq Nat \ {0}
    BY DEF Longest
<1> QED BY <1>1, <1>2 DEF Above

LEMMA AboveIsAsymmetric ==
    ASSUME NEW a \in Seq(Nat), NEW b \in Seq(Nat), Above(a, b)
    PROVE  ~Above(b, a)
<1>1. PICK i \in Nat \ {0} : Part(a, i) > Part(b, i) /\ \A j \in 1 .. i - 1 : Part(a, j) = Part(b, j)
    BY AboveAt
<1>2. SUFFICES ASSUME NEW k \in Nat \ {0}, Part(b, k) > Part(a, k),
                      \A j \in 1 .. k - 1 : Part(b, j) = Part(a, j)
               PROVE  FALSE
    BY AboveAt
<1>3. /\ Part(a, i) \in Nat /\ Part(b, i) \in Nat
      /\ Part(a, k) \in Nat /\ Part(b, k) \in Nat
    BY PartIsNat
<1>4. CASE i < k
    BY <1>1, <1>2, <1>3, <1>4
<1>5. CASE k < i
    BY <1>1, <1>2, <1>3, <1>5
<1>6. CASE i = k
    BY <1>1, <1>2, <1>3, <1>6
<1> QED BY <1>4, <1>5, <1>6

LEMMA AboveIsTransitive ==
    ASSUME NEW a \in Seq(Nat), NEW b \in Seq(Nat), NEW c \in Seq(Nat),
           Above(a, b), Above(b, c)
    PROVE  Above(a, c)
<1>1. PICK i \in Nat \ {0} : Part(a, i) > Part(b, i) /\ \A j \in 1 .. i - 1 : Part(a, j) = Part(b, j)
    BY AboveAt
<1>2. PICK k \in Nat \ {0} : Part(b, k) > Part(c, k) /\ \A j \in 1 .. k - 1 : Part(b, j) = Part(c, j)
    BY AboveAt
<1>3. \A m \in Nat \ {0} : Part(a, m) \in Nat /\ Part(b, m) \in Nat /\ Part(c, m) \in Nat
    BY PartIsNat
<1>4. CASE i <= k
    <2>1. Part(b, i) >= Part(c, i)
        <3>1. CASE i = k
            BY <1>2, <1>3, <3>1
        <3>2. CASE i \in 1 .. k - 1
            BY <1>2, <1>3, <3>2
        <3> QED BY <1>4, <3>1, <3>2
    <2>2. Part(a, i) > Part(c, i)
        BY <1>1, <1>3, <2>1
    <2>3. \A j \in 1 .. i - 1 : Part(a, j) = Part(c, j)
        BY <1>1, <1>2, <1>4
    <2> QED BY <2>2, <2>3, AboveAt
<1>5. CASE k < i
    <2>1. Part(a, k) > Part(c, k)
        BY <1>1, <1>2, <1>3, <1>5, k \in 1 .. i - 1
    <2>2. \A j \in 1 .. k - 1 : Part(a, j) = Part(c, j)
        BY <1>1, <1>2, <1>5
    <2> QED BY <2>1, <2>2, AboveAt
<1> QED BY <1>4, <1>5

\* Versions neither of which is above the other have the same numbers.
LEMMA LevelIsEqualParts ==
    ASSUME NEW a \in Seq(Nat), NEW b \in Seq(Nat), ~Above(a, b), ~Above(b, a)
    PROVE  \A i \in Nat \ {0} : Part(a, i) = Part(b, i)
<1> DEFINE D == {i \in Nat \ {0} : Part(a, i) # Part(b, i)}
<1>1. SUFFICES ASSUME D # {} PROVE FALSE
    OBVIOUS
<1>2. PICK i \in D : \A j \in D : ~(j < i)
    BY <1>1, D \subseteq Nat, LeastElement
<1>3. \A j \in 1 .. i - 1 : Part(a, j) = Part(b, j)
    BY <1>2
<1>4. Part(a, i) \in Nat /\ Part(b, i) \in Nat
    BY PartIsNat
<1>5. Above(a, b) \/ Above(b, a)
    BY <1>2, <1>3, <1>4, AboveAt
<1> QED BY <1>5

\* compareVersions orders all versions, whatever their lengths: it changes its
\* sign with its arguments, and "newer" and "equal" are both transitive, as
\* sort.Slice needs it.
THEOREM VersionsAreOrdered ==
    \A a, b, c \in Seq(Nat) :
        /\ compareVersions(a, b) \in {-1, 0, 1}
        /\ compareVersions(b, a) = -compareVersions(a, b)
        /\ compareVersions(a, b) = 1 /\ compareVersions(b, c) = 1 => compareVersions(a, c) = 1
        /\ compareVersions(a, b) = 0 /\ compareVersions(b, c) = 0 => compareVersions(a, c) = 0
        /\ compareVersions(a, b) = 0 =>
              compareVersions(a, c) = compareVersions(b, c)
<1> SUFFICES ASSUME NEW a \in Seq(Nat), NEW b \in Seq(Nat), NEW c \in Seq(Nat)
    PROVE
        /\ compareVersions(a, b) \in {-1, 0, 1}
        /\ compareVersions(b, a) = -compareVersions(a, b)
        /\ compareVersions(a, b) = 1 /\ compareVersions(b, c) = 1 => compareVersions(a, c) = 1
        /\ compareVersions(a, b) = 0 /\ compareVersions(b, c) = 0 => compareVersions(a, c) = 0
        /\ compareVersions(a, b) = 0 =>
              compareVersions(a, c) = compareVersions(b, c)
    OBVIOUS
<1>1. compareVersions(a, b) \in {-1, 0, 1}
    BY DEF compareVersions
<1>2. compareVersions(b, a) = -compareVersions(a, b)
    BY AboveIsAsymmetric DEF compareVersions
<1>3. compareVersions(a, b) = 1 /\ compareVersions(b, c) = 1 => compareVersions(a, c) = 1
    BY AboveIsTransitive DEF compareVersions
<1>4. compareVersions(a, b) = 0 => compareVersions(a, c) = compareVersions(b, c)
    <2>1. SUFFICES ASSUME ~Above(a, b), ~Above(b, a)
                   PROVE  compareVersions(a, c) = compareVersions(b, c)
        BY DEF compareVersions
    <2>2. \A i \in Nat \ {0} : Part(a, i) = Part(b, i)
        BY <2>1, LevelIsEqualParts
    <2>3. Above(a, c) <=> Above(b, c)
        <3>1. \A i \in Nat \ {0} : \A j \in 1 .. i - 1 : Part(a, j) = Part(b, j)
            BY <2>2
        <3> QED BY <2>2, <3>1, AboveAt
    <2>4. Above(c, a) <=> Above(c, b)
        <3>1. \A i \in Nat \ {0} : \A j \in 1 .. i - 1 : Part(a, j) = Part(b, j)
            BY <2>2
        <3> QED BY <2>2, <3>1, AboveAt
    <2> QED BY <2>3, <2>4 DEF compareVersions
<1>5. compareVersions(a, b) = 0 /\ compareVersions(b, c) = 0 => compareVersions(a, c) = 0
    BY <1>4
<1> QED BY <1>1, <1>2, <1>3, <1>4, <1>5

\* A finite set of identifiers that is not empty has a last one.
LEMMA LastExists ==
    ASSUME NEW S, IsFiniteSet(S), S # {}, NEW F \in [S -> Seq(Nat)]
    PROVE  \E m \in S : \A x \in S : ~Above(F[x], F[m])
<1> DEFINE Below(x) == {y \in S : Above(F[x], F[y])}
           Rank(x) == Cardinality(S) - Cardinality(Below(x))
           D == {Rank(x) : x \in S}
<1>1. \A x \in S : Rank(x) \in Nat
    <2> TAKE x \in S
    <2>1. Cardinality(S) \in Nat /\ Cardinality(Below(x)) \in Nat
        BY FS_Subset, FS_CardinalityType
    <2>2. Cardinality(Below(x)) <= Cardinality(S)
        BY FS_Subset
    <2> HIDE DEF Below
    <2> QED BY <2>1, <2>2
<1>2. \A m, x \in S : Above(F[x], F[m]) => Rank(x) < Rank(m)
    <2> SUFFICES ASSUME NEW m \in S, NEW x \in S, Above(F[x], F[m])
                 PROVE  Rank(x) < Rank(m)
        OBVIOUS
    <2>1. F[m] \in Seq(Nat) /\ F[x] \in Seq(Nat) /\ \A y \in S : F[y] \in Seq(Nat)
        OBVIOUS
    <2>2. Below(m) \subseteq Below(x) /\ m \in Below(x) /\ m \notin Below(m)
        BY <2>1, AboveIsTransitive, AboveIsAsymmetric
    <2>3. IsFiniteSet(Below(x))
        BY FS_Subset
    <2>4. /\ Cardinality(S) \in Nat /\ Cardinality(Below(x)) \in Nat
          /\ Cardinality(Below(m)) \in Nat
        BY FS_Subset, FS_CardinalityType
    <2> HIDE DEF Below
    <2>5. Cardinality(Below(m)) <= Cardinality(Below(x))
        BY <2>2, <2>3, FS_Subset
    <2>6. Cardinality(Below(m)) # Cardinality(Below(x))
        BY <2>2, <2>3, FS_Subset
    <2> QED BY <2>4, <2>5, <2>6
<1> HIDE DEF Rank
<1>3. PICK n \in D : \A k \in D : ~(k < n)
    <2>1. D # {} /\ D \in SUBSET Nat
        BY <1>1
    <2> HIDE DEF D
    <2> QED BY <2>1, LeastElement
<1> QED BY <1>2, <1>3

(***************************************************************************)
(* The inductive invariant of a listing.                                   *)
(***************************************************************************)
LEMMA InitInvariant == Init => CatalogIInv
<1> SUFFICES ASSUME Init PROVE CatalogIInv
    OBVIOUS
<1> USE DEF Init
<1>1. TypeOK
    BY ChangesBounded DEF TypeOK, Pages, Statuses
<1>2. History
    BY ArtifactsKnown DEF History
<1>3. InOrder /\ ReadWasTrue /\ FoundIsLatest /\ ListedOnce /\ Covered /\ ChosenIsFirst
    BY DEF InOrder, ReadWasTrue, FoundIsLatest, ListedOnce, Covered, NotYet, ChosenIsFirst
<1>4. LastInText
    BY DEF LastInText
<1> QED BY <1>1, <1>2, <1>3, <1>4 DEF CatalogIInv

LEMMA ImagesExist ==
    /\ \A a \in Artifacts, s \in Statuses : Image(a, s) \in Images
    /\ \A i \in Images : i.art \in Artifacts /\ i.status \in Statuses /\ i = Image(i.art, i.status)
BY DEF Images, Image

LEMMA TypeStep == TypeOK /\ [Next]_vars => TypeOK'
<1> SUFFICES ASSUME TypeOK, [Next]_vars PROVE TypeOK'
    OBVIOUS
<1> USE DEF TypeOK, Goes, Pages, Ended, publishers
<1>1. CASE listImages
    BY <1>1 DEF listImages, Sources
<1>2. CASE listUbuntu
    <2>1. parseUbuntu \subseteq Images
        BY ImagesExist, ArtifactsKnown DEF parseUbuntu
    <2> QED BY <1>2, <2>1 DEF listUbuntu, ReadIndex, ReadCatalog, ReadDates
<1>3. CASE ReadLifecycle
    BY <1>3 DEF ReadLifecycle
<1>4. CASE Search
    <2>1. \A r \in Releases : latestDebianBuild(r) \subseteq Artifacts
        BY DEF latestDebianBuild
    <2> QED BY <1>4, <2>1 DEF Search
<1>5. CASE debianImage
    <2>1. found \in Artifacts /\ found.of \in Releases /\ noted[found.of] \in Statuses
        BY <1>5, ArtifactsKnown DEF debianImage
    <2> QED BY <1>5, <2>1, ImagesExist DEF debianImage
<1>6. CASE SearchEnds
    BY <1>6 DEF SearchEnds
<1>7. CASE listFedora
    <2>1. parseFedora \subseteq Images
        BY ImagesExist DEF parseFedora, Statuses
    <2> QED BY <1>7, <2>1 DEF listFedora, ReadCurrent, ReadArtifacts
<1>8. CASE AllAsked \/ RequestFails
    BY <1>8 DEF AllAsked, RequestFails
<1>9. CASE selectImage
    BY <1>9 DEF selectImage
<1>10. CASE ListImages
    BY <1>10 DEF ListImages
<1>11. ASSUME NEW a \in Artifacts, Publish(a) \/ Withdraw(a) PROVE TypeOK'
    <2>1. changes' \in 0 .. MaxChanges /\ UNCHANGED process
        BY <1>11, ChangesBounded DEF Publish, Withdraw, Change
    <2> QED BY <1>11, <2>1 DEF Publish, Withdraw, process
<1>12. ASSUME NEW r \in Releases, EntersPeriod(r) PROVE TypeOK'
    <2>1. changes' \in 0 .. MaxChanges /\ UNCHANGED process
        BY <1>12, ChangesBounded DEF EntersPeriod, Change
    <2>2. PICK s \in Statuses : /\ status' = [status EXCEPT ![r] = s]
                               /\ was' = [was EXCEPT ![r] = @ \cup {s}]
        BY <1>12 DEF EntersPeriod
    <2> QED BY <1>12, <2>1, <2>2 DEF EntersPeriod, process
<1>13. CASE UNCHANGED vars
    BY <1>13 DEF vars, process
<1> QED BY <1>1, <1>2, <1>3, <1>4, <1>5, <1>6, <1>7, <1>8, <1>9, <1>10, <1>11, <1>12, <1>13
        DEF Next, Command, listDebian

\* The command changes nothing of the publishers, and they nothing of it.
LEMMA StepIsOfOne ==
    ASSUME [Next]_vars
    PROVE  \/ (Command \/ RequestFails) /\ UNCHANGED publishers
           \/ UNCHANGED process /\ \E a \in Artifacts : Publish(a) \/ Withdraw(a)
           \/ UNCHANGED process /\ \E r \in Releases : EntersPeriod(r)
           \/ UNCHANGED vars
<1>1. Command \/ RequestFails => UNCHANGED publishers
    BY DEF Command, RequestFails, listImages, listUbuntu, ReadIndex, ReadCatalog, ReadDates,
           listDebian, ReadLifecycle, Search, debianImage, SearchEnds, listFedora, ReadCurrent,
           ReadArtifacts, AllAsked, selectImage, ListImages, Goes
<1>2. \A a \in Artifacts : Publish(a) \/ Withdraw(a) => UNCHANGED process
    BY DEF Publish, Withdraw, Change
<1>3. \A r \in Releases : EntersPeriod(r) => UNCHANGED process
    BY DEF EntersPeriod, Change
<1> QED BY <1>1, <1>2, <1>3 DEF Next

LEMMA InOrderStep == TypeOK /\ InOrder /\ [Next]_vars => InOrder'
BY StepIsOfOne DEF TypeOK, InOrder, Command, RequestFails, listImages, listUbuntu, ReadIndex,
   ReadCatalog, ReadDates, listDebian, ReadLifecycle, Search, debianImage, SearchEnds, listFedora,
   ReadCurrent, ReadArtifacts, AllAsked, selectImage, ListImages, Goes, process, vars, Distros

LEMMA HistoryStep ==
    ASSUME TypeOK, History, [Next]_vars
    PROVE  /\ History' /\ ever \subseteq ever' /\ steady' \subseteq steady
           /\ \A r \in Releases : was[r] \subseteq was'[r]
           /\ \A a \in steady' : status'[a.of] = status[a.of]
<1> USE DEF TypeOK, History
<1>1. CASE UNCHANGED publishers \/ UNCHANGED vars
    BY <1>1 DEF publishers, vars
<1>2. ASSUME NEW a \in Artifacts, Publish(a) \/ Withdraw(a)
      PROVE  History' /\ ever \subseteq ever' /\ steady' \subseteq steady /\ UNCHANGED <<was, status>>
    BY <1>2 DEF Publish, Withdraw
<1>3. ASSUME NEW r \in Releases, EntersPeriod(r)
      PROVE  /\ History' /\ ever \subseteq ever' /\ steady' \subseteq steady
             /\ \A q \in Releases : was[q] \subseteq was'[q]
             /\ \A a \in steady' : status'[a.of] = status[a.of]
    <2>1. PICK s \in Statuses : /\ status' = [status EXCEPT ![r] = s]
                               /\ was' = [was EXCEPT ![r] = @ \cup {s}]
        BY <1>3 DEF EntersPeriod
    <2>2. steady' = {a \in steady : a.of # r} /\ UNCHANGED <<offered, ever>>
        BY <1>3 DEF EntersPeriod
    <2>3. \A a \in steady' : a.of \in Releases /\ a.of # r
        BY <2>2, ArtifactsKnown
    <2> QED BY <2>1, <2>2, <2>3
<1> QED BY <1>1, <1>2, <1>3, StepIsOfOne

LEMMA ReadStep ==
    ASSUME TypeOK, History, ReadWasTrue, FoundIsLatest, [Next]_vars
    PROVE  ReadWasTrue'
<1> USE DEF TypeOK, Goes, publishers
<1>0. /\ ever \subseteq ever' /\ History'
      /\ \A r \in Releases : was[r] \subseteq was'[r]
    BY HistoryStep
<1>1. \A i \in listing : i.art \in Artifacts /\ i.art.of \in Releases
    BY ImagesExist, ArtifactsKnown
<1>2. CASE listImages \/ SearchEnds \/ AllAsked \/ RequestFails \/ ReadIndex \/ ReadDates \/ Search
    BY <1>2 DEF listImages, SearchEnds, AllAsked, RequestFails, ReadIndex, ReadDates, Search,
            ReadWasTrue, Ended
<1>3. CASE ReadCatalog
    <2>1. \A i \in parseUbuntu : /\ i.art \in ever /\ i.art.whole /\ i.status \in was[i.art.of]
                                /\ i.art.of.distro = "ubuntu"
        BY ArtifactsKnown DEF parseUbuntu, History, Image
    <2> QED BY <1>3, <2>1 DEF ReadCatalog, ReadWasTrue
<1>4. CASE ReadLifecycle \/ ReadCurrent
    BY <1>4 DEF ReadLifecycle, ReadCurrent, ReadWasTrue, History
<1>5. CASE debianImage
    <2>1. found \in Artifacts /\ found.of \in Releases
        BY <1>5, ArtifactsKnown DEF debianImage
    <2> QED BY <1>5, <2>1 DEF debianImage, ReadWasTrue, FoundIsLatest, Image
<1>6. CASE ReadArtifacts
    <2>1. \A i \in parseFedora : /\ i.art \in ever /\ i.art.whole /\ i.status \in was[i.art.of]
                                /\ i.status = "supported"
        BY <1>6, ArtifactsKnown DEF ReadArtifacts, parseFedora, History, Image, ReadWasTrue
    <2> QED BY <1>6, <2>1 DEF ReadArtifacts, ReadWasTrue
<1>7. CASE selectImage \/ ListImages
    BY <1>7 DEF selectImage, ListImages, ReadWasTrue
<1>8. CASE UNCHANGED process
    BY <1>0, <1>1, <1>8 DEF process, ReadWasTrue
<1> QED BY <1>2, <1>3, <1>4, <1>5, <1>6, <1>7, <1>8, StepIsOfOne
        DEF Command, listUbuntu, listDebian, listFedora, vars

LEMMA FoundStep ==
    ASSUME TypeOK, History, FoundIsLatest, [Next]_vars
    PROVE  FoundIsLatest'
<1> USE DEF TypeOK, Goes, publishers
<1>0. ever \subseteq ever' /\ steady' \subseteq steady
    BY HistoryStep
<1>1. CASE Search
    <2>1. SUFFICES ASSUME pc' = "detail" PROVE FoundIsLatest'
        BY DEF FoundIsLatest
    <2>2. PICK r \in rest : rest' = rest \ {r} /\ found' \in latestDebianBuild(r)
        BY <1>1, <2>1 DEF Search
    <2>3. /\ found' \in offered /\ found'.of = r /\ found'.arch = "amd64"
          /\ \A b \in offered : b.of = r /\ b.arch = "amd64" => compareVersions(b.build, found'.build) # 1
        BY <2>2 DEF latestDebianBuild
    <2>4. r.distro = "debian" /\ UNCHANGED publishers
        BY <1>1, <2>2 DEF Search
    <2> QED BY <2>2, <2>3, <2>4 DEF FoundIsLatest, History
<1>2. CASE listImages \/ SearchEnds \/ AllAsked \/ RequestFails \/ listUbuntu \/ listFedora
           \/ debianImage \/ ReadLifecycle \/ selectImage \/ ListImages
    <2>1. pc' # "detail"
        BY <1>2 DEF listImages, SearchEnds, AllAsked, RequestFails, listUbuntu, ReadIndex,
            ReadCatalog, ReadDates, listFedora, ReadCurrent, ReadArtifacts, debianImage,
            ReadLifecycle, selectImage, ListImages
    <2> QED BY <2>1 DEF FoundIsLatest
<1>3. CASE UNCHANGED process
    BY <1>0, <1>3 DEF process, FoundIsLatest
<1> QED BY <1>1, <1>2, <1>3, StepIsOfOne DEF Command, listDebian, vars

LEMMA ListedOnceStep ==
    ASSUME TypeOK, InOrder, History, ReadWasTrue, FoundIsLatest, ListedOnce, [Next]_vars
    PROVE  ListedOnce'
<1> USE DEF TypeOK, Goes, publishers
<1>1. CASE UNCHANGED process
    BY <1>1 DEF process, ListedOnce, NotYet
<1>2. CASE listImages
    BY <1>2 DEF listImages, ListedOnce, NotYet
<1>3. CASE ReadIndex \/ ReadDates \/ RequestFails \/ SearchEnds \/ AllAsked
    BY <1>3 DEF ReadIndex, ReadDates, RequestFails, SearchEnds, AllAsked, ListedOnce, NotYet
<1>4. CASE ReadCatalog
    <2>1. \A i \in parseUbuntu : i.art.of.distro = "ubuntu" /\ i.art \in Artifacts
        BY DEF parseUbuntu, Image
    <2>2. \A i, j \in parseUbuntu : SameProduct(i.art, j.art) => i = j
        <3>1. SUFFICES ASSUME NEW i \in parseUbuntu, NEW j \in parseUbuntu, SameProduct(i.art, j.art)
                       PROVE  i = j
            OBVIOUS
        <3>2. compareVersions(Text(j.art.build), Text(i.art.build)) # 1
            BY <3>1 DEF parseUbuntu, Image
        <3>3. compareVersions(Text(i.art.build), Text(j.art.build)) # 1
            BY <3>1 DEF parseUbuntu, Image, SameProduct
        <3>4. compareVersions(Text(i.art.build), Text(j.art.build)) = 0
            BY <3>2, <3>3 DEF compareVersions
        <3>5. i.art = j.art
            BY <2>1, <3>1, <3>4, IdentifiersTell
        <3> QED BY <3>1, <3>5 DEF parseUbuntu, Image
    <2>3. \A i \in listing : i.art.of.distro # "ubuntu"
        BY <1>4 DEF ReadCatalog, ListedOnce, NotYet
    <2>4. pc = "catalog" /\ pc' = "dates" /\ todo' = todo /\ "ubuntu" \notin todo
          /\ listing' = listing \cup parseUbuntu
        BY <1>4 DEF ReadCatalog, InOrder
    <2>5. \A i \in listing' : i.art.of.distro \notin todo'
        BY <2>1, <2>4 DEF ListedOnce, NotYet
    <2> QED BY <2>1, <2>2, <2>3, <2>4, <2>5 DEF ListedOnce, NotYet, SameProduct
<1>5. CASE ReadLifecycle
    BY <1>5 DEF ReadLifecycle, ListedOnce, NotYet
<1>6. CASE Search
    BY <1>6 DEF Search, latestDebianBuild, ListedOnce, NotYet
<1>7. CASE debianImage
    BY <1>7 DEF debianImage, ListedOnce, NotYet, FoundIsLatest, InOrder, SameProduct, Image
<1>8. CASE ReadCurrent
    BY <1>8 DEF ReadCurrent, ListedOnce, NotYet
<1>9. CASE ReadArtifacts
    BY <1>9 DEF ReadArtifacts, parseFedora, ListedOnce, NotYet, InOrder, SameProduct, Image
<1>10. CASE selectImage \/ ListImages
    BY <1>10 DEF selectImage, ListImages, ListedOnce, NotYet
<1> QED BY <1>1, <1>2, <1>3, <1>4, <1>5, <1>6, <1>7, <1>8, <1>9, <1>10, StepIsOfOne
        DEF Command, listUbuntu, listDebian, listFedora, vars

\* What a command keeps of an image depends on its product and status only.
LEMMA KeepsProduct ==
    ASSUME NEW i, NEW j, SameProduct(i.art, j.art), i.status = j.status
    PROVE  (Keeps(i) <=> Keeps(j)) /\ (Matches(i) <=> Matches(j))
BY DEF Keeps, Matches, SameProduct, IsLTS, IsSupported

\* An image of the product of an artifact that is there all along has the
\* status the release still has.
LEMMA SteadyStatus ==
    ASSUME TypeOK, History, ReadWasTrue, NEW a \in steady, NEW i \in listing, SameProduct(i.art, a)
    PROVE  i.status = status[a.of]
BY DEF History, ReadWasTrue, SameProduct

LEMMA CoveredStep ==
    ASSUME TypeOK, InOrder, History, ReadWasTrue, FoundIsLatest, ListedOnce, Covered, [Next]_vars
    PROVE  Covered'
<1> USE DEF TypeOK, Goes
<1>1. UNCHANGED process \/ UNCHANGED publishers
    BY StepIsOfOne DEF vars
<1>2. request' = request /\ Sources' = Sources
    BY StepIsOfOne DEF Command, RequestFails, listImages, listUbuntu, ReadIndex, ReadCatalog,
        ReadDates, listDebian, ReadLifecycle, Search, debianImage, SearchEnds, listFedora,
        ReadCurrent, ReadArtifacts, AllAsked, selectImage, ListImages, process, vars,
        Sources, Distro
<1>3. ASSUME NEW a \in steady', Hidden(a) PROVE Hidden(a)'
    BY <1>3, HistoryStep DEF Hidden
<1>4. ASSUME NEW a \in steady' PROVE a \in steady /\ (Asked(a)' <=> Asked(a))
    <2>1. a \in steady /\ status'[a.of] = status[a.of]
        BY HistoryStep
    <2> QED BY <1>2, <2>1 DEF Asked, Keeps, IsLTS, IsSupported, Arch, Image
\* It is enough that each artifact whose page is read by the step is listed.
<1> DEFINE Listed(a) == \E i \in listing : SameProduct(i.art, a)
           Due(a) == a \in steady /\ Asked(a) /\ ~Hidden(a)
<1>5. SUFFICES ASSUME pc' # "failed", NEW a \in steady', Due(a), ~NotYet(a)'
               PROVE  Listed(a)'
    BY <1>3, <1>4 DEF Covered
<1>6. a \in Artifacts /\ a \in offered /\ a.whole /\ a.of \in Releases
      /\ was[a.of] = {status[a.of]}
    BY <1>5, ArtifactsKnown DEF History
<1>7. CASE UNCHANGED process
    BY <1>5, <1>7 DEF process, Covered, NotYet
<1>8. CASE listImages
    BY <1>5, <1>8 DEF listImages, NotYet, Asked
<1>9. CASE ReadIndex
    BY <1>5, <1>9 DEF ReadIndex, NotYet, Covered
<1>10. CASE ReadDates \/ AllAsked \/ RequestFails
    BY <1>5, <1>10 DEF ReadDates, AllAsked, RequestFails, NotYet, Covered
<1>11. CASE ReadCatalog
    <2>1. CASE a.of.distro = "ubuntu"
        <3> DEFINE S == {b \in offered : b.of.distro = "ubuntu" /\ b.whole /\ SameProduct(a, b)}
                   F == [b \in S |-> Text(b.build)]
        <3>1. IsFiniteSet(S) /\ a \in S
            <4>1. S \subseteq Artifacts /\ a \in S
                BY <1>6, <2>1 DEF SameProduct
            <4> QED BY <4>1, ArtifactsFinite, FS_Subset
        <3>2. F \in [S -> Seq(Nat)] /\ \A b \in S : F[b] = Text(b.build)
            BY ArtifactsKnown
        <3>3. PICK m \in S : \A b \in S : compareVersions(Text(b.build), Text(m.build)) # 1
            <4> HIDE DEF S, F
            <4>1. PICK m \in S : \A b \in S : ~Above(F[b], F[m])
                BY <3>1, <3>2, LastExists
            <4> QED BY <4>1, <3>2 DEF compareVersions
        <3>5. Image(m, status[m.of]) \in parseUbuntu
            BY <3>3 DEF parseUbuntu, SameProduct
        <3> QED BY <1>11, <3>5 DEF ReadCatalog, SameProduct, Image
    <2>2. CASE a.of.distro # "ubuntu"
        <3>1. ~NotYet(a)
            BY <1>5, <1>11, <2>2 DEF ReadCatalog, NotYet
        <3> QED BY <1>5, <1>11, <3>1 DEF ReadCatalog, Covered
    <2> QED BY <2>1, <2>2
<1>12. CASE ReadLifecycle
    <2>1. ~NotYet(a)
        BY <1>5, <1>6, <1>12 DEF ReadLifecycle, NotYet, Asked, IsSupported, Image
    <2> QED BY <1>5, <1>12, <2>1 DEF ReadLifecycle, Covered
<1>13. CASE Search
    <2>1. PICK r \in rest :
              /\ rest' = rest \ {r} /\ listing' = listing /\ todo' = todo
              /\ \/ \E b \in latestDebianBuild(r) : found' = b /\ pc' = "detail"
                 \/ latestDebianBuild(r) = {} /\ pc' = "search"
        BY <1>13 DEF Search
    <2>2. CASE a.of.distro = "debian" /\ a.of = r
        <3>1. latestDebianBuild(r) # {}
            <4> DEFINE S == {b \in offered : b.of = r /\ b.arch = "amd64"}
                       F == [b \in S |-> b.build]
            <4>1. IsFiniteSet(S) /\ S # {}
                <5>1. S \subseteq Artifacts /\ a \in S
                    BY <1>5, <1>6, <2>2 DEF Asked
                <5> QED BY <5>1, ArtifactsFinite, FS_Subset
            <4>2. F \in [S -> Seq(Nat)] /\ \A b \in S : F[b] = b.build
                BY ArtifactsKnown
            <4>3. PICK m \in S : \A b \in S : compareVersions(b.build, m.build) # 1
                <5> HIDE DEF S, F
                <5>1. PICK m \in S : \A b \in S : ~Above(F[b], F[m])
                    BY <4>1, <4>2, LastExists
                <5>2. \A b \in S : ~Above(b.build, m.build)
                    BY <5>1, <4>2
                <5> QED BY <5>2 DEF compareVersions
            <4> QED BY <4>3 DEF latestDebianBuild
        <3>2. pc' = "detail" /\ found'.of = r
            BY <2>1, <3>1 DEF latestDebianBuild
        <3> QED BY <1>5, <2>2, <3>2 DEF NotYet
    <2>3. CASE ~(a.of.distro = "debian" /\ a.of = r)
        <3>1. ~NotYet(a)
            BY <1>5, <1>13, <2>1, <2>3 DEF Search, NotYet
        <3> QED BY <1>5, <1>13, <2>1, <3>1 DEF Search, Covered
    <2> QED BY <2>2, <2>3
<1>14. CASE debianImage
    <2>1. CASE a.of.distro = "debian" /\ a.of = found.of
        <3>1. a.arch = "amd64" /\ found.arch = "amd64" /\ found \in ever
            BY <1>5, <1>14, <2>1 DEF debianImage, FoundIsLatest, Asked
        <3>2. compareVersions(a.build, found.build) # 1
            BY <1>5, <1>14, <2>1, <3>1 DEF debianImage, FoundIsLatest
        <3>3. found.whole
            BY <1>5, <2>1, <3>1, <3>2 DEF Hidden
        <3>4. Image(found, noted[found.of]) \in listing'
            BY <1>14, <3>3 DEF debianImage
        <3>5. SameProduct(Image(found, noted[found.of]).art, a)
            BY <2>1, <3>1 DEF SameProduct, Image
        <3> QED BY <3>4, <3>5
    <2>2. CASE ~(a.of.distro = "debian" /\ a.of = found.of)
        <3>1. ~NotYet(a)
            BY <1>5, <1>14, <2>2 DEF debianImage, NotYet
        <3> QED BY <1>5, <1>14, <3>1 DEF debianImage, Covered
    <2> QED BY <2>1, <2>2
<1>15. CASE SearchEnds
    BY <1>5, <1>15 DEF SearchEnds, NotYet, Covered
<1>16. CASE ReadCurrent
    BY <1>5, <1>16 DEF ReadCurrent, NotYet, Covered
<1>17. CASE ReadArtifacts
    <2>1. CASE a.of.distro = "fedora"
        <3>1. status[a.of] = "supported"
            BY <1>5, <2>1 DEF Asked, Image
        <3>2. noted[a.of] = "supported"
            BY <1>6, <1>17, <3>1 DEF ReadArtifacts, ReadWasTrue
        <3>3. Image(a, "supported") \in parseFedora
            BY <1>6, <2>1, <3>2 DEF parseFedora
        <3> QED BY <1>17, <3>3 DEF ReadArtifacts, SameProduct, Image
    <2>2. CASE a.of.distro # "fedora"
        BY <1>5, <1>17, <2>2 DEF ReadArtifacts, NotYet, Covered
    <2> QED BY <2>1, <2>2
<1>18. CASE selectImage \/ ListImages
    <2>1. ~NotYet(a) /\ pc # "failed" /\ listing' = {i \in listing : Keeps(i)}
        BY <1>5, <1>18 DEF selectImage, ListImages, NotYet, InOrder
    <2>2. PICK i \in listing : SameProduct(i.art, a)
        BY <1>5, <2>1 DEF Covered
    <2>3. i.status = status[a.of]
        BY <1>5, <2>2, SteadyStatus
    <2>4. Keeps(Image(a, status[a.of])) /\ Image(a, status[a.of]).art = a
          /\ Image(a, status[a.of]).status = status[a.of]
        BY <1>5 DEF Asked, Image
    <2>5. Keeps(i)
        BY <2>2, <2>3, <2>4, KeepsProduct
    <2> QED BY <2>1, <2>2, <2>5
<1> QED BY <1>7, <1>8, <1>9, <1>10, <1>11, <1>12, <1>13, <1>14, <1>15, <1>16, <1>17, <1>18,
           StepIsOfOne
        DEF Command, listUbuntu, listDebian, listFedora, vars

LEMMA LastInTextStep ==
    ASSUME TypeOK, History, FoundIsLatest, LastInText, [Next]_vars
    PROVE  LastInText'
<1> SUFFICES ASSUME NEW i \in listing', NEW a \in steady', i.art.of.distro = "ubuntu",
                    SameProduct(i.art, a)
             PROVE  compareVersions(Text(a.build), Text(i.art.build)) # 1
    BY DEF LastInText
<1>1. a \in steady /\ a \in offered /\ a.whole
    BY HistoryStep DEF History
<1>2. CASE i \in listing
    BY <1>1, <1>2 DEF LastInText
<1>3. CASE i \in parseUbuntu
    BY <1>1, <1>3 DEF parseUbuntu, Image, SameProduct
<1>4. i \in listing \/ i \in parseUbuntu
    <2>1. CASE UNCHANGED process \/ UNCHANGED vars
        BY <2>1 DEF process, vars
    <2>2. CASE Command \/ RequestFails
        BY <2>2
        DEF Command, RequestFails, listImages, listUbuntu, ReadIndex, ReadCatalog, ReadDates,
            listDebian, ReadLifecycle, Search, debianImage, SearchEnds, listFedora, ReadCurrent,
            ReadArtifacts, AllAsked, selectImage, ListImages, FoundIsLatest, parseFedora, Image
    <2> QED BY <2>1, <2>2, StepIsOfOne
<1> QED BY <1>2, <1>3, <1>4

LEMMA ChosenStep ==
    ASSUME TypeOK, ChosenIsFirst, [Next]_vars
    PROVE  ChosenIsFirst'
<1>1. CASE selectImage
    <2>1. SUFFICES ASSUME pc' = "selected" PROVE ChosenIsFirst'
        BY DEF ChosenIsFirst
    <2>2. /\ request.select /\ request' = request /\ listing' = {i \in listing : Keeps(i)}
          /\ chosen' \in listing /\ Matches(chosen')
          /\ \A j \in listing : Matches(j) => ~Precedes(j.art, chosen'.art)
        BY <1>1, <2>1 DEF selectImage, Goes
    <2>3. \A i : Matches(i)' <=> Matches(i)
        BY <2>2 DEF Matches, Keeps, Arch, Distro, IsLTS, IsSupported
    <2>4. Matches(chosen)' /\ Keeps(chosen')
        BY <2>2 DEF Matches, Keeps, Arch, Distro, IsLTS, IsSupported
    <2> QED BY <2>2, <2>3, <2>4 DEF ChosenIsFirst
<1>2. CASE UNCHANGED process
    BY <1>2 DEF process, ChosenIsFirst, Matches, Keeps, Arch, Distro, IsLTS, IsSupported
<1>3. CASE listImages \/ listUbuntu \/ listDebian \/ listFedora \/ AllAsked \/ ListImages \/ RequestFails
    <2>1. pc' # "selected"
        BY <1>3 DEF listImages, listUbuntu, ReadIndex, ReadCatalog, ReadDates, listDebian,
            ReadLifecycle, Search, debianImage, SearchEnds, listFedora, ReadCurrent,
            ReadArtifacts, AllAsked, ListImages, RequestFails, Goes
    <2> QED BY <2>1 DEF ChosenIsFirst
<1> QED BY <1>1, <1>2, <1>3, StepIsOfOne DEF Command, vars

\* Type correctness of a listing, for all publishers and requests.
THEOREM CatalogTypeOK == Spec => []TypeOK
<1>1. Init => TypeOK
    BY InitInvariant DEF CatalogIInv
<1> QED BY <1>1, TypeStep, PTL DEF Spec

\* The inductive invariant: what is listed was offered, once, and nothing that
\* was there all along is left out of a part that was read.
THEOREM CatalogInvariant == Spec => []CatalogIInv
<1>1. CatalogIInv /\ [Next]_vars => CatalogIInv'
    BY TypeStep, InOrderStep, HistoryStep, ReadStep, FoundStep, ListedOnceStep, CoveredStep,
       LastInTextStep, ChosenStep DEF CatalogIInv
<1> QED BY <1>1, InitInvariant, PTL DEF Spec

\* A listing that does not fail is complete.
THEOREM ListingIsComplete == Spec => []NothingLeftOut
<1>1. CatalogIInv => NothingLeftOut
    <2> SUFFICES ASSUME CatalogIInv, pc = "listed" PROVE NothingLeftOut
        BY DEF NothingLeftOut
    <2>1. \A a \in steady : ~NotYet(a)
        BY DEF CatalogIInv, InOrder, NotYet
    <2> QED BY <2>1 DEF CatalogIInv, Covered, NothingLeftOut
<1> QED BY <1>1, CatalogInvariant, PTL

\* The release that is selected is the newest one that was there all along.
THEOREM SelectsNewestRelease == Spec => []NewestRelease
<1>1. CatalogIInv => NewestRelease
    <2> SUFFICES ASSUME CatalogIInv, pc = "selected", NEW a \in steady,
                        Asked(a), ~Hidden(a), Matches(Image(a, status[a.of]))
                 PROVE  compareVersions(a.of.version, chosen.art.of.version) # 1
        BY DEF NewestRelease
    <2> USE DEF CatalogIInv
    <2>1. ~NotYet(a)
        BY DEF InOrder, NotYet
    <2>2. PICK i \in listing : SameProduct(i.art, a)
        BY <2>1 DEF Covered
    <2>3. i.status = status[a.of]
        BY <2>2, SteadyStatus
    <2>4. Image(a, status[a.of]).art = a /\ Image(a, status[a.of]).status = status[a.of]
        BY DEF Image
    <2>5. Matches(i)
        BY <2>2, <2>3, <2>4, KeepsProduct
    <2>6. ~Precedes(i.art, chosen.art)
        BY <2>5 DEF ChosenIsFirst
    <2> QED BY <2>2, <2>6 DEF Precedes, SameProduct
<1> QED BY <1>1, CatalogInvariant, PTL

\* What is selected was offered, whole and supported, for the right machine.
THEOREM SelectsSoundImage == Spec => []SelectedIsSound
<1>1. CatalogIInv => SelectedIsSound
    <2> SUFFICES ASSUME CatalogIInv, pc = "selected" PROVE SelectedIsSound
        BY DEF SelectedIsSound
    <2> USE DEF CatalogIInv
    <2>1. chosen \in listing /\ Matches(chosen) /\ request.select
        BY DEF ChosenIsFirst
    <2>2. Arch # ""
        BY <2>1, HostArchKnown DEF Arch, normalizeArch
    <2> QED BY <2>1, <2>2 DEF SelectedIsSound, ReadWasTrue, Matches, Keeps, IsSupported
<1> QED BY <1>1, CatalogInvariant, PTL

\* The order of a listing and the selection from it depend on nothing but
\* what is listed.
THEOREM ListingIsOrdered == Spec => []Orderly
<1>1. CatalogIInv => Orderly
    <2> SUFFICES ASSUME CatalogIInv, NEW i \in listing, NEW j \in listing,
                        i # j, i.art.of.distro = j.art.of.distro
                 PROVE  Precedes(i.art, j.art) # Precedes(j.art, i.art)
        BY DEF Orderly
    <2> DEFINE a == i.art
               b == j.art
    <2>1. /\ a \in Artifacts /\ b \in Artifacts
          /\ a.of.version \in Seq(Nat) /\ b.of.version \in Seq(Nat)
          /\ a.build \in Seq(Nat) /\ b.build \in Seq(Nat) /\ a.name \in Nat /\ b.name \in Nat
        BY ImagesExist, ArtifactsKnown, ReleasesKnown DEF CatalogIInv, TypeOK
    <2>2. a.name # b.name
        <3>1. SUFFICES ASSUME a.name = b.name PROVE i = j
            OBVIOUS
        <3>2. SameProduct(a, b) /\ (a.of.distro = "fedora" => a = b)
            BY <2>1, <3>1, IdentifiersTell
        <3>3. CASE a.of.distro = "fedora"
            BY <2>1, <3>2, <3>3, ImagesExist DEF CatalogIInv, TypeOK, ReadWasTrue
        <3>4. CASE a.of.distro # "fedora"
            BY <3>2, <3>4 DEF CatalogIInv, ListedOnce
        <3> QED BY <3>3, <3>4
    <2> HIDE DEF a, b
    <2>3. /\ compareVersions(a.of.version, b.of.version) \in {-1, 0, 1}
          /\ compareVersions(b.of.version, a.of.version) = -compareVersions(a.of.version, b.of.version)
          /\ compareVersions(a.build, b.build) \in {-1, 0, 1}
          /\ compareVersions(b.build, a.build) = -compareVersions(a.build, b.build)
        BY <2>1, VersionsAreOrdered
    <2>4. Precedes(a, b) # Precedes(b, a)
        BY <2>1, <2>2, <2>3 DEF Precedes
    <2> QED BY <2>4 DEF a, b
<1> QED BY <1>1, CatalogInvariant, PTL

\* parseUbuntu compares builds as texts, the tests of the catalog expect the
\* latest.  Where both orders agree on the builds of every product, the build
\* listed of each is the latest one that was there all along, whatever the
\* publisher does meanwhile: the order of the texts is all that is in the way.
TextAgrees ==
    \A a, b \in Artifacts : SameProduct(a, b) /\ a.of.distro = "ubuntu" =>
        compareVersions(Text(a.build), Text(b.build)) = compareVersions(a.build, b.build)

THEOREM LatestWhereTextAgrees == TextAgrees => (Spec => []LatestUbuntuBuild)
<1>1. TextAgrees /\ CatalogIInv => LatestUbuntuBuild
    <2> SUFFICES ASSUME TextAgrees, CatalogIInv, NEW i \in listing, NEW a \in steady,
                        i.art.of.distro = "ubuntu", SameProduct(i.art, a)
                 PROVE  compareVersions(a.build, i.art.build) # 1
        BY DEF LatestUbuntuBuild
    <2>1. i.art \in Artifacts /\ a \in Artifacts /\ SameProduct(a, i.art)
          /\ a.of.distro = "ubuntu"
        BY ImagesExist DEF CatalogIInv, TypeOK, SameProduct
    <2>2. compareVersions(Text(a.build), Text(i.art.build)) # 1
        BY DEF CatalogIInv, LastInText
    <2> QED BY <2>1, <2>2 DEF TextAgrees
<1>2. TextAgrees => [](CatalogIInv => LatestUbuntuBuild)
    <2> SUFFICES ASSUME TextAgrees PROVE [](CatalogIInv => LatestUbuntuBuild)
        OBVIOUS
    <2>1. CatalogIInv => LatestUbuntuBuild
        BY <1>1
    <2> QED BY <2>1, PTL
<1> QED BY <1>2, CatalogInvariant, PTL
================================================================================
