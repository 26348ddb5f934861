------------------------------ MODULE ImageCatalog ------------------------------
(***************************************************************************)
(* The choice of the cloud image: `tender images list', `tender images     *)
(* select' and the image every create is made from.  A listing asks the    *)
(* publishers of the distributions, page after page, keeps what the        *)
(* request asks for and, to select, takes the newest.  The publishers      *)
(* release and withdraw builds, and end the support of releases, between   *)
(* two requests.                                                           *)
(*                                                                         *)
(* Sources: internal/images (catalog.go, ubuntu.go, debian.go, fedora.go,  *)
(* http.go).                                                               *)
(***************************************************************************)
EXTENDS Versions, FiniteSets

CONSTANTS
    Releases,       \* [distro, version, names, longTerm]
    Artifacts,      \* what publishers may offer: [of, arch, build, name, whole],
                    \* file names numbered in their order
    Requests,       \* [select, distro, release, arch, format, lts]
    HostArch,       \* runtime.GOARCH
    NoImage,
    MaxChanges      \* bound: what publishers change during a listing

Distros  == {"ubuntu", "debian", "fedora"}
Statuses == {"unreleased", "supported", "lts", "unsupported"}

(***************************************************************************)
(* An artifact is whole when it has what the parser of its publisher looks *)
(* for: the label "release" and a disk1.img, an upload of the generic      *)
(* qcow2, a Cloud_Base link to a qcow2.                                    *)
(***************************************************************************)
ASSUME ReleasesKnown ==
    Releases \subseteq [distro: Distros, version: Seq(Nat), names: SUBSET STRING,
                        longTerm: BOOLEAN]
ASSUME ArtifactsFinite == IsFiniteSet(Artifacts)
ASSUME ArtifactsKnown ==
    \A a \in Artifacts :
        /\ a.of \in Releases /\ a.build \in Seq(Nat)
        /\ a.name \in Nat /\ a.whole \in BOOLEAN
        /\ a.of.distro = "ubuntu" => Text(a.build) \in Seq(Nat)
ASSUME ChangesBounded == MaxChanges \in Nat
ASSUME HostArchKnown == HostArch \in STRING \ {""}
ASSUME NoImageIsNone == \A a \in Artifacts, s \in Statuses : NoImage # [art |-> a, status |-> s]

SameProduct(a, b) == a.of = b.of /\ a.arch = b.arch

\* Builds are the keys of an object in the page, and file names hold release
\* and architecture, Fedora's also the build.
ASSUME IdentifiersTell ==
    \A a, b \in Artifacts :
        /\ /\ SameProduct(a, b) /\ a.of.distro = "ubuntu"
           /\ compareVersions(Text(a.build), Text(b.build)) = 0
           => a = b
        /\ a.name = b.name => SameProduct(a, b) /\ (a.of.distro = "fedora" => a = b)

VARIABLES
    request,    \* the command
    pc,         \* the page that is asked for next, or how the command ended
    todo,       \* distributions still to be asked
    noted,      \* status of each release by the page read for it
    rest,       \* Debian releases still to be searched
    found,      \* the Debian build the search returned
    listing,    \* images found so far, then those that are printed
    chosen,     \* the image selected
    offered,    \* publishers: the artifacts that can be found
    status,     \* publishers: support of each release
    changes,    \* what they changed so far
    steady,     \* whole artifacts offered since the listing began (history)
    ever,       \* artifacts offered at some moment of it (history)
    was         \* statuses each release had during it (history)

process    == <<request, pc, todo, noted, rest, found, listing, chosen>>
publishers == <<offered, status, changes, steady, ever, was>>
vars       == <<process, publishers>>

Ended == {"listed", "selected", "failed"}

Image(a, s) == [art |-> a, status |-> s]

normalizeArch(arch) ==
    CASE arch \in {"amd64", "x86_64"}    -> "x86_64"
      [] arch \in {"arm64", "aarch64"}   -> "aarch64"
      [] arch \in {"ppc64el", "ppc64le"} -> "ppc64le"
      [] OTHER -> arch

\* Selector.defaults and listImages: Ubuntu if nothing is asked for.
Distro == IF request.distro = "" THEN "ubuntu" ELSE request.distro
Sources == IF Distro = "all" THEN Distros ELSE {Distro} \cap Distros
Arch ==
    CASE request.arch # "" -> normalizeArch(request.arch)
      [] request.select    -> normalizeArch(HostArch)
      [] OTHER             -> ""

IsSupported(i) == i.status \in {"supported", "lts"}

\* The title of an Ubuntu release says so, Debian's support has a second
\* period, Fedora has neither.
IsLTS(i) ==
    CASE i.art.of.distro = "ubuntu" -> i.art.of.longTerm
      [] i.art.of.distro = "debian" -> i.status = "lts"
      [] OTHER                      -> FALSE

\* What listImages keeps.
Keeps(i) ==
    /\ request.release # "" => request.release \in i.art.of.names
    /\ request.lts => IsLTS(i)
    /\ Arch # "" => normalizeArch(i.art.arch) = Arch

\* Faulty variant: support has ended and nobody looks.
MatchesUnsupported(i) ==
    /\ Keeps(i)
    /\ i.art.of.distro = Distro
    /\ request.format \in {"", "qcow2"}

\* What selectImage keeps of that.
Matches(i) ==
    /\ Keeps(i)
    /\ IsSupported(i)
    /\ i.art.of.distro = Distro
    /\ request.format \in {"", "qcow2"}

\* Faulty variant: the build alone decides.
PrecedesByBuild(a, b) ==
    \/ compareVersions(a.build, b.build) = 1
    \/ compareVersions(a.build, b.build) = 0 /\ a.name < b.name

\* The order of both sorts among images of one distribution: newest first.
Precedes(a, b) ==
    LET release == compareVersions(a.of.version, b.of.version)
        build   == compareVersions(a.build, b.build)
    IN  \/ release = 1
        \/ release = 0 /\ build = 1
        \/ release = 0 /\ build = 0 /\ a.name < b.name

Init ==
    /\ request \in Requests
    /\ pc = "start" /\ todo = {} /\ rest = {}
    /\ noted = [r \in Releases |-> "unreleased"]
    /\ found = NoImage /\ chosen = NoImage /\ listing = {}
    /\ offered \in SUBSET Artifacts
    /\ status \in [Releases -> Statuses]
    /\ changes = 0
    /\ steady = {a \in offered : a.whole}
    /\ ever = offered
    /\ was = [r \in Releases |-> {status[r]}]

(***************************************************************************)
(* The command.  A page read is one action, with the publishers as they    *)
(* are at that moment.                                                     *)
(***************************************************************************)
Goes(to) == pc' = to /\ UNCHANGED publishers

listImages ==
    /\ pc = "start"
    /\ IF Sources = {} THEN Goes("failed") ELSE Goes("next")
    /\ todo' = Sources
    /\ UNCHANGED <<request, noted, rest, found, listing, chosen>>

\* Faulty variant: what a publisher that fails had to offer is left out.
RequestSkipped ==
    /\ pc \notin {"start", "filter"} \cup Ended
    /\ Goes("next")
    /\ UNCHANGED <<request, todo, noted, rest, found, listing, chosen>>

\* Any request may time out, be refused or answer something else; there is no
\* second try, and one publisher that fails fails the whole listing.
RequestFails ==
    /\ pc \notin {"start", "filter"} \cup Ended
    /\ Goes("failed")
    /\ UNCHANGED <<request, todo, noted, rest, found, listing, chosen>>

\* Ubuntu: index, catalog and release dates.  Of each product, the last of
\* the sorted build identifiers is taken.
ReadIndex ==
    /\ pc = "next" /\ "ubuntu" \in todo
    /\ todo' = todo \ {"ubuntu"}
    /\ Goes("catalog")
    /\ UNCHANGED <<request, noted, rest, found, listing, chosen>>

\* Faulty variant: every build is listed.
parseUbuntuAll ==
    {Image(a, status[a.of]) : a \in {b \in offered : b.of.distro = "ubuntu" /\ b.whole}}

parseUbuntu ==
    LET builds == {a \in offered : a.of.distro = "ubuntu" /\ a.whole}
        last   == {a \in builds : \A b \in builds : SameProduct(a, b) =>
                       compareVersions(Text(b.build), Text(a.build)) # 1}
    IN {Image(a, status[a.of]) : a \in last}

ReadCatalog ==
    /\ pc = "catalog"
    /\ listing' = listing \cup parseUbuntu
    /\ Goes("dates")
    /\ UNCHANGED <<request, todo, noted, rest, found, chosen>>

ReadDates ==
    /\ pc = "dates"
    /\ Goes("next")
    /\ UNCHANGED <<request, todo, noted, rest, found, listing, chosen>>

listUbuntu == ReadIndex \/ ReadCatalog \/ ReadDates

\* Debian: the lifecycle of all releases, and for each that is supported
\* today a search and the details of the latest build found.
ReadLifecycle ==
    /\ pc = "next" /\ "debian" \in todo /\ "ubuntu" \notin todo
    /\ todo' = todo \ {"debian"}
    /\ noted' = status
    /\ rest' = {r \in Releases : r.distro = "debian" /\ status[r] \in {"supported", "lts"}}
    /\ Goes("search")
    /\ UNCHANGED <<request, found, listing, chosen>>

\* Any of equal versions: the first one in the page.
latestDebianBuild(r) ==
    LET results == {a \in offered : a.of = r /\ a.arch = "amd64"}
    IN {a \in results : \A b \in results : compareVersions(b.build, a.build) # 1}

Search ==
    /\ pc = "search" /\ rest # {}
    /\ \E r \in rest :
          /\ rest' = rest \ {r}
          /\ \/ \E a \in latestDebianBuild(r) : found' = a /\ Goes("detail")
             \/ /\ latestDebianBuild(r) = {}
                /\ Goes("search") /\ UNCHANGED found
    /\ UNCHANGED <<request, todo, noted, listing, chosen>>

\* A build without the right upload is passed over, and its release with it.
debianImage ==
    /\ pc = "detail" /\ found \in offered
    /\ listing' = listing \cup
          IF found.whole THEN {Image(found, noted[found.of])} ELSE {}
    /\ Goes("search")
    /\ UNCHANGED <<request, todo, noted, rest, found, chosen>>

SearchEnds ==
    /\ pc = "search" /\ rest = {}
    /\ Goes("next")
    /\ UNCHANGED <<request, todo, noted, rest, found, listing, chosen>>

listDebian == ReadLifecycle \/ Search \/ debianImage \/ SearchEnds

\* Fedora: the current releases, then all artifacts.
ReadCurrent ==
    /\ pc = "next" /\ todo = {"fedora"}
    /\ todo' = {}
    /\ noted' = status
    /\ Goes("artifacts")
    /\ UNCHANGED <<request, rest, found, listing, chosen>>

parseFedora ==
    {Image(a, "supported") :
        a \in {b \in offered : /\ b.of.distro = "fedora" /\ b.whole
                               /\ noted[b.of] = "supported"}}

ReadArtifacts ==
    /\ pc = "artifacts"
    /\ listing' = listing \cup parseFedora
    /\ Goes("next")
    /\ UNCHANGED <<request, todo, noted, rest, found, chosen>>

listFedora == ReadCurrent \/ ReadArtifacts

AllAsked ==
    /\ pc = "next" /\ todo = {}
    /\ Goes("filter")
    /\ UNCHANGED <<request, todo, noted, rest, found, listing, chosen>>

\* The first of the sorted matches is one that no other one precedes.
selectImage ==
    /\ pc = "filter" /\ request.select
    /\ LET matches == {i \in listing : Matches(i)}
           firsts  == {i \in matches : \A j \in matches : ~Precedes(j.art, i.art)}
       IN  \/ matches = {} /\ Goes("failed") /\ UNCHANGED chosen
           \/ \E i \in firsts : chosen' = i /\ Goes("selected")
    /\ listing' = {i \in listing : Keeps(i)}
    /\ UNCHANGED <<request, todo, noted, rest, found>>

ListImages ==
    /\ pc = "filter" /\ ~request.select
    /\ listing' = {i \in listing : Keeps(i)}
    /\ Goes("listed")
    /\ UNCHANGED <<request, todo, noted, rest, found, chosen>>

Command ==
    \/ listImages \/ listUbuntu \/ listDebian \/ listFedora
    \/ AllAsked \/ selectImage \/ ListImages

(***************************************************************************)
(* The publishers, as long as anybody asks.                                *)
(***************************************************************************)
Change == /\ pc \notin Ended /\ changes < MaxChanges
          /\ changes' = changes + 1 /\ UNCHANGED process

Publish(a) ==
    /\ a \notin offered
    /\ Change
    /\ offered' = offered \cup {a} /\ ever' = ever \cup {a}
    /\ UNCHANGED <<status, steady, was>>

Withdraw(a) ==
    /\ a \in offered
    /\ Change
    /\ offered' = offered \ {a} /\ steady' = steady \ {a}
    /\ UNCHANGED <<status, ever, was>>

\* A release comes out, or one of its periods of support ends.
EntersPeriod(r) ==
    /\ Change
    /\ \E s \in Statuses :
          /\ <<status[r], s>> \in {<<"unreleased", "supported">>, <<"supported", "lts">>,
                 <<"supported", "unsupported">>, <<"lts", "unsupported">>}
          /\ status' = [status EXCEPT ![r] = s]
          /\ was' = [was EXCEPT ![r] = @ \cup {s}]
    /\ steady' = {a \in steady : a.of # r}
    /\ UNCHANGED <<offered, ever>>

Next ==
    \/ Command
    \/ RequestFails
    \/ \E a \in Artifacts : Publish(a) \/ Withdraw(a)
    \/ \E r \in Releases : EntersPeriod(r)

Spec == Init /\ [][Next]_vars
-----------------------------------------------------------------------------
(***************************************************************************)
(* Type invariant.                                                         *)
(***************************************************************************)
Pages  == {"start", "next", "catalog", "dates", "search", "detail", "artifacts", "filter"}
Images == {Image(a, s) : a \in Artifacts, s \in Statuses}

\* Every variable has its shape, and found is an artifact while its details
\* are asked for.
TypeOK ==
    /\ request \in Requests
    /\ pc \in Pages \cup Ended
    /\ todo \subseteq Distros
    /\ noted \in [Releases -> Statuses]
    /\ rest \subseteq {r \in Releases : r.distro = "debian"}
    /\ found \in Artifacts \cup {NoImage}
    /\ pc = "detail" => found \in Artifacts
    /\ listing \subseteq Images
    /\ chosen \in Images \cup {NoImage}
    /\ pc = "selected" => chosen \in Images
    /\ offered \subseteq Artifacts
    /\ status \in [Releases -> Statuses]
    /\ changes \in 0 .. MaxChanges
    /\ steady \subseteq Artifacts
    /\ ever \subseteq Artifacts
    /\ was \in [Releases -> SUBSET Statuses]

(***************************************************************************)
(* Safety.                                                                 *)
(***************************************************************************)
\* Of a release that is offered and supported all along, only a Debian build
\* that is not whole can hide what the request asks for: the search returns
\* the latest build, whole or not, and debianImage drops it.
Hidden(a) ==
    /\ a.of.distro = "debian"
    /\ \E b \in ever : /\ b.of = a.of /\ ~b.whole
                       /\ compareVersions(a.build, b.build) # 1

\* What the command would keep of an artifact whose status did not change.
Asked(a) ==
    LET i == Image(a, status[a.of])
    IN  /\ a.of.distro \in Sources /\ Keeps(i)
        /\ a.of.distro = "debian" => IsSupported(i) /\ a.arch = "amd64"
        /\ a.of.distro = "fedora" => i.status = "supported"

\* A listing that does not fail is complete, although any page may fail and
\* the publishers do not wait: it has an image of every release that was
\* there all along.
NothingLeftOut ==
    pc = "listed" =>
        \A a \in steady : Asked(a) /\ ~Hidden(a) =>
            \E i \in listing : SameProduct(i.art, a)

\* No release asked for that was there all along is newer than the release
\* that is selected.
NewestRelease ==
    pc = "selected" =>
        \A a \in steady :
            Asked(a) /\ ~Hidden(a) /\ Matches(Image(a, status[a.of])) =>
                compareVersions(a.of.version, chosen.art.of.version) # 1

\* What is selected is a whole artifact that was offered during the listing,
\* of a release that was supported during it, for the right machine.
SelectedIsSound ==
    pc = "selected" =>
        /\ chosen.art \in ever /\ chosen.art.whole
        /\ chosen.status \in was[chosen.art.of] \cap {"supported", "lts"}
        /\ normalizeArch(chosen.art.arch) = Arch

\* Of any two images of a distribution one precedes the other: the order in
\* which pages and maps are read decides neither what is printed first nor
\* what is selected.
Orderly ==
    pc \in {"listed", "selected"} =>
        \A i, j \in listing :
            i # j /\ i.art.of.distro = j.art.of.distro =>
                Precedes(i.art, j.art) # Precedes(j.art, i.art)

(***************************************************************************)
(* What the tests say of the catalog and the code does not do.             *)
(***************************************************************************)
\* Of every Ubuntu product the latest build is listed.  The code compares the
\* texts of builds, so that it is where texts and numbers are in one order
\* (LatestWhereTextAgrees in ImageCatalogProofs), and is not where the tenth
\* build of a day meets the second.
LatestUbuntuBuild ==
    pc = "listed" =>
        \A i \in listing, a \in steady :
            i.art.of.distro = "ubuntu" /\ SameProduct(i.art, a) =>
                compareVersions(a.build, i.art.build) # 1

(***************************************************************************)
(* The inductive invariant.                                                *)
(***************************************************************************)
History ==
    /\ offered \subseteq ever /\ steady \subseteq offered
    /\ \A r \in Releases : status[r] \in was[r]
    /\ \A a \in steady : a.whole /\ was[a.of] = {status[a.of]}

\* The publishers are asked one after the other.
InOrder ==
    /\ pc \in {"catalog", "dates"} => "ubuntu" \notin todo
    /\ pc \in {"search", "detail"} => todo \subseteq {"fedora"}
    /\ pc \in {"artifacts", "filter", "listed", "selected"} => todo = {}

\* What was read from a page was true when it was read.
ReadWasTrue ==
    /\ pc \in {"search", "detail", "artifacts"} => \A r \in Releases : noted[r] \in was[r]
    /\ \A i \in listing :
          /\ i.art \in ever /\ i.art.whole /\ i.status \in was[i.art.of]
          /\ i.art.of.distro = "fedora" => i.status = "supported"

\* The search returned a build no earlier one of the release is newer than.
FoundIsLatest ==
    pc = "detail" =>
        /\ found \in ever /\ found.of.distro = "debian" /\ found.arch = "amd64"
        /\ found.of \notin rest
        /\ \A a \in steady : a.of = found.of /\ a.arch = "amd64" =>
              compareVersions(a.build, found.build) # 1

\* The page that would list a is still to be read.
NotYet(a) ==
    \/ pc = "start" \/ a.of.distro \in todo
    \/ a.of.distro = "ubuntu" /\ pc = "catalog"
    \/ a.of.distro = "debian" /\ pc \in {"search", "detail"} /\ a.of \in rest
    \/ a.of.distro = "debian" /\ pc = "detail" /\ a.of = found.of
    \/ a.of.distro = "fedora" /\ pc = "artifacts"

ListedOnce ==
    /\ \A i \in listing : ~NotYet(i.art)
    /\ \A i, j \in listing :
          SameProduct(i.art, j.art) /\ i.art.of.distro # "fedora" => i = j

Covered ==
    pc # "failed" =>
        \A a \in steady : Asked(a) /\ ~Hidden(a) /\ ~NotYet(a) =>
            \E i \in listing : SameProduct(i.art, a)

\* Of an Ubuntu product the build is listed that no other one follows in the
\* order of their texts.
LastInText ==
    \A i \in listing, a \in steady :
        i.art.of.distro = "ubuntu" /\ SameProduct(i.art, a) =>
            compareVersions(Text(a.build), Text(i.art.build)) # 1

ChosenIsFirst ==
    pc = "selected" =>
        /\ chosen \in listing /\ Matches(chosen) /\ request.select
        /\ \A i \in listing : Matches(i) => ~Precedes(i.art, chosen.art)

CatalogIInv ==
    /\ TypeOK
    /\ InOrder
    /\ History
    /\ ReadWasTrue
    /\ FoundIsLatest
    /\ ListedOnce
    /\ Covered
    /\ LastInText
    /\ ChosenIsFirst
================================================================================
