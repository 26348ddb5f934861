----------------------------- MODULE MCImageCatalog -----------------------------
(***************************************************************************)
(* ImageCatalog on five releases and nine artifacts: a long-term and a     *)
(* short-term release of Ubuntu with two builds of one day (numbered 2 and *)
(* 10) and two architectures, two releases of Debian with a build that is  *)
(* not whole, one release of Fedora.                                       *)
(***************************************************************************)
EXTENDS ImageCatalog

Release(d, v, n, l) == [distro |-> d, version |-> v, names |-> n, longTerm |-> l]
Artifact(r, arch, build, name, whole) ==
    [of |-> r, arch |-> arch, build |-> build, name |-> name, whole |-> whole]

resolute == Release("ubuntu", <<26, 4>>, {"26.04", "Resolute"}, TRUE)
questing == Release("ubuntu", <<25, 10>>, {"25.10", "Questing"}, FALSE)
bookworm == Release("debian", <<12>>, {"12", "Bookworm"}, FALSE)
trixie   == Release("debian", <<13>>, {"13", "Trixie"}, FALSE)
f44      == Release("fedora", <<44>>, {"44"}, FALSE)

MCReleases == {resolute, questing, bookworm, trixie, f44}
MCArtifacts ==
    {Artifact(resolute, "amd64", <<31, 2>>, 1, TRUE),
     Artifact(resolute, "amd64", <<31, 10>>, 1, TRUE),
     Artifact(resolute, "arm64", <<31, 2>>, 2, TRUE),
     Artifact(questing, "amd64", <<33>>, 3, TRUE),
     Artifact(bookworm, "amd64", <<29, 999>>, 4, TRUE),
     Artifact(trixie, "amd64", <<29, 999>>, 5, TRUE),
     Artifact(trixie, "amd64", <<29, 2559>>, 5, TRUE),
     Artifact(trixie, "amd64", <<30, 7>>, 5, FALSE),
     Artifact(f44, "x86_64", <<44, 1, 7>>, 6, TRUE)}

Request(select, distro, release, arch, format, lts) ==
    [select |-> select, distro |-> distro, release |-> release, arch |-> arch,
     format |-> format, lts |-> lts]
MCRequests ==
    {Request(TRUE, "", "", "", "", FALSE),
     Request(TRUE, "debian", "", "amd64", "qcow2", FALSE),
     Request(TRUE, "ubuntu", "Resolute", "arm64", "", TRUE),
     Request(TRUE, "all", "", "", "", FALSE),
     Request(TRUE, "fedora", "", "", "raw", FALSE),
     Request(FALSE, "all", "", "", "", FALSE),
     Request(FALSE, "all", "", "amd64", "", TRUE),
     Request(FALSE, "arch", "", "amd64", "", FALSE)}

\* To begin with all artifacts are offered, or all that are whole, or those of
\* three releases; Debian's older release is in its second period and Fedora's
\* is still to come, or neither.
MCInit ==
    /\ offered \in {MCArtifacts, {a \in MCArtifacts : a.whole},
                   {a \in MCArtifacts : a.of \notin {trixie, f44}}}
    /\ status \in {s \in [MCReleases -> Statuses] :
           /\ \A r \in {resolute, questing, trixie} : s[r] = "supported"
           /\ <<s[bookworm], s[f44]>> \in
                 {<<"supported", "supported">>, <<"lts", "unreleased">>}}
    /\ Init
MCSpec == MCInit /\ [][Next]_vars
================================================================================
