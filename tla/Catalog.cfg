SPECIFICATION MCSpec
CONSTANTS
    Releases <- MCReleases
    Artifacts <- MCArtifacts
    Requests <- MCRequests
    HostArch = "amd64"
    NoImage = NoImage
    MaxChanges = 2
CHECK_DEADLOCK FALSE
INVARIANT CatalogIInv
INVARIANT NothingLeftOut
INVARIANT NewestRelease
INVARIANT SelectedIsSound
INVARIANT Orderly
