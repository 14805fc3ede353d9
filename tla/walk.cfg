\* Paths of up to three directories, two changes of the phone, and any --max-depth that bites.
CONSTANTS
    r = r
    d = d
    e = e
    f = f
    g = g
    Node = {r, d, e, f, g}
    Root = r
    Contents <- Tree
    FirstKind <- TreeKinds
    Unnameable = {g}
    MaxWalkDepth = 3
    RequestDepth = {0, 1, 2}
    MaxChanges = 2
SPECIFICATION FairSpec
INVARIANTS TypeOK ListingIsTheTree UntouchedFilesListed FirstMismatchAsks DepthBounded FixtureListsTheSame
PROPERTY WalkEnds
CHECK_DEADLOCK FALSE
