SPECIFICATION Spec
CONSTANTS
    p1 = p1
    p2 = p2
    j1 = j1
    j2 = j2
    Pods = {p1, p2}
    Orgs = {1, 2}
    Items = {"access_policy_rules", "zta_profiles", "duo_saml", "ise_pxgrid"}
    Home <- MCHome
    Named <- MCNamed
    Urls <- MCUrls
    Leftovers <- MCLeftovers
    Slots = 1
    Jobs = {j1, j2}
    MaxStarts = 2
    MaxUpsets = 1
    Touched = {"duo_saml"}
INVARIANTS OkMeansEveryItem CleanRunLeavesNothing
PROPERTY OnlyOwnOrgs
SYMMETRY Threads
CHECK_DEADLOCK FALSE
