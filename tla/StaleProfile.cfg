SPECIFICATION MCSpec
CONSTANTS
    t1 = t1
    t2 = t2
    ann = ann
    bo = bo
    kid = kid
    mia = mia
    tom = tom
    Tenants = {t1, t2}
    Users = {ann, bo}
    Members = {kid, mia, tom}
    Home <- Homes
    Account <- Accounts
    Memberships <- Roles
    Edges <- Guardianships
    Callers = {c1, c2}
    MaxActs = 3
    MaxAttempts = 2
    MaxConsents = 2
    Workloads <- Overlaps
    None = None
    Null = Null
    Docs <- TwoRowsEach
    NoTenant = NoTenant
    Nesting = 2
    Stages <- StagesByDepth
    Pipelines <- ShortPipelines
    Batches <- SingleOps
    r1 = r1
    r2 = r2
    plain = plain
    capital = capital
    Editors = {1, 2}
    EditorOf <- OwnerAndStaff
    RowIds = {r1, r2}
    Emails = {plain, capital}
    LowerCase <- Spelling
    Focuses <- Changes
    sam = sam
    pam = pam
    o1 = o1
    o2 = o2
    Visitors = {sam, pam, o1, o2}
    VisitorOf <- Sessions
    Subject <- SignsFor
    Templates = {"health"}
    Texts = {"x", "y"}
    MaxVersion = 2
    MaxSignatures = 2
    UsersOf <- Browsers
    MaxWrites = 1
    Nothing = Nothing
    Parts = {"pages"}
INVARIANT OwnProfile
CHECK_DEADLOCK FALSE
