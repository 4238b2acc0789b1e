SPECIFICATION Spec
CONSTANTS
    p1 = p1  p2 = p2  r1 = r1  r2 = r2  e1 = e1  e2 = e2  w1 = w1
    u1 = u1  u2 = u2  u3 = u3  u4 = u4  u5 = u5 u6 = u6
    k1 = k1  k2 = k2  k3 = k3  k4 = k4  t1 = t1  t2 = t2  t3 = t3  t4 = t4
    a30 = a30  a31 = a31  a1 = a1  a2 = a2
    NULL = NULL
    ApprovedId = {a30, a31}
    UserId = {u1, u2, u3, u4}
    RoleId = {k1, k2}
    TodoId = {t1, t2}
    Email <- OneEmail
    Password <- OnePassword
    Title <- SampleTitle
    Description = {"sample"}
    DueDate = {}
    AdminApproved = a30
    UserApproved = a31
    Request = {p1, p2}
    Replica = {r1}
    Home <- OneServer
    Ops = {"RegisterUser", "LoginUser"}
    Bulks <- NoBulks
    BodyErr = {0}
    JwtExpiry = 1
    ServeFrom = 2
    MaxTime = 0
    MaxFaults = 0
    MaxRestarts = 0
    ResetEmails = {}
    MaxInactive = 1
    MaxRollbacks = 0
INVARIANTS PreApprovedEmail
SYMMETRY Connections
