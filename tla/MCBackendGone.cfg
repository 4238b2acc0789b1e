SPECIFICATION BackendSpec
CONSTANTS
    p1 = p1  p2 = p2  r1 = r1  e1 = e1  u1 = u1  u2 = u2  u3 = u3
    k1 = k1  k2 = k2  t1 = t1  t2 = t2  t3 = t3  a30 = a30  a31 = a31  d1 = d1  w1 = w1
    NULL = NULL
    ApprovedId = {a30, a31}
    UserId = {u1, u2}
    RoleId = {k1, k2}
    TodoId = {t1, t2}
    Email <- SeedEmails
    Password <- OnePassword
    Title <- SampleTitle
    Description <- Descriptions
    DueDate = {d1}
    AdminApproved = a30
    UserApproved = a31
    Request = {p1, p2}
    Replica = {r1}
    Home <- OneServer
    Ops = {"LoginUser", "UpdateTodo", "DeleteTodo"}
    Bulks <- NoBulks
    NewTodos <- OneTodo
    Patches <- TwoPatches
    BodyErr = {0}
    JwtExpiry = 1
    ServeFrom = 6
    MaxTime = 0
    MaxFaults = 0
    MaxRestarts = 0
    ResetEmails <- SeedEmails
    MaxInactive = 0
    MaxRollbacks = 0
PROPERTIES GoneTodoIs404
SYMMETRY Connections
