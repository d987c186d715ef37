\* Requests of every kind, while roles, groups and sessions change.
SPECIFICATION Spec
CONSTANTS
  N8NWorkflows = {w1, w2}
  BadIds = {bad}
  Executions = {e1}
  Segments <- SomeSegments
  WorkflowOf <- OfOneWorkflow
  Teams = {t1, t2, t3}
  Nodes = {shell}
  Dangerous = {shell}
  AnyWorkflow = AnyWorkflow
  NoId = NoId
  NoTeam = NoTeam
  Users = {u1}
  Handlers = {h1}
  Arrivals <- SomeRequests
  Grantable <- SomeRoles
  GroupLists <- MixedGroups
  Accounts = {t1, t2}
  NoUser = NoUser
  NoRequest = NoRequest
  NoLogin = NoLogin
  MaxLogins = 2
INVARIANTS
  TypeOK
  SentUnderALogin
  RefusedForALogin
  SavesAreClean
