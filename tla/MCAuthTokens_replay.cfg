SPECIFICATION Spec
CONSTANTS
  h1 = h1
  h2 = h2
  Roles <- MCRoles
  Actions <- MCActions
  Grants <- MCGrants
  Handlers <- MCHandlers
  Requests = {r1}
  AccessLife = 1
  RefreshLife = 2
  MaxTokens = 3
  MaxTime = 2
  None = None
SYMMETRY Symmetry
INVARIANTS TypeOK OneLivePerFamily ReplayEndsFamily StaleRoleBounded PermittedByRole
CHECK_DEADLOCK FALSE
