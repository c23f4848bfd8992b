SPECIFICATION Spec
CONSTANTS
  Deployments <- MCDeployments
  Clients = {c1}
  Changes = 0
  MaxCalls = 2
  None = None
INVARIANT SavedModeIsUsed
\* clients may stop sending requests
CHECK_DEADLOCK FALSE
