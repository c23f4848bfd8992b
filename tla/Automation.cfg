SPECIFICATION Spec
CONSTANTS
  Accounts = {a1, a2}  Groups = {g1, g2}  AGroups = {g1}
  Prefix = p060  Letter = letterA  Nothing = nothing  LookupTries = 2
  f1 = f1  f2 = f2  Others = {f1, f2}  Primary = primary  Required <- MCRequired
  Layouts <- MCLayouts  Similar <- MCSimilar  Values = {v1}  Offices = {o1}
  Any = any  Empty = empty  Rounds = 2
  Items = 1  MaxTabs = 3
  u1 = u1  u2 = u2  Users = {u1, u2}  Alike <- MCAlike  Admin = admin  Nobody = nobody  Attempts = 2
  LookupPolls = 1  PagePolls = 1  LoginPolls = 3
  LookupSteps = 2  FillSteps = 1  PageSteps = 2  LoginSteps = 2
  Retries = 1
INVARIANT OneRequest
INVARIANT PinnedHasRequest
PROPERTY LoadPicksWhatItAsked
PROPERTY StayPinned
PROPERTY ReachesUser
PROPERTY EveryStepEnds
\* the steps are over
CHECK_DEADLOCK FALSE
