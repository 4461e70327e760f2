SPECIFICATION ConsoleSpec
CONSTANTS
  t1 = t1  t2 = t2  p1 = p1  p2 = p2  p3 = p3  v1 = v1  v2 = v2
  n1 = n1  n2 = n2  e1 = e1  e2 = e2  x1 = x1  x2 = x2  u1 = u1  r1 = r1  q1 = q1  s1 = s1
  Tab <- TwoTabs
  MaxCalls = 2
  Dash = dash
  PanelId <- ThreePanels
  PanelValue <- NewValue
  Name <- NewName
  Email <- TwoEmails
  Setting <- TwoSettings
  NewSetting = x1
  Days = {1, 2, 3}
  inviteMaxOutstandingPerTenant = 1
  RuleName <- TwoNames
  Cond <- NewValue
  Query <- OneQuery
  SavedQuery <- OneSaved
  Screens <- AlertsScreen
  Policy = policy
INVARIANT
  OneQuerySource
