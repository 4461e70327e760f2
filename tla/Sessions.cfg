SPECIFICATION SessionsSpec
CONSTANTS
  p1 = p1
  t1 = t1  t2 = t2  e1 = e1  g1 = g1  g2 = g2  b1 = b1  b2 = b2  c1 = c1  c2 = c2
  Req <- OneRequest
  MaxTokens = 4
  MaxChanges = 2
  UpstreamFails = TRUE
  Tenant <- TwoTenants
  Email <- OneEmail
  GoogleAccount <- TwoAccounts
  EmailOf <- SameAddress
  Browser <- TwoBrowsers
  Callback <- TwoCallbacks
  MaxFlows = 2
  MaxInvites = 1
  MaxUsers = 2
  MaxEvents = 1
INVARIANTS
  
  
  InviteAdmitsOne
  SessionIsThePinnedUser
  
SYMMETRY SignInSymmetry
CHECK_DEADLOCK FALSE
