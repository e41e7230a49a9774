SPECIFICATION Spec
CONSTANTS
  sofia = sofia
  anna = anna
  u1 = u1
  u2 = u2
  mailS = mailS
  mailA = mailA
  mailN = mailN
  mailM = mailM
  old = old
  new = new
  budget = budget
  district = district
  wide = wide
  None = None
  UserIds = {sofia, anna, u1, u2}
  Emails = {mailS, mailA, mailN, mailM}
  Secrets = {old, new}
  Keys = {budget, district}
  Values = {wide}
  Seeds <- MCSeeds
  Calls = {c1, c2, c3, c4, c5}
  Requests <- MCRequests
SYMMETRY Symmetry
INVARIANTS
  EmailsIdentifyAccounts
  AuthorityIsGranted
  AsIfOneStep
CHECK_DEADLOCK FALSE
