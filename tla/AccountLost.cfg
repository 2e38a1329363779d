SPECIFICATION Spec
CONSTANTS
  c1 = c1
  c2 = c2
  anAccount = anAccount
  anotherAccount = anotherAccount
  None = None
  Connection = {c1, c2}
  Account = {anAccount, anotherAccount}
  AccountOf <- KeysOfTheirOwn
  Casts <- ConversationCasts
  MaxChallenges = 1
  MaxRegistrations = 1
  MaxMessages = 3
  OtherTypes <- MCOtherTypes
INVARIANT WorkCreditedToProvedAccount
CHECK_DEADLOCK FALSE
