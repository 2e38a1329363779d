SPECIFICATION FairSpec
CONSTANTS
  c1 = c1
  c2 = c2
  anAccount = anAccount
  anotherAccount = anotherAccount
  None = None
  Connection = {c1, c2}
  Account = {anAccount, anotherAccount}
  AccountOf <- KeysOfTheirOwn
  Casts <- MCCasts
  MaxChallenges = 2
  MaxRegistrations = 2
  MaxMessages = 3
  OtherTypes <- MCOtherTypes
INVARIANTS ChallengeTakenOnce AccountIsProved NothingKeptAfterClose RegistersAfterConversation
CHECK_DEADLOCK FALSE
PROPERTIES EveryClientRegisters SessionsComeBack
