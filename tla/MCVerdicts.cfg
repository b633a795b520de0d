SPECIFICATION Spec
CONSTANTS
  Iocs <- MCIocs
  Zone <- MCZone
  MailDomain <- MCMailDomain
  Domains <- MCDomains
  SweepInterval = 2
  MaxTime = 3
  RegistryTtl = 1
  RegistryMax = 1
  KbTtl = 1
  KbMax = 1
  MaxWrites = 3
CHECK_DEADLOCK FALSE
PROPERTIES
  VerdictsHonoured
  AnswersFounded
  NothingRevived
