\* Calls between the two telephones of one tester.  The users may stop at any time.
CONSTANTS
  Hosts = {"tester"}
  Phones = {"123", "456"}
  HostOf <- OneHost
  Dials <- Call456
  Flashers = {"123"}
  SessFdsMax = 4
  ActionResults = {TRUE}
  MaxCalls = 2
  MaxActs <- Acts32
SPECIFICATION FairSpec
PROPERTIES
  GivingUpEndsRinging
  CallIsAnswered
CHECK_DEADLOCK FALSE
