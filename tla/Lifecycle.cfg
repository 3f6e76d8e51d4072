SPECIFICATION FairSpec
CONSTANTS
  Systems <- MCSystems
  MaxCrashes = 2
INVARIANTS
  UpstreamIsSilent
  RunHasItsHandles
PROPERTIES
  PublishedOnAStream
  FoundMailSurvives
  MailIsRead
  ShutdownFollowsCalls
