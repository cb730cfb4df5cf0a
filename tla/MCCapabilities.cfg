SPECIFICATION FairSpec
CONSTANTS
  None = None
  Refused = Refused
  Live = Live
  Specs <- Registered
  Exists <- AcExists
  Reads <- AcReads
  Entry <- AcEntry
  Payload <- AcPayload
  Meets <- AcMeets
  Dumps <- Surfaces
  Steps <- Changes
  Unit <- ThisUnit
  Subs <- Dotted
  Asked <- Wishes
  Readers = {poll, card}
  Poll = poll
  Tasks = {task}
  MaxEvents = 2
INVARIANTS
  TypeOK  AskedIsDone
PROPERTIES
  NothingForgotten  FollowsTheSurface 
