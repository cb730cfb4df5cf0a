SPECIFICATION Spec
CONSTANTS
  None = None
  Refused = Refused
  Live = Live
  Specs <- Registered
  Exists <- AcExists
  Reads <- AcReads
  Entry <- AcEntry
  Payload <- AcPayload
  Meets <- AcMeets
  Dumps <- RaisedSurfaces
  Steps <- Changes
  Unit <- ThisUnit
  Subs <- Dotted
  Asked <- Wishes
  Readers = {poll}
  Poll = poll
  Tasks = {task}
  MaxEvents = 1
INVARIANT
  AlarmsAreCurrent
