SPECIFICATION StartedSpec
CONSTANTS
  Ports = {49152, 49154, 49155}
  Preferred <- PreferredPorts
  Sources = 3
  NoKey = NoKey
  BoardToken <- Boards
  ConsumerPrefix <- Consumers
  OicType <- OicTypes
  Letters <- TwoLetters
  Units = {"ac", "washer"}
  Addrs = {1, 2}
  Nowhere = Nowhere
  Views = {v1, v2}
  Link <- Links
  Batch <- Batches
  OicReply <- OicReplies
  MaxScans = 2
  MaxMoves = 1
  MaxDevices = 2
SYMMETRY ViewSymmetry
INVARIANTS
  TypeOK NoTwins RespondersAreAccountedFor  FindsWhatIsThere RunningIsSomebodysTask
