SPECIFICATION MCSpec
CONSTANTS
  BatchSize = 2
  Modes = {"filtered", "storable"}
  MaxEvents = 3
  MaxConnects = 2
  Faults = TRUE
  AskedModes = {{"values"}, {"values", "messages"}, {"updates"},
                {"values", "updates", "custom"}, {"messages", "custom"}}
  MaxFrames = 3
  A2ATasks = {t1}
  Messages <- ThreeMessages
  MaxChunks = 2
  MaxRounds = 1
CHECK_DEADLOCK FALSE
INVARIANTS StoreInv SteadyClientSeesAll FramesInv A2AInv MessageSurvives
PROPERTY StreamsEnd
