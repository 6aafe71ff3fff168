CONSTANT Scenes = {"regained", "ends", "beside", "logs"}
CONSTANTS c1 = c1 c2 = c2
SPECIFICATION FairSpec
INVARIANT LogsExact
PROPERTY PrimaryRegained
PROPERTY AsksEnd
