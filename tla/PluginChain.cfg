SPECIFICATION ChainSpec
CONSTANTS
  Order <- ThreePlugins
  Listens <- SomeListeners
  Events = {"onBroadcast"}
  Command = "onBroadcast"
  Inner = {"onAudit"}
  MaxDepth = 2
  MaxReloads = 1
  Nothing = Nothing
INVARIANTS ChainDecides ReloadEndsWalk OwnedByLoaded
CHECK_DEADLOCK FALSE
