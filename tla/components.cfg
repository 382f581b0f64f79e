SPECIFICATION Spec
CONSTANTS
 NoShard = NoShard
 NoTenant = NoTenant
 Unparsable = Unparsable
 NoSample = NoSample
 NoSocket = NoSocket
 Shard <- MCShards
 VirtualNodes = 2
 VHash <- MCHashes
 Key <- MCKeys
 KHash <- MCKeyHashes
 Producer <- MCProducers
 Drainer <- MCDrainers
 MaxQueueDepth = 8
 MinRate = 1
 MaxRate = 3
 RampUpStep = 1
 RampDownFactor = 2
 Caller <- MCCallers
 Limit = 1
 Window = 5
 Second = 4
 CallDelay = 1
 LimiterEnd = 9
 MaxEvents = 2
 Kind <- MCKinds
 Token <- MCTokens
 Request <- MCRequests
 DefaultLimit = 1
 MaxLimit = 2
 TTL = 0
 MaxRows = 2
 ApiEnd = 2
 Node <- MCNodes
 Sample <- MCSamples
 Flows <- MCFlows
 Capacity = 10
 MaxListed = 2
 Manager <- MCManagers
 LongestDelay = 3
 SocketID <- MCSockets
 CPU <- MCCPUs
 Boot = 1
 CpuEnd = 4
INVARIANTS
 MomentsBounded
 OwnerIsSuccessor
 QueueBounded
 
 StragglersAreWorst
 DetectorsAgree
 TimeAccounted
 OneConnectionEach
PROPERTIES
 KeysMoveMinimally
 PressureReleased
 CancelEndsRun
 StaysConnected
CHECK_DEADLOCK FALSE
