SPECIFICATION FairSpec
CONSTANTS
    ann = ann
    bob = bob
    london = london
    tokyo = tokyo
    Customers <- MCCustomers
    Cities <- MCCities
    MaxTime = 3
    HighValue = {1, 4}
    VelocityWindow = 1
    VelocityMax = 1
    TravelTime <- MCTravelTime
    Ids <- MCIds
    CustomerOf <- MCCustomerOf
    Malformed = {3}
    Event <- MCEvent
    ShardCount = 2
    ShardOf <- MCShardOf
    MaxCopies = 1
INVARIANTS
    BaselineIsNewest
    AlertsExact
    CheckpointCovers
    AlertsHandedOver
PROPERTIES
    FeedSpec
