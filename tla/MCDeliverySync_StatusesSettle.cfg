\* Shows that StatusesSettle does not hold.
SPECIFICATION FairSpec
CONSTANTS
    Order = {o1}
    Worker = {w1, w2}
    Journeys <- MCJourneys
    BrokerOutage = FALSE
    MaxQueued = 1
PROPERTIES StatusesSettle
