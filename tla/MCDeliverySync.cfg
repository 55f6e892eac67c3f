\* Two overlapping syncs of one parcel, fairly scheduled.
SPECIFICATION MailFairSpec
CONSTANTS
    Order = {o1}
    Worker = {w1, w2}
    Journeys <- MCJourneys
    BrokerOutage = TRUE
    MaxQueued = 1
INVARIANTS TypeOK NothingInvented LogHasNoHoles
PROPERTIES DeliveryRecorded BuyerTold RefinesQueue
