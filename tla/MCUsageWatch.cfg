SPECIFICATION FairWatchSpec
CONSTANTS
    NumSubs = 2
    Guests = {g1}
    Limit = 1
    Nobody = nobody
    MaxMishaps = 1
INVARIANTS WatchTypeOK SaidOnce AlertsThrottled
PROPERTIES UsersAreWelcomed
