SPECIFICATION Spec
CONSTANTS
    lite = lite
    trial = trial
    SALE = SALE
    GIFT = GIFT
    Users = {u1, u2}
    Referrers = {host}
    Purchases = {p1, p2}
    Plans = {lite, trial}
    Tariff <- MCTariff
    Codes = {SALE, GIFT}
    Promo <- MCPromo
    WheelCode = SALE
    NoUser = nobody
    NoPlan = noplan
    NoCode = nocode
    Prices = {60}
    MinPaymentStars = 50
    MaxPerDay = 1
    Doors = {"bot", "web"}
    MaxCharges = 2
    MaxEvents = 1
    MaxFaults = 1
SYMMETRY Symmetric
INVARIANTS TypeOK ReservationsWithinLimit HadOnce UseMeansGrant BonusIsEarned NewFriendsCapped
CHECK_DEADLOCK FALSE
