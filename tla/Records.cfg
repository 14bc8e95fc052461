\* Two suppliers in each of two categories, so that the sets to combine have two
\* digits that overflow; spares are needed by some jobs only; tasks of one and of three days.
CONSTANTS
    Days = 5
    Suppliers = {"s1", "s2", "s3", "s4"}
    SupplierType <- MCType
    Cost <- MCCost
    Reputation <- MCReputation
    Calendars <- MCCalendars
    Schedules <- MCSchedules
SPECIFICATION Spec
INVARIANTS
    OfferedDaysAreWorkable
    EarliestSharedDay
    SetsAreThePossibleTeams
\* The workflow ends.
CHECK_DEADLOCK FALSE
