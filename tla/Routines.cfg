CONSTANTS
    None = None
    Runs = {r1, r2}
SPECIFICATION FairSpec
INVARIANTS TypeOK RunsAreTrue MisfireAsPromised
PROPERTIES NothingRunsTwice RoutinesSettle
CHECK_DEADLOCK FALSE
