SPECIFICATION MCSpec
CONSTANTS
    Sessions = {1, 3, 4, 5}
    FirstCalendar = {1}
    Priceable <- SomePrices
    Horizons <- SomeHorizons
    Sweep <- SomeSweep
    Batches <- SomeBatches
    Values = {v1, v2}
    Reporters = {r1, r2}
    Evaluators = {e1, e2}
    None = None
    MaxRestatements = 1
    MaxCrashes = 2
PROPERTIES
    FirstPredictionStands
    OutcomeSessionsAreFinal
    OutcomesCatchUp
