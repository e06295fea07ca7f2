\* Every pair of departures from the repository's file, one flag, one
\* variable of the environment, every shape of the Clowder settings.
CONSTANT MaxChanges = 2
SPECIFICATION Spec
INVARIANTS FirstLayerWins StartsSound
\* A process ends, or goes over to the consumer.
CHECK_DEADLOCK FALSE
