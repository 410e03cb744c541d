\* With and without automatic connection; timeouts at any time.
SPECIFICATION Spec
CONSTANTS
    MaxAnswers = 3
INVARIANTS
    TypeOK
    TimeGiven
PROPERTIES
    TimeInsideCommand
