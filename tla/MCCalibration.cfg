CONSTANTS
    Huge = 255
    Extreme = 100
    MaxOvertakes = 2
    Setups <- MCSetups
SPECIFICATION CalSpec
INVARIANT FailuresNameTheDefect
INVARIANT ReportIsSequential
