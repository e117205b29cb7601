SPECIFICATION Spec
CONSTANTS
    FirstYear = 2011
    LastYear = 2012
INVARIANTS
    LocalWithinMonth
    DisplayRight
