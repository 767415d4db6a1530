SPECIFICATION FlowSpec
CONSTANTS
    n1 = n1
    n2 = n2
    Names <- MCNames
    Address = address
    Nothing = nothing
    None = none
    MaxEdits = 3
    MaxSheets = 2
    MaxPolls = 4
    MaxForks = 2
INVARIANTS
    PreviewIsOfField
    SpinnerIsOwedAnAnswer
    SendsWhatItShows
    OncePerChange
    EmittedWasTrue
PROPERTY WatchEnds
CHECK_DEADLOCK FALSE
