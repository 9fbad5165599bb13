SPECIFICATION Spec
CONSTANTS
    Absent = Absent
    Empty = Empty
    NotANumber = NotANumber
    NoValues = NoValues
    Name <- Names
    Manifest <- Manifests
    Selector <- PodSelectors
    MetricSelector <- MetricSelectors
    Labels <- LabelSets
    MaxU64 = 4000
    MaxInstant = 2000
    MaxEdits = 3
INVARIANTS  ResubmittedUnchanged ScrapesWhatItScales WindowSpansPeriod SelectsTheSame
CHECK_DEADLOCK FALSE
