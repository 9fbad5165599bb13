SPECIFICATION MCSpec
CONSTANTS
    Pod = {p}
    Scrape = {s, t}
    Request = {r}
    Agg = {"avg", "max"}
    None = None
    MaxSamples = 2
    MaxAge = 1
    EvictEvery = 1
    Ttl = 1
    Interval = 1
    MaxJobs = 1
    MaxChanges = 2
INVARIANTS TypeOK SilentPodsDropOut AnswersFollowSpec RateIsTrue AggregatesAreRight
SYMMETRY Scrapes
