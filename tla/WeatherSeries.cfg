SPECIFICATION Spec
CONSTANTS
    Deployments <- NarrowSeries
    Stations = {s1, s2}
    Reports <- Feed
    MaxTime = 2
    Retention = 1
    CacheTTL = 1
    Bundle = 1
    MaxVersion = 2
    Viewers = {v1}
    Asked = s1
    ListTTL = 2
    MaxWrites = 1
INVARIANTS
    SeriesWithinHours
