-------------------------- MODULE MCWeatherStations --------------------------
EXTENDS WeatherStations

\* One station reports every hour, the other one repeats itself and then has no date.
Feed == [s \in Stations |-> [t \in Times |-> IF s = Asked THEN IF t = 0 THEN 0 ELSE 1
                                             ELSE IF t < 2 THEN 0 ELSE NoDate]]

Calm == [e \in Events |-> 0]

Deployment(call, cache, fallback, animation, series, perHour, hours, events) ==
    [configured |-> TRUE, cache |-> cache, fallback |-> fallback, animation |-> animation,
     series |-> series, perHour |-> perHour, call |-> call, hour |-> 0, hours |-> hours,
     registry |-> "up", bounds |-> events]

\* SMN's registry is out of reach, and nothing is stored in its place.
NoRegistry(deployment) == [deployment EXCEPT !.registry = "down"]

AllDeployments ==
    {Deployment("latest", TRUE, FALSE, 0, 0, 2, 1, [Calm EXCEPT !.smn = 1, !.later = 1]),
     Deployment("latest", TRUE, FALSE, 0, 0, 2, 1, [Calm EXCEPT !.s3 = 1, !.later = 1]),
     Deployment("latest", FALSE, FALSE, 0, 0, 2, 1, [Calm EXCEPT !.token = 2, !.smn = 1, !.later = 1]),
     Deployment("stations", TRUE, FALSE, 0, 0, 2, 1, [Calm EXCEPT !.s3 = 1, !.edit = 1]),
     Deployment("stations", TRUE, FALSE, 0, 0, 2, 1, [Calm EXCEPT !.sweep = 1, !.restart = 1]),
     [Deployment("stations", TRUE, TRUE, 0, 0, 2, 1, [Calm EXCEPT !.edit = 1, !.smn = 1,
                                                                  !.restart = 1])
        EXCEPT !.registry = "down"],
     Deployment("tilesets", TRUE, FALSE, 0, 0, 2, 1, [Calm EXCEPT !.later = 1]),
     Deployment("tilesets", TRUE, FALSE, 0, 0, 2, 1, [Calm EXCEPT !.redis = 1]),
     Deployment("tilesets", TRUE, FALSE, 0, 0, 2, 1, [Calm EXCEPT !.s3 = 1]),
     Deployment("tilesets", FALSE, FALSE, 0, 0, 2, 1, [Calm EXCEPT !.later = 2]),
     Deployment("snapshot", TRUE, FALSE, 1, 0, 2, 1, [Calm EXCEPT !.later = 1]),
     Deployment("snapshot", TRUE, FALSE, 1, 0, 2, 1, [Calm EXCEPT !.s3 = 1]),
     NoRegistry(Deployment("series", TRUE, FALSE, 0, 2, 1, 2, [Calm EXCEPT !.later = 1])),
     NoRegistry(Deployment("series", TRUE, FALSE, 0, 0, 1, 2, [Calm EXCEPT !.s3 = 1])),
     NoRegistry(Deployment("series", TRUE, FALSE, 1, 1, 1, 1, [Calm EXCEPT !.redis = 1])),
     NoRegistry(Deployment("series", FALSE, FALSE, 0, 2, 1, 2, [Calm EXCEPT !.later = 2])),
     [Deployment("latest", FALSE, FALSE, 0, 0, 2, 1, Calm) EXCEPT !.configured = FALSE]}

\* The history is asked for in a narrower window than the scraper's.
NarrowSeries == {Deployment("series", TRUE, FALSE, 0, 2, 1, 1, [Calm EXCEPT !.later = 1])}
=============================================================================
