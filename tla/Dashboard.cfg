\* Two facts, one of them possibly of a coordinator run, with the schedule
\* behind them; one deferral, kill, failure or lost notice.  The second fact
\* arrives at any point of the materialization of the first.
SPECIFICATION ScheduleSpec
CONSTANTS
    Runs = {r1}
    MaxFacts = 2
    MaxFaults = 1
INVARIANTS TypeOK CoreNeverAhead PublishedMeansShown
PROPERTIES EventuallyShown
