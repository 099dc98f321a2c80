\* Two tasks, three timers, two slots: the list fills up, slots are reused and
\* handles outlive their timers, timers expire at one tick. _tick wraps at 4, a
\* timeout of 3 is the longest there is. The word behind the list is NULL or not.
SPECIFICATION FairSpec
CONSTANTS
    Tasks = 2
    Names = 3
    MAX_TIMER = 2
    TickSpan = 4
    Timeouts = {1, 3}
    Beyond <- UsedOrNull
INVARIANTS
    TypeOK
    LiveTimersIntact
    FiresOnce
    LateByOthersOnly
PROPERTIES
    FiresWhenDue
    DeletesItsOwn
    EveryTimerEnds
