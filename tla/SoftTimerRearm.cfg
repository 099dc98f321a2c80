\* As SoftTimer, with NULL behind the list; callbacks set the next timer with
\* timer_create.
SPECIFICATION SpecRearm
CONSTANTS
    Tasks = 2
    Names = 3
    MAX_TIMER = 2
    Timeouts = {1, 3}
    TickSpan = 4
    Beyond = {0}
PROPERTY
    CalledOnce
