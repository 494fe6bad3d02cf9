--------------------------- MODULE MCTimerService ---------------------------
EXTENDS TimerService

\* A period below the resolution, two ordinary ones and one beyond an int.
SomePeriods == {0, 2, 3, IntMax + 1}
=============================================================================
