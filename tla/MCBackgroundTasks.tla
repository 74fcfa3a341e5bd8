------------------------- MODULE MCBackgroundTasks -------------------------
EXTENDS BackgroundTasks
=============================================================================
