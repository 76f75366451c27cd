--------------------------- MODULE MCIntakePoller ---------------------------
EXTENDS IntakePoller
=============================================================================
