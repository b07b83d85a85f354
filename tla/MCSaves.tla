------------------------------ MODULE MCSaves ------------------------------
\* Saves with memories of two cells; a new one differs from a zeroed one.
EXTENDS Saves

MCFactory == <<1, 0>>
MCZero    == <<0, 0>>
=============================================================================
