--------------------------- MODULE MCReservations ---------------------------
EXTENDS Reservations

CONSTANTS p1, p2, p3
=============================================================================
