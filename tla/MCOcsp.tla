------------------------------- MODULE MCOcsp -------------------------------
EXTENDS Ocsp
=============================================================================
