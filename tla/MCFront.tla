------------------------------ MODULE MCFront -------------------------------
EXTENDS Front
=============================================================================
