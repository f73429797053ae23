------------------------------ MODULE MCSocial ------------------------------
EXTENDS Social, TLC
============================================================================
