----------------------------- MODULE MCResearch -----------------------------
EXTENDS Research

MCSizes == 12..36
=============================================================================
