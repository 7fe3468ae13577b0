---------------------------- MODULE MC_Identity ----------------------------
EXTENDS Identity
=============================================================================
