-------------------------- MODULE MCPublicProfile --------------------------
EXTENDS PublicProfile
=============================================================================
