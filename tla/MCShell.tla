------------------------------- MODULE MCShell -------------------------------
\* The instance TLC checks Shell on.
EXTENDS Shell

=============================================================================
