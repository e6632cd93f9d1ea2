-------------------------- MODULE MCEvictCallbacks --------------------------
\* EvictCallbacks for TLC, which takes its constants from the configurations.
EXTENDS EvictCallbacks

=============================================================================
