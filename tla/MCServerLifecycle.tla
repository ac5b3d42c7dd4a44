-------------------------- MODULE MCServerLifecycle --------------------------
\* Instances of ServerLifecycle for TLC; the edits and bounds are in the .cfg
\* files.
EXTENDS ServerLifecycle
=============================================================================
