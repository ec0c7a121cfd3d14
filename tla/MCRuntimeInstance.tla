--------------------------- MODULE MCRuntimeInstance ---------------------------
EXTENDS RuntimeInstance
================================================================================
