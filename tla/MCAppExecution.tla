---------------------------- MODULE MCAppExecution ----------------------------
EXTENDS AppExecution
================================================================================
