------------------------------- MODULE MCSetup -------------------------------
EXTENDS Setup
===============================================================================
