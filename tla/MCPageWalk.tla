------------------------------- MODULE MCPageWalk -------------------------------
EXTENDS PageWalk
===============================================================================
