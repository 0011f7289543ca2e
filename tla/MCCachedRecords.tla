----------------------------- MODULE MCCachedRecords -----------------------------
EXTENDS CachedRecords
===============================================================================
