---------------------------- MODULE MCUploadSessions ----------------------------
EXTENDS UploadSessions
===============================================================================
