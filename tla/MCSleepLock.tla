----------------------------- MODULE MCSleepLock -----------------------------
EXTENDS SleepLock
==============================================================================
