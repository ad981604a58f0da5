----------------------------- MODULE MCSessions -----------------------------
EXTENDS Sessions

EveryTrouble == {"overlap", "connect", "track", "save", "redis", "telegram", "db", "crash"}
=============================================================================
