\* The parts of hiredis that async.c and the pools rest on.  Three keys make a
\* table of two buckets grow, and three descriptors let another part of the
\* program take a number that redisReconnect closed.  Two threads with two calls of
\* two tries each meet on a shared Memcached client.
SPECIFICATION Spec
SYMMETRY Symmetry
CONSTANTS
  MaxFd = 3
  MaxAddrs = 2
  Retries = 2
  MaxRedials = 1
  Key = {k1, k2, k3}
  Val = {0, 1}
  MaxHash = 4
  InitialSize = 2
  Kinds = {"libevent", "libev", "ae", "libuv", "ivykis", "glib", "macosx", "qt"}
  MaxCmds = 3
  Chars = {1, 2}
  MaxLen = 3
  MaxArg = 2
  MaxPrealloc = 3
  Null = Null
  Threads = {t1, t2}
  Keys = {a1, a2}
  NumClients = 2
  MaxRetry = 2
  MaxCalls = 2
INVARIANTS
  SocketsOwned
  
  DataSound
  OwnValues

  
\* A context that is freed, and a program that a fault ended, stop.
CHECK_DEADLOCK FALSE
