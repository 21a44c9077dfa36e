-------------------------------- MODULE Lock --------------------------------
(***************************************************************************)
(* lock.PG and lock.Redis: holders that try one lock, do their work and    *)
(* release it, or die with it.                                             *)
(*                                                                         *)
(* The server keeps the lock: PostgreSQL for the session of a connection,  *)
(* Redis for the token of the holder and at most ttl ticks.  Both name the *)
(* holder.  A connection that fails, or whose statement is cut off, is     *)
(* closed by the driver and its session ends.                              *)
(***************************************************************************)
EXTENDS Naturals

CONSTANTS Holder,
          Ttl        \* the ttl of every TryLock, in ticks

\* A holder is named by its token or its session, never by the word for none.
ASSUME LockAssumption == Ttl \in Nat /\ "none" \notin Holder

VARIABLES backend,
          lock,      \* who the server says holds the lock, and for how long
          holders,   \* where each holder is
          conn,      \* holders with a connection checked out of the pool
          leased     \* ticks left of the ttl each holder was granted

lockVars == <<backend, lock, holders, conn, leased>>

Free == [by |-> "none", left |-> 0]
Held(h) == [by |-> h, left |-> Ttl]

LockInit ==
  /\ backend \in {"pg", "redis"}
  /\ lock = Free
  /\ holders = [h \in Holder |-> "idle"]
  /\ conn = {}
  /\ leased = [h \in Holder |-> 0]

HolderGoto(h, pc) == holders' = [holders EXCEPT ![h] = pc]

\* The session of h ends, or its connection goes back to the pool.
Disconnect(h) == conn' = conn \ {h}

-----------------------------------------------------------------------------
(* lock.PG *)

\* Connx, then pg_try_advisory_lock on that connection.
PGTryLock(h) ==
  /\ backend = "pg" /\ holders[h] = "idle"
  /\ IF lock = Free
     THEN lock' = Held(h) /\ HolderGoto(h, "holds") /\ conn' = conn \cup {h}
     ELSE HolderGoto(h, "refused") /\ UNCHANGED <<lock, conn>>
  /\ leased' = [leased EXCEPT ![h] = IF lock = Free THEN Ttl ELSE 0]
  /\ UNCHANGED backend

\* No connection, or a query that fails: the connection is closed.
PGTryLockFails(h) ==
  /\ backend = "pg" /\ holders[h] = "idle"
  /\ HolderGoto(h, "failed")
  /\ UNCHANGED <<backend, lock, conn, leased>>

\* The unlock is skipped: the pool gets a connection that still holds the lock.
PGReleaseLeaks(h) ==
  /\ backend = "pg" /\ holders[h] = "holds"
  /\ HolderGoto(h, "released")
  /\ Disconnect(h)
  /\ leased' = [leased EXCEPT ![h] = 0]
  /\ UNCHANGED <<backend, lock>>

\* pg_advisory_unlock on the connection that took the lock, under a context of
\* its own, then Close.  An unlock that fails ends the session, which frees it.
PGRelease(h) ==
  /\ backend = "pg" /\ holders[h] = "holds"
  /\ lock' = IF lock.by = h THEN Free ELSE lock
  /\ HolderGoto(h, "released")
  /\ Disconnect(h)
  /\ leased' = [leased EXCEPT ![h] = 0]
  /\ UNCHANGED backend

\* The connection of a holder dies under it: the server drops the lock, and the
\* holder does not learn of it.
ConnDies(h) ==
  /\ backend = "pg" /\ h \in conn
  /\ lock' = Free
  /\ Disconnect(h)
  /\ leased' = [leased EXCEPT ![h] = 0]
  /\ UNCHANGED <<backend, holders>>

-----------------------------------------------------------------------------
(* lock.Redis *)

\* SET key token NX PX ttl; its answer may be lost after the key was set.
RedisTryLock(h) ==
  /\ backend = "redis" /\ holders[h] = "idle"
  /\ \/ /\ lock = Free /\ lock' = Held(h)
        /\ \/ HolderGoto(h, "holds") /\ leased' = [leased EXCEPT ![h] = Ttl]
           \/ HolderGoto(h, "failed") /\ UNCHANGED leased
     \/ /\ lock # Free /\ UNCHANGED <<lock, leased>> /\ HolderGoto(h, "refused")
     \/ UNCHANGED <<lock, leased>> /\ HolderGoto(h, "failed")
  /\ UNCHANGED <<backend, conn>>

ReleaseScriptUnfenced(h) == Free

\* releaseScript deletes the key iff it still holds the token.
ReleaseScript(h) == IF lock.by = h THEN Free ELSE lock

RedisRelease(h) ==
  /\ backend = "redis" /\ holders[h] = "holds"
  /\ lock' = ReleaseScript(h) \/ UNCHANGED lock
  /\ HolderGoto(h, "released")
  /\ leased' = [leased EXCEPT ![h] = 0]
  /\ UNCHANGED <<backend, conn>>

-----------------------------------------------------------------------------
\* The process of a holder dies: PostgreSQL drops its session, Redis waits for
\* the ttl.
HolderCrash(h) ==
  /\ holders[h] = "holds"
  /\ HolderGoto(h, "crashed")
  /\ lock' = IF backend = "pg" /\ h \in conn THEN Free ELSE lock
  /\ Disconnect(h)
  /\ leased' = [leased EXCEPT ![h] = 0]
  /\ UNCHANGED backend

\* Redis expires the key; PG ignores the ttl.
LockTick ==
  /\ backend = "redis" /\ lock # Free
  /\ lock' = IF lock.left <= 1 THEN Free ELSE [lock EXCEPT !.left = @ - 1]
  /\ leased' = [h \in Holder |-> IF leased[h] > 0 THEN leased[h] - 1 ELSE 0]
  /\ UNCHANGED <<backend, holders, conn>>

LockNext ==
  \/ \E h \in Holder :
       \/ PGTryLock(h) \/ PGTryLockFails(h) \/ PGRelease(h) \/ ConnDies(h)
       \/ RedisTryLock(h) \/ RedisRelease(h) \/ HolderCrash(h)
  \/ LockTick

LockSpec == LockInit /\ [][LockNext]_lockVars
LockFairSpec == LockSpec /\ WF_lockVars(LockTick) /\ \A h \in Holder : WF_lockVars(PGRelease(h))

-----------------------------------------------------------------------------
\* Names of holders, ttls that are left and places in TryLock.
LockTypeOK ==
  /\ backend \in {"pg", "redis"}
  /\ lock \in [by : Holder \cup {"none"}, left : 0..Ttl]
  /\ holders \in [Holder -> {"idle", "holds", "refused", "failed", "released", "crashed"}]
  /\ conn \subseteq Holder
  /\ leased \in [Holder -> 0..Ttl]

\* Two holders inside their grant (the ttl, or the life of the connection) never
\* work at once: a release or an expiry of one never frees the lock of the
\* other (the fence of releaseScript, the dedicated connection of PG.TryLock).
GrantIsExclusive ==
  \A h \in Holder : holders[h] = "holds" /\ leased[h] > 0 => lock.by = h

\* A lock never leaks: whoever held it, released it, lost it or died, the lock
\* becomes free again (PG ignores ttl because of it; Redis needs ttl for it).
LockFrees == (lock # Free) ~> (lock = Free)

\* A grant excludes every other, crashes and lapsed ttls included.
LockSafety == LockTypeOK /\ GrantIsExclusive
=============================================================================
