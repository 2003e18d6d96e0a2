--------------------------- MODULE DataContextMgr ---------------------------
(***************************************************************************)
(* DataContextMgrBase and its SQL subclasses, called by several threads:   *)
(* the context is created on first use under a double-checked lock, a      *)
(* transaction is begun, committed and rolled back on it, and Dispose      *)
(* takes the context away from whoever still uses it.  Reads and writes of *)
(* shared fields are steps of their own, with two exceptions.  The lock is *)
(* released together with the last write it protects.  BeginTran reads     *)
(* _context up to three times before it has a transaction and once when it *)
(* has stored it, each time in one step: if Dispose comes between the      *)
(* three, the call ends as one of the outcomes of that step, null or       *)
(* failed, with nothing begun.                                             *)
(*                                                                         *)
(* Databases are external: creating, initialising, beginning and finishing *)
(* may fail, a connection has at most one open transaction, and closing it *)
(* rolls that one back.                                                    *)
(***************************************************************************)
CONSTANTS
  Threads,
  Contexts,    \* connections; a closed one may be used again
  Trans,       \* transactions; a finished one may be used again
  LinqToSql,   \* ending a transaction also clears _context.Transaction
  None

ASSUME DataContextMgrAssumption ==
  /\ None \notin Threads \cup Contexts \cup Trans
  /\ LinqToSql \in BOOLEAN

VARIABLES
  context,     \* _context
  tran,        \* _tran
  disposed,    \* _disposed
  lock,        \* the thread inside lock (_lockObj)
  \* the threads
  call,        \* the method being called
  pc,          \* where in it the thread is
  conn,        \* its local context: tmp of EnsureCreated, conn of Dispose
  hand,        \* its local transaction
  outcome,     \* how its last call ended
  \* the database
  open,        \* the connections that are open
  onConn,      \* onConn[t]: the connection transaction t is open on
  abandoned    \* contexts whose Dispose threw; history, read by no step

fields == <<context, tran, disposed, lock>>
locals == <<call, conn, hand>>
database == <<open, onConn, abandoned>>
vars == <<context, tran, disposed, lock, call, pc, conn, hand, outcome, open,
          onConn, abandoned>>

Calls == {"DbContext", "BeginTran", "CommitTran", "RollbackTran", "Dispose"}

Places == {"idle", "entered", "firstCheck", "wantLock", "secondCheck",
           "creating", "initializing", "ensured", "begun", "takeTran",
           "finishing", "disposing", "marking", "taking", "closing"}

\* A value, an ObjectDisposedException, a null (returned or dereferenced), or
\* an exception of the database.
Outcomes == {"done", "disposed", "null", "failed"}

TypeOK ==
  /\ context \in Contexts \cup {None}
  /\ tran \in Trans \cup {None}
  /\ disposed \in BOOLEAN
  /\ lock \in Threads \cup {None}
  /\ call \in [Threads -> Calls]
  /\ pc \in [Threads -> Places]
  /\ conn \in [Threads -> Contexts \cup {None}]
  /\ hand \in [Threads -> Trans \cup {None}]
  /\ outcome \in [Threads -> Outcomes]
  /\ open \in SUBSET Contexts
  /\ onConn \in [Trans -> Contexts \cup {None}]
  /\ abandoned \in SUBSET Contexts

Init ==
  /\ context = None
  /\ tran = None
  /\ disposed = FALSE
  /\ lock = None
  /\ call = [th \in Threads |-> "DbContext"]
  /\ pc = [th \in Threads |-> "idle"]
  /\ conn = [th \in Threads |-> None]
  /\ hand = [th \in Threads |-> None]
  /\ outcome = [th \in Threads |-> "done"]
  /\ open = {}
  /\ onConn = [t \in Trans |-> None]
  /\ abandoned = {}

At(th, place) == pc[th] = place

GoTo(th, place) ==
  /\ pc' = [pc EXCEPT ![th] = place]
  /\ UNCHANGED outcome

Return(th, how) ==
  /\ pc' = [pc EXCEPT ![th] = "idle"]
  /\ outcome' = [outcome EXCEPT ![th] = how]

-----------------------------------------------------------------------------

Start(th, op) ==
  /\ At(th, "idle")
  /\ call' = [call EXCEPT ![th] = op]
  /\ GoTo(th, CASE op \in {"DbContext", "BeginTran"} -> "entered"
                [] op \in {"CommitTran", "RollbackTran"} -> "takeTran"
                [] op = "Dispose" -> "disposing")
  /\ UNCHANGED <<fields, conn, hand, database>>

(* EnsureCreated, the first thing DbContext and BeginTran do.              *)

CheckDisposed(th) ==
  /\ At(th, "entered")
  /\ IF disposed THEN Return(th, "disposed") ELSE GoTo(th, "firstCheck")
  /\ UNCHANGED <<fields, locals, database>>

FirstCheck(th) ==
  /\ At(th, "firstCheck")
  /\ GoTo(th, IF context = None THEN "wantLock" ELSE "ensured")
  /\ UNCHANGED <<fields, locals, database>>

AcquireLock(th) ==
  /\ At(th, "wantLock")
  /\ lock = None
  /\ lock' = th
  /\ GoTo(th, "secondCheck")
  /\ UNCHANGED <<context, tran, disposed, locals, database>>

\* Slip: the context is not looked at again inside the lock.
SecondCheckSkipped(th) ==
  /\ At(th, "secondCheck")
  /\ GoTo(th, "creating")
  /\ UNCHANGED <<fields, locals, database>>

SecondCheck(th) ==
  /\ At(th, "secondCheck")
  /\ IF context = None
     THEN GoTo(th, "creating") /\ UNCHANGED lock
     ELSE GoTo(th, "ensured") /\ lock' = None
  /\ UNCHANGED <<context, tran, disposed, locals, database>>

\* Slip: a failed creation leaves tmp null and goes on.
CreateDbContextMaybeNull(th) ==
  /\ At(th, "creating")
  /\ \E c \in (Contexts \ open) \cup {None} :
       /\ open' = open \cup {c}
       /\ conn' = [conn EXCEPT ![th] = c]
  /\ GoTo(th, "initializing")
  /\ UNCHANGED <<fields, call, hand, onConn, abandoned>>

CreateDbContext(th) ==
  /\ At(th, "creating")
  /\ \E c \in Contexts \ open :
       /\ open' = open \cup {c}
       /\ conn' = [conn EXCEPT ![th] = c]
  /\ GoTo(th, "initializing")
  /\ UNCHANGED <<fields, call, hand, onConn, abandoned>>

\* Slip: the exception is logged, not thrown on.
CreationFailsQuietly(th) ==
  /\ At(th, "creating") \/ At(th, "initializing")
  /\ open' = open \ {conn[th]}
  /\ conn' = [conn EXCEPT ![th] = None]
  /\ lock' = None
  /\ GoTo(th, "ensured")
  /\ UNCHANGED <<context, tran, disposed, call, hand, onConn, abandoned>>

\* Slip: Monitor.Enter and Exit without finally.
CreationFailsLocked(th) ==
  /\ At(th, "creating") \/ At(th, "initializing")
  /\ open' = open \ {conn[th]}
  /\ conn' = [conn EXCEPT ![th] = None]
  /\ Return(th, "failed")
  /\ UNCHANGED <<fields, call, hand, onConn, abandoned>>

\* CreateDbContext or InitConnection throws: tmp is disposed.
CreationFails(th) ==
  /\ At(th, "creating") \/ At(th, "initializing")
  /\ open' = open \ {conn[th]}
  /\ conn' = [conn EXCEPT ![th] = None]
  /\ lock' = None
  /\ Return(th, "failed")
  /\ UNCHANGED <<context, tran, disposed, call, hand, onConn, abandoned>>

Publish(th) ==
  /\ At(th, "initializing")
  /\ context' = conn[th]
  /\ conn' = [conn EXCEPT ![th] = None]
  /\ lock' = None
  /\ GoTo(th, "ensured")
  /\ UNCHANGED <<tran, disposed, call, hand, database>>

-----------------------------------------------------------------------------
(* What follows EnsureCreated.                                             *)

ReadDbContext(th) ==
  /\ At(th, "ensured")
  /\ call[th] = "DbContext"
  /\ Return(th, IF context = None THEN "null" ELSE "done")
  /\ UNCHANGED <<fields, locals, database>>

\* A transaction object the program no longer refers to.
Unused(t) ==
  onConn[t] = None /\ tran # t /\ \A th \in Threads : hand[th] # t

BeginTransaction(th) ==
  /\ At(th, "ensured")
  /\ call[th] = "BeginTran"
  /\ \/ /\ context # None
        /\ \A t \in Trans : onConn[t] # context
        /\ \E t \in Trans :
             /\ Unused(t)
             /\ onConn' = [onConn EXCEPT ![t] = context]
             /\ hand' = [hand EXCEPT ![th] = t]
        /\ GoTo(th, "begun")
     \/ /\ Return(th, IF context = None THEN "null" ELSE "failed")
        /\ UNCHANGED <<onConn, hand>>
  /\ UNCHANGED <<fields, call, conn, open, abandoned>>

\* LINQ to SQL goes on to set _context.Transaction.
StoreTran(th) ==
  /\ At(th, "begun")
  /\ tran' = hand[th]
  /\ hand' = [hand EXCEPT ![th] = None]
  /\ Return(th, IF LinqToSql /\ context = None THEN "null" ELSE "done")
  /\ UNCHANGED <<context, disposed, lock, call, conn, database>>

-----------------------------------------------------------------------------
(* CommitTran, RollbackTran, and the RollbackTran inside Dispose.          *)

\* What a finished transaction leaves the thread to do.
TranEnded(th) ==
  IF call[th] = "Dispose" THEN GoTo(th, "closing") ELSE Return(th, "done")

\* An exception out of RollbackTran leaves Dispose before it disposes conn.
TranThrows(th, how) ==
  /\ Return(th, how)
  /\ conn' = [conn EXCEPT ![th] = None]
  /\ abandoned' = abandoned \cup ({conn[th]} \ {None})

\* Slip: _tran is read, not exchanged.
TakeTranKept(th) ==
  /\ At(th, "takeTran")
  /\ hand' = [hand EXCEPT ![th] = tran]
  /\ IF tran = None THEN TranEnded(th) ELSE GoTo(th, "finishing")
  /\ UNCHANGED <<fields, call, conn, database>>

TakeTran(th) ==
  /\ At(th, "takeTran")
  /\ hand' = [hand EXCEPT ![th] = tran]
  /\ tran' = None
  /\ IF tran = None THEN TranEnded(th) ELSE GoTo(th, "finishing")
  /\ UNCHANGED <<context, disposed, lock, call, conn, database>>

\* Commit or Rollback succeeds or throws; either way the using statement
\* leaves no open transaction behind.
FinishTran(th) ==
  /\ At(th, "finishing")
  /\ onConn' = [onConn EXCEPT ![hand[th]] = None]
  /\ hand' = [hand EXCEPT ![th] = None]
  /\ \/ ~(LinqToSql /\ context = None) /\ TranEnded(th)
        /\ UNCHANGED <<conn, abandoned>>
     \/ LinqToSql /\ context = None /\ TranThrows(th, "null")
     \/ TranThrows(th, "failed")
  /\ UNCHANGED <<fields, call, open>>

-----------------------------------------------------------------------------
(* Dispose.                                                                *)

EnterDispose(th) ==
  /\ At(th, "disposing")
  /\ IF disposed THEN Return(th, "done") ELSE GoTo(th, "marking")
  /\ UNCHANGED <<fields, locals, database>>

MarkDisposed(th) ==
  /\ At(th, "marking")
  /\ disposed' = TRUE
  /\ GoTo(th, "taking")
  /\ UNCHANGED <<context, tran, lock, locals, database>>

\* Slip: _context is read, not exchanged.
TakeContextKept(th) ==
  /\ At(th, "taking")
  /\ conn' = [conn EXCEPT ![th] = context]
  /\ IF context = None THEN Return(th, "done") ELSE GoTo(th, "takeTran")
  /\ UNCHANGED <<fields, call, hand, database>>

TakeContext(th) ==
  /\ At(th, "taking")
  /\ conn' = [conn EXCEPT ![th] = context]
  /\ context' = None
  /\ IF context = None THEN Return(th, "done") ELSE GoTo(th, "takeTran")
  /\ UNCHANGED <<tran, disposed, lock, call, hand, database>>

CloseContext(th) ==
  /\ At(th, "closing")
  /\ open' = open \ {conn[th]}
  /\ onConn' = [t \in Trans |-> IF onConn[t] = conn[th] THEN None ELSE onConn[t]]
  /\ conn' = [conn EXCEPT ![th] = None]
  /\ Return(th, "done")
  /\ UNCHANGED <<fields, call, hand, abandoned>>

-----------------------------------------------------------------------------

\* The steps of a call that has begun.
Goes(th) ==
  \/ CheckDisposed(th) \/ FirstCheck(th) \/ AcquireLock(th) \/ SecondCheck(th)
  \/ CreateDbContext(th) \/ CreationFails(th) \/ Publish(th)
  \/ ReadDbContext(th) \/ BeginTransaction(th) \/ StoreTran(th)
  \/ TakeTran(th) \/ FinishTran(th)
  \/ EnterDispose(th) \/ MarkDisposed(th) \/ TakeContext(th) \/ CloseContext(th)

Next == \E th \in Threads : Goes(th) \/ \E op \in Calls : Start(th, op)

Spec == Init /\ [][Next]_vars

\* The scheduler runs every thread, and the monitor behind lock() serves the
\* threads that wait for it.
Fairness ==
  \A th \in Threads : WF_vars(Goes(th)) /\ SF_vars(AcquireLock(th))

FairSpec == Spec /\ Fairness

-----------------------------------------------------------------------------
(* Properties.                                                             *)

\* An open connection is never forgotten: the manager publishes it, or a
\* thread is creating or disposing it, unless a Dispose threw half way.
ConnectionsAccounted ==
  \A c \in open :
    \/ context = c
    \/ \E th \in Threads : conn[th] = c
    \/ c \in abandoned

\* A context has one owner: what the manager publishes is open and in nobody's
\* hands, and no two threads create or dispose the same one.
OneOwner ==
  /\ context # None =>
       context \in open /\ \A th \in Threads : conn[th] # context
  /\ \A th1, th2 \in Threads :
       th1 # th2 /\ conn[th1] # None => conn[th1] # conn[th2]

\* A context is published only where there was none, so no thread's context is
\* replaced under it; it goes away only by Dispose.
NeverReplaced ==
  [][context # None => context' = context \/ (context' = None /\ disposed)]_vars

\* DbContext and BeginTran meet a null context only after Dispose was called.
NullOnlyAfterDispose ==
  \A th \in Threads : outcome[th] = "null" => disposed

\* Until Dispose, an open transaction is the manager's or in the hands of the
\* thread that begins or ends it, so that some CommitTran or RollbackTran can
\* end it; and no two threads end the same one.
TransactionsAccounted ==
  /\ ~disposed =>
       \A t \in Trans : onConn[t] # None =>
         tran = t \/ \E th \in Threads : hand[th] = t
  /\ \A th1, th2 \in Threads :
       th1 # th2 /\ At(th1, "finishing") /\ At(th2, "finishing") =>
         hand[th1] # hand[th2]

\* Every call returns: no lock is left behind by an exception.
CallsReturn == \A th \in Threads : ~At(th, "idle") ~> At(th, "idle")

=============================================================================
