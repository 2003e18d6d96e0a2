----------------------- MODULE DataContextMgr_proofs -----------------------
(***************************************************************************)
(* Proofs about DataContextMgr, for every number of threads, connections   *)
(* and transactions, with and without LINQ to SQL.                         *)
(***************************************************************************)
EXTENDS DataContextMgr, TLAPS

USE DEF fields, locals, database, At, GoTo, Return

-----------------------------------------------------------------------------
(* The type invariant.                                                     *)

LEMMA InitType == Init => TypeOK
<1> SUFFICES ASSUME Init PROVE TypeOK
  OBVIOUS
<1>1. "DbContext" \in Calls /\ "idle" \in Places /\ "done" \in Outcomes
  BY DEF Calls, Places, Outcomes
<1>2. call \in [Threads -> Calls]
  BY <1>1 DEF Init
<1>3. pc \in [Threads -> Places] /\ outcome \in [Threads -> Outcomes]
  BY <1>1 DEF Init
<1>4. /\ conn \in [Threads -> Contexts \cup {None}]
      /\ hand \in [Threads -> Trans \cup {None}]
      /\ onConn \in [Trans -> Contexts \cup {None}]
  BY DEF Init
<1> QED BY <1>2, <1>3, <1>4 DEF Init, TypeOK

LEMMA NextType == TypeOK /\ [Next]_vars => TypeOK'
<1> SUFFICES ASSUME TypeOK, [Next]_vars PROVE TypeOK'
  OBVIOUS
<1> USE DEF TypeOK, Calls, Places, Outcomes
<1>1. ASSUME NEW th \in Threads, NEW op \in Calls, Start(th, op) PROVE TypeOK'
  BY <1>1 DEF Start
<1>2. ASSUME NEW th \in Threads, CheckDisposed(th) PROVE TypeOK'
  BY <1>2 DEF CheckDisposed
<1>3. ASSUME NEW th \in Threads, FirstCheck(th) PROVE TypeOK'
  BY <1>3 DEF FirstCheck
<1>4. ASSUME NEW th \in Threads, AcquireLock(th) PROVE TypeOK'
  BY <1>4 DEF AcquireLock
<1>5. ASSUME NEW th \in Threads, SecondCheck(th) PROVE TypeOK'
  BY <1>5 DEF SecondCheck
<1>6. ASSUME NEW th \in Threads, CreateDbContext(th) PROVE TypeOK'
  BY <1>6 DEF CreateDbContext
<1>7. ASSUME NEW th \in Threads, CreationFails(th) PROVE TypeOK'
  BY <1>7 DEF CreationFails
<1>8. ASSUME NEW th \in Threads, Publish(th) PROVE TypeOK'
  BY <1>8 DEF Publish
<1>9. ASSUME NEW th \in Threads, ReadDbContext(th) PROVE TypeOK'
  BY <1>9 DEF ReadDbContext
<1>10. ASSUME NEW th \in Threads, BeginTransaction(th) PROVE TypeOK'
  BY <1>10 DEF BeginTransaction
<1>11. ASSUME NEW th \in Threads, StoreTran(th) PROVE TypeOK'
  BY <1>11 DEF StoreTran
<1>12. ASSUME NEW th \in Threads, TakeTran(th) PROVE TypeOK'
  BY <1>12 DEF TakeTran, TranEnded
<1>13. ASSUME NEW th \in Threads, FinishTran(th) PROVE TypeOK'
  BY <1>13 DEF FinishTran, TranEnded, TranThrows
<1>14. ASSUME NEW th \in Threads, EnterDispose(th) PROVE TypeOK'
  BY <1>14 DEF EnterDispose
<1>15. ASSUME NEW th \in Threads, MarkDisposed(th) PROVE TypeOK'
  BY <1>15 DEF MarkDisposed
<1>16. ASSUME NEW th \in Threads, TakeContext(th) PROVE TypeOK'
  BY <1>16 DEF TakeContext
<1>17. ASSUME NEW th \in Threads, CloseContext(th) PROVE TypeOK'
  BY <1>17 DEF CloseContext
<1>18. CASE UNCHANGED vars
  BY <1>18 DEF vars
<1> QED
  BY <1>1, <1>2, <1>3, <1>4, <1>5, <1>6, <1>7, <1>8, <1>9, <1>10, <1>11, <1>12,
     <1>13, <1>14, <1>15, <1>16, <1>17, <1>18
  DEF Next, Goes

\* Every state of every behaviour has the types of TypeOK.
THEOREM TypeCorrect == Spec => []TypeOK
<1> QED BY InitType, NextType, PTL DEF Spec

-----------------------------------------------------------------------------
(* The inductive invariant.                                                *)

\* Only the lock's owner is between its second check and its publication, and
\* no context appears meanwhile.
Creating ==
  \A th \in Threads :
    /\ pc[th] \in {"secondCheck", "creating", "initializing"} => lock = th
    /\ pc[th] \in {"creating", "initializing"} => context = None

\* A thread has a context of its own only while it creates or disposes it.
Holding ==
  \A th \in Threads :
    /\ conn[th] # None =>
         /\ conn[th] \in open
         /\ \/ pc[th] = "initializing"
            \/ pc[th] \in {"takeTran", "finishing", "closing"}
               /\ call[th] = "Dispose"
    /\ pc[th] = "initializing" => conn[th] # None
    /\ pc[th] \in {"disposing", "marking", "taking"} => call[th] = "Dispose"

\* Where a thread may rely on a context that was there before, it is there
\* still or Dispose has taken it.
Relying ==
  /\ \A th \in Threads :
       pc[th] \in {"ensured", "begun", "finishing"} => context # None \/ disposed
  /\ tran # None => context # None \/ disposed
  /\ \A th \in Threads : pc[th] = "taking" => disposed

IInv ==
  /\ TypeOK
  /\ Creating
  /\ Holding
  /\ Relying
  /\ OneOwner
  /\ ConnectionsAccounted
  /\ NullOnlyAfterDispose

LEMMA InitIInv == Init => IInv
BY InitType DEF Init, IInv, Creating, Holding, Relying, OneOwner,
                ConnectionsAccounted, NullOnlyAfterDispose

LEMMA NextIInv == IInv /\ [Next]_vars => IInv'
<1> SUFFICES ASSUME IInv, [Next]_vars PROVE IInv'
  OBVIOUS
<1>0. TypeOK'
  BY NextType DEF IInv
<1> USE DataContextMgrAssumption
    DEF IInv, TypeOK, Creating, Holding, Relying, OneOwner,
        ConnectionsAccounted, NullOnlyAfterDispose
<1>1. ASSUME NEW th \in Threads, NEW op \in Calls, Start(th, op) PROVE IInv'
  BY <1>0, <1>1 DEF Start, Calls
<1>2. ASSUME NEW th \in Threads, CheckDisposed(th) PROVE IInv'
  BY <1>0, <1>2 DEF CheckDisposed
<1>3. ASSUME NEW th \in Threads, FirstCheck(th) PROVE IInv'
  BY <1>0, <1>3 DEF FirstCheck
<1>4. ASSUME NEW th \in Threads, AcquireLock(th) PROVE IInv'
  BY <1>0, <1>4 DEF AcquireLock
<1>5. ASSUME NEW th \in Threads, SecondCheck(th) PROVE IInv'
  BY <1>0, <1>5 DEF SecondCheck
<1>6. ASSUME NEW th \in Threads, CreateDbContext(th) PROVE IInv'
  BY <1>0, <1>6 DEF CreateDbContext
<1>7. ASSUME NEW th \in Threads, CreationFails(th) PROVE IInv'
  BY <1>0, <1>7 DEF CreationFails
<1>8. ASSUME NEW th \in Threads, Publish(th) PROVE IInv'
  BY <1>0, <1>8 DEF Publish
<1>9. ASSUME NEW th \in Threads, ReadDbContext(th) PROVE IInv'
  BY <1>0, <1>9 DEF ReadDbContext
<1>10. ASSUME NEW th \in Threads, BeginTransaction(th) PROVE IInv'
  BY <1>0, <1>10 DEF BeginTransaction
<1>11. ASSUME NEW th \in Threads, StoreTran(th) PROVE IInv'
  BY <1>0, <1>11 DEF StoreTran
<1>12. ASSUME NEW th \in Threads, TakeTran(th) PROVE IInv'
  BY <1>0, <1>12 DEF TakeTran, TranEnded
<1>13. ASSUME NEW th \in Threads, FinishTran(th) PROVE IInv'
  BY <1>0, <1>13 DEF FinishTran, TranEnded, TranThrows
<1>14. ASSUME NEW th \in Threads, EnterDispose(th) PROVE IInv'
  BY <1>0, <1>14 DEF EnterDispose
<1>15. ASSUME NEW th \in Threads, MarkDisposed(th) PROVE IInv'
  BY <1>0, <1>15 DEF MarkDisposed
<1>16. ASSUME NEW th \in Threads, TakeContext(th) PROVE IInv'
  <2> USE <1>16 DEF TakeContext
  <2>1. Creating' /\ Relying' /\ NullOnlyAfterDispose'
    OBVIOUS
  <2>2. CASE context = None
    <3>1. conn' = conn /\ open' = open /\ context' = context
      BY <2>2
    <3> QED BY <1>0, <2>1, <2>2, <3>1
  <2>3. CASE context # None
    <3>1. conn[th] = None /\ conn'[th] = context /\ context' = None
      BY <2>3
    <3>2. Holding'
      BY <2>3, <3>1
    <3>3. OneOwner'
      BY <2>3, <3>1
    <3>4. ConnectionsAccounted'
      BY <2>3, <3>1
    <3> QED BY <1>0, <2>1, <3>2, <3>3, <3>4
  <2> QED BY <2>2, <2>3
<1>17. ASSUME NEW th \in Threads, CloseContext(th) PROVE IInv'
  BY <1>0, <1>17 DEF CloseContext
<1>18. CASE UNCHANGED vars
  BY <1>0, <1>18 DEF vars
<1> QED
  BY <1>1, <1>2, <1>3, <1>4, <1>5, <1>6, <1>7, <1>8, <1>9, <1>10, <1>11, <1>12,
     <1>13, <1>14, <1>15, <1>16, <1>17, <1>18
  DEF Next, Goes

LEMMA Inductive == Spec => []IInv
<1> QED BY InitIInv, NextIInv, PTL DEF Spec

-----------------------------------------------------------------------------

\* A context has one owner: the manager, or the one thread that creates or
\* disposes it.
THEOREM ContextHasOneOwner == Spec => []OneOwner
<1>1. IInv => OneOwner
  BY DEF IInv
<1> QED BY <1>1, Inductive, PTL

\* No open connection is forgotten, however creation and Dispose interleave,
\* unless a Dispose threw half way.
THEOREM NoConnectionForgotten == Spec => []ConnectionsAccounted
<1>1. IInv => ConnectionsAccounted
  BY DEF IInv
<1> QED BY <1>1, Inductive, PTL

\* Without Dispose no thread ever meets a null context.
THEOREM NullMeansDisposed == Spec => []NullOnlyAfterDispose
<1>1. IInv => NullOnlyAfterDispose
  BY DEF IInv
<1> QED BY <1>1, Inductive, PTL

\* The double check is enough: a published context is never replaced.
THEOREM PublishedContextStays == Spec => NeverReplaced
<1> DEFINE Stays == context # None =>
                      context' = context \/ (context' = None /\ disposed)
<1>1. IInv /\ [Next]_vars => [Stays]_context
  <2> SUFFICES ASSUME IInv, [Next]_vars, context' # context PROVE Stays
    OBVIOUS
  <2>1. ASSUME NEW th \in Threads, Publish(th) PROVE Stays
    BY <2>1 DEF Publish, IInv, Creating
  <2>2. ASSUME NEW th \in Threads, TakeContext(th) PROVE Stays
    BY <2>2 DEF TakeContext, IInv, Relying
  <2> QED BY <2>1, <2>2
          DEF Next, Goes, vars, Start, CheckDisposed, FirstCheck, AcquireLock,
              SecondCheck, CreateDbContext, CreationFails, ReadDbContext,
              BeginTransaction, StoreTran, TakeTran, FinishTran, EnterDispose,
              MarkDisposed, CloseContext
<1>2. [Stays]_context => [Stays]_vars
  BY DEF vars
<1> QED BY <1>1, <1>2, Inductive, PTL DEF Spec, NeverReplaced

-----------------------------------------------------------------------------
(* Transactions.                                                           *)

\* A thread holds a transaction exactly while it begins or ends it, and no
\* transaction is in two hands, the manager's being one of them.
OneHand ==
  \A th \in Threads :
    /\ hand[th] # None <=> pc[th] \in {"begun", "finishing"}
    /\ hand[th] # None => hand[th] # tran
    /\ \A other \in Threads \ {th} : hand[th] # None => hand[th] # hand[other]

\* Until Dispose, the manager's context has at most one open transaction and no
\* other connection has any; the one a thread has just begun is that one.
OneTransaction ==
  ~disposed =>
    /\ \A t \in Trans : onConn[t] # None => onConn[t] = context
    /\ \A t, u \in Trans : onConn[t] # None /\ onConn[u] # None => t = u
    /\ \A th \in Threads : pc[th] = "begun" => onConn[hand[th]] # None

\* What is open then is the manager's or in some thread's hands.
Accounted ==
  ~disposed =>
    \A t \in Trans : onConn[t] # None => tran = t \/ \E th \in Threads : hand[th] = t

\* Only a call of Dispose closes a connection, and it has set _disposed before.
ClosingIsDisposing ==
  \A th \in Threads :
    /\ pc[th] = "closing" => disposed
    /\ pc[th] \in {"takeTran", "finishing"} /\ call[th] = "Dispose" => disposed

TranInv == OneHand /\ OneTransaction /\ Accounted /\ ClosingIsDisposing

LEMMA InitTran == Init => TranInv
BY DEF Init, TranInv, OneHand, OneTransaction, Accounted, ClosingIsDisposing

LEMMA NextTran == IInv /\ TranInv /\ [Next]_vars => TranInv'
<1> SUFFICES ASSUME IInv, TranInv, [Next]_vars PROVE TranInv'
  OBVIOUS
<1>0. TypeOK
  BY DEF IInv
<1> USE DataContextMgrAssumption
    DEF TypeOK, TranInv, OneHand, OneTransaction, Accounted, ClosingIsDisposing
<1>1. ASSUME NEW th \in Threads, NEW op \in Calls, Start(th, op) PROVE TranInv'
  BY <1>0, <1>1 DEF Start, Calls
<1>2. ASSUME NEW th \in Threads, CheckDisposed(th) PROVE TranInv'
  BY <1>0, <1>2 DEF CheckDisposed
<1>3. ASSUME NEW th \in Threads, FirstCheck(th) PROVE TranInv'
  BY <1>0, <1>3 DEF FirstCheck
<1>4. ASSUME NEW th \in Threads, AcquireLock(th) PROVE TranInv'
  BY <1>0, <1>4 DEF AcquireLock
<1>5. ASSUME NEW th \in Threads, SecondCheck(th) PROVE TranInv'
  BY <1>0, <1>5 DEF SecondCheck
<1>6. ASSUME NEW th \in Threads, CreateDbContext(th) PROVE TranInv'
  BY <1>0, <1>6 DEF CreateDbContext
<1>7. ASSUME NEW th \in Threads, CreationFails(th) PROVE TranInv'
  BY <1>0, <1>7 DEF CreationFails
<1>8. ASSUME NEW th \in Threads, Publish(th) PROVE TranInv'
  BY <1>0, <1>8 DEF Publish, IInv, Creating
<1>9. ASSUME NEW th \in Threads, ReadDbContext(th) PROVE TranInv'
  BY <1>0, <1>9 DEF ReadDbContext
<1>10. ASSUME NEW th \in Threads, BeginTransaction(th) PROVE TranInv'
  BY <1>0, <1>10 DEF BeginTransaction, Unused
<1>11. ASSUME NEW th \in Threads, StoreTran(th) PROVE TranInv'
  BY <1>0, <1>11 DEF StoreTran
<1>12. ASSUME NEW th \in Threads, TakeTran(th) PROVE TranInv'
  BY <1>0, <1>12 DEF TakeTran, TranEnded
<1>13. ASSUME NEW th \in Threads, FinishTran(th) PROVE TranInv'
  BY <1>0, <1>13 DEF FinishTran, TranEnded, TranThrows
<1>14. ASSUME NEW th \in Threads, EnterDispose(th) PROVE TranInv'
  BY <1>0, <1>14 DEF EnterDispose
<1>15. ASSUME NEW th \in Threads, MarkDisposed(th) PROVE TranInv'
  BY <1>0, <1>15 DEF MarkDisposed
<1>16. ASSUME NEW th \in Threads, TakeContext(th) PROVE TranInv'
  BY <1>0, <1>16 DEF TakeContext, IInv, Relying
<1>17. ASSUME NEW th \in Threads, CloseContext(th) PROVE TranInv'
  BY <1>0, <1>17 DEF CloseContext
<1>18. CASE UNCHANGED vars
  BY <1>18 DEF vars
<1> QED
  BY <1>1, <1>2, <1>3, <1>4, <1>5, <1>6, <1>7, <1>8, <1>9, <1>10, <1>11, <1>12,
     <1>13, <1>14, <1>15, <1>16, <1>17, <1>18
  DEF Next, Goes

\* Until Dispose no open transaction is lost, whoever begins, commits and rolls
\* back at the same time, and no two threads ever end the same one.
THEOREM TransactionsNeverLost == Spec => []TransactionsAccounted
<1>1. Spec => []TranInv
  BY InitTran, NextTran, Inductive, PTL DEF Spec
<1>2. TranInv => TransactionsAccounted
  BY DEF TranInv, OneHand, Accounted, TransactionsAccounted
<1> QED BY <1>1, <1>2, PTL
=============================================================================
