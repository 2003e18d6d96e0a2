-------------------------- MODULE CommandPipeline --------------------------
(***************************************************************************)
(* A command handler under its decorators: retry on deadlock, a            *)
(* transaction of the context or a TransactionScope, and validation.  The  *)
(* handler inserts one row into a LINQ to SQL context, which keeps it      *)
(* pending until SubmitUnitOfWork.  The context serves several commands.   *)
(***************************************************************************)
EXTENDS Integers, Sequences

CONSTANTS
  Commands,    \* the commands that are called, each once
  Invalid,     \* the ones whose validation fails
  Pipelines,   \* decorators, outermost first
  RetryCount,
  None

Layers == {"Retry", "TranContext", "TranScope", "Validation"}

\* Retry is never inside a transaction, which a deadlock would have ended.
ASSUME CommandPipelineAssumption ==
  /\ Invalid \subseteq Commands
  /\ RetryCount \in Nat
  /\ None \notin Commands
  /\ \A p \in Pipelines :
       p \in Seq(Layers) /\ \A i \in 2 .. Len(p) : p[i] # "Retry"

VARIABLES
  pipeline,  \* the decorators around the handler
  running,   \* the command being handled
  level,     \* the decorator that runs; behind the last one the handler
  inward,    \* it is being called; else what it called has ended
  exc,       \* the exception on its way out
  left,      \* count: how often a deadlock may still be retried
  open,      \* a transaction is open on the context
  pending,   \* rows of each command the context has not submitted
  stored,    \* rows of each command committed to the database
  result     \* how each call ended

vars == <<pipeline, running, level, inward, exc, left, open, pending, stored, result>>

call == <<pipeline, running, result>>

Failures == {"deadlock", "other"}

TypeOK ==
  /\ pipeline \in Pipelines
  /\ running \in Commands \cup {None}
  /\ level \in 0 .. Len(pipeline) + 1
  /\ inward \in BOOLEAN
  /\ exc \in Failures \cup {"none", "invalid"}
  /\ left \in Int
  /\ open \in BOOLEAN
  /\ pending \in [Commands -> Nat]
  /\ stored \in [Commands -> Nat]
  /\ result \in [Commands -> {"none", "returned", "thrown"}]

Init ==
  /\ pipeline \in Pipelines
  /\ running = None
  /\ level = 0
  /\ inward = TRUE
  /\ exc = "none"
  /\ left = RetryCount
  /\ open = FALSE
  /\ pending = [c \in Commands |-> 0]
  /\ stored = [c \in Commands |-> 0]
  /\ result = [c \in Commands |-> "none"]

-----------------------------------------------------------------------------
\* The decorator passes the call on.
Calls == level' = level + 1 /\ inward' = TRUE /\ exc' = "none"

\* The decorator ends, with exception e or without one.
Ends(e) == level' = level - 1 /\ inward' = FALSE /\ exc' = e

Entered(layer) == level \in DOMAIN pipeline /\ pipeline[level] = layer /\ inward
Left(layer) == level \in DOMAIN pipeline /\ pipeline[level] = layer /\ ~inward

\* What SubmitUnitOfWork may answer: with nothing to submit it cannot fail.
Submissions ==
  {"none"} \cup (IF \E c \in Commands : pending[c] > 0 THEN Failures ELSE {})

\* Rows that are submitted and committed; what failed stays pending.
Commits ==
  /\ stored' = [c \in Commands |-> stored[c] + pending[c]]
  /\ pending' = [c \in Commands |-> 0]

-----------------------------------------------------------------------------
Call(c) ==
  /\ running = None
  /\ result[c] = "none"
  /\ running' = c
  /\ left' = RetryCount
  /\ Calls
  /\ UNCHANGED <<pipeline, open, pending, stored, result>>

\* DeadlockRetry: try on the way in.
Try == Entered("Retry") /\ Calls /\ UNCHANGED <<call, left, open, pending, stored>>

\* Slip: an attempt is counted only if it got as far as the handler.
RetriesAfterUncounted(e) ==
  IF e = "deadlock" /\ left > 0
    THEN Calls /\ left' = IF pending[running] > 0 THEN left - 1 ELSE left
    ELSE Ends(e) /\ UNCHANGED left

\* The catch and what follows it.
RetriesAfter(e) ==
  IF e = "deadlock" /\ left > 0
    THEN Calls /\ left' = left - 1
    ELSE Ends(e) /\ UNCHANGED left

\* Slip: the unit of work is left to the decorators inside.
RetrySubmitsNothing ==
  /\ Left("Retry")
  /\ RetriesAfter(exc)
  /\ UNCHANGED <<call, open, pending, stored>>

\* DeadlockRetry submits after a call that ended well, in a transaction that
\* LINQ to SQL opens for the purpose, and retries whatever was a deadlock.
RetryEnds ==
  /\ Left("Retry")
  /\ \/ exc = "none" /\ Commits /\ RetriesAfter("none")
     \/ \E e \in (IF exc = "none" THEN Submissions ELSE {exc}) \ {"none"} :
          RetriesAfter(e) /\ UNCHANGED <<pending, stored>>
  /\ UNCHANGED <<call, open>>

\* TranContext: BeginTran stands before the try.
\* TranScope: the scope opens.
Begin ==
  /\ Entered("TranContext") \/ Entered("TranScope")
  /\ \/ Calls /\ open' = TRUE
     \/ pipeline[level] = "TranContext" /\ UNCHANGED open /\ \E e \in Failures : Ends(e)
  /\ UNCHANGED <<call, left, pending, stored>>

\* Slip: submitted outside of the transaction, which then commits nothing.
CommitTooLate ==
  /\ Left("TranContext") \/ Left("TranScope")
  /\ exc = "none"
  /\ Commits
  /\ open' = FALSE
  /\ \E e \in Failures \cup {"none"} : Ends(e)
  /\ UNCHANGED <<call, left>>

\* SubmitUnitOfWork and CommitTran, or Complete and Dispose.  When the commit
\* throws, the rows were submitted and are gone with the transaction.
Commit ==
  /\ Left("TranContext") \/ Left("TranScope")
  /\ exc = "none"
  /\ \/ Commits /\ Ends("none")
     \/ pending' = [c \in Commands |-> 0] /\ UNCHANGED stored /\ \E e \in Failures : Ends(e)
  /\ open' = FALSE
  /\ UNCHANGED <<call, left>>

\* Slip: only the exception of the decorated handler is caught.
RollbackHandlerOnly ==
  /\ Left("TranContext") \/ Left("TranScope")
  /\ \E e \in (IF exc = "none" THEN Submissions ELSE {exc}) \ {"none"} :
       Ends(e) /\ open' = (exc = "none")
  /\ UNCHANGED <<call, left, pending, stored>>

\* The handler or SubmitUnitOfWork threw: RollbackTran, whose own exception
\* replaces the first one, or Dispose of a scope that is not complete.
Rollback ==
  /\ Left("TranContext") \/ Left("TranScope")
  /\ \E e \in (IF exc = "none" THEN Submissions ELSE {exc}) \ {"none"} :
       \/ Ends(e)
       \/ pipeline[level] = "TranContext" /\ Ends("other")
  /\ open' = FALSE
  /\ UNCHANGED <<call, left, pending, stored>>

\* ValidationHelper.Validate throws an AggregateException.
Validate ==
  /\ Entered("Validation")
  /\ IF running \in Invalid THEN Ends("invalid") ELSE Calls
  /\ UNCHANGED <<call, left, open, pending, stored>>

ValidationEnds ==
  /\ Left("Validation")
  /\ Ends(exc)
  /\ UNCHANGED <<call, left, open, pending, stored>>

\* AddProductCommandHandler: InsertOnSubmit.  Before it there is the mapping,
\* and the context, which may have to be created; either may throw.
Handle ==
  /\ level = Len(pipeline) + 1
  /\ \/ pending' = [pending EXCEPT ![running] = @ + 1] /\ Ends("none")
     \/ UNCHANGED pending /\ \E e \in Failures : Ends(e)
  /\ UNCHANGED <<call, left, open, stored>>

Return ==
  /\ level = 0
  /\ running # None
  /\ result' = [result EXCEPT ![running] = IF exc = "none" THEN "returned" ELSE "thrown"]
  /\ running' = None
  /\ UNCHANGED <<pipeline, level, inward, exc, left, open, pending, stored>>

Step ==
  \/ Try \/ RetryEnds
  \/ Begin \/ Commit \/ Rollback
  \/ Validate \/ ValidationEnds
  \/ Handle \/ Return

Next == Step \/ \E c \in Commands : Call(c)

Spec == Init /\ [][Next]_vars

\* The thread that handles a command runs on.
FairSpec == Spec /\ WF_vars(Step)

-----------------------------------------------------------------------------
(* Properties.                                                             *)

\* Whatever throws, begin, submit, commit or rollback: no transaction is left
\* open on the context for the next command to work in.
NoTransactionLeftOpen == running = None => ~open

\* A command that returned is in the database, whichever decorator was the one
\* to submit and however often it was retried.
ReturnedMeansStored ==
  \A c \in Commands : result[c] = "returned" => stored[c] > 0

\* A command that throws has stored nothing when it does, in none of its
\* attempts.
ThrownMeansNotStored ==
  [][\A c \in Commands :
       result'[c] = "thrown" /\ result[c] = "none" => stored'[c] = 0]_vars

\* A call returns or throws: deadlocks cannot be retried for ever.
EveryCallEnds == running # None ~> running = None

\* One call of a handler adds one row.  Refuted: a retry inserts again what is
\* still pending.
OncePerCommand ==
  \A c \in Commands : result[c] = "returned" => stored[c] = 1
=============================================================================
