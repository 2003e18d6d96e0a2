----------------------- MODULE CommandPipeline_proofs -----------------------
(***************************************************************************)
(* Proofs about CommandPipeline, for every set of commands, every retry    *)
(* count and every order and number of decorators in which retries are     *)
(* outermost.                                                              *)
(***************************************************************************)
EXTENDS CommandPipeline, TLAPS

TranLayers == {"TranContext", "TranScope"}

USE DEF call, Calls, Ends, Entered, Left, Layers, Failures

-----------------------------------------------------------------------------
(* Types, and where a call is.                                             *)

\* Between two commands nothing is in progress; the end of the pipeline is
\* reached on the way in and its beginning on the way out.
Nested ==
  /\ running = None => level = 0
  /\ running # None /\ level = 0 => ~inward
  /\ level = Len(pipeline) + 1 => inward

LEMMA PipelineType ==
  ASSUME TypeOK
  PROVE  /\ pipeline \in Seq(Layers)
         /\ Len(pipeline) \in Nat
         /\ DOMAIN pipeline = 1 .. Len(pipeline)
         /\ \A i \in DOMAIN pipeline : pipeline[i] \in Layers
         /\ \A i \in DOMAIN pipeline : i >= 2 => pipeline[i] # "Retry"
<1>1. pipeline \in Seq(Layers) /\ \A i \in 2 .. Len(pipeline) : pipeline[i] # "Retry"
  BY CommandPipelineAssumption DEF TypeOK
<1> QED BY <1>1

\* What is submitted and committed, or lost with its transaction.
LEMMA CommitsType ==
  ASSUME TypeOK
  PROVE  /\ [c \in Commands |-> stored[c] + pending[c]] \in [Commands -> Nat]
         /\ [c \in Commands |-> 0] \in [Commands -> Nat]
BY DEF TypeOK

LEMMA InitType == Init => TypeOK /\ Nested
<1> SUFFICES ASSUME Init PROVE TypeOK /\ Nested
  OBVIOUS
<1>1. pipeline \in Seq(Layers)
  BY CommandPipelineAssumption DEF Init
<1>2. Len(pipeline) \in Nat
  BY <1>1
<1>3. level \in 0 .. Len(pipeline) + 1 /\ level # Len(pipeline) + 1
  BY <1>2 DEF Init
<1>4. TypeOK
  <2>1. inward \in BOOLEAN /\ open \in BOOLEAN
    BY DEF Init
  <2>2. left \in Int /\ running \in Commands \cup {None} /\ pipeline \in Pipelines
    BY CommandPipelineAssumption DEF Init
  <2>3. /\ pending \in [Commands -> Nat] /\ stored \in [Commands -> Nat]
        /\ result \in [Commands -> {"none", "returned", "thrown"}]
        /\ exc = "none"
    BY DEF Init
  <2> QED BY <1>3, <2>1, <2>2, <2>3 DEF TypeOK
<1>5. Nested
  BY <1>3 DEF Init, Nested
<1> QED BY <1>4, <1>5

\* Where a call is after a decorator, or the handler, has ended.
LEMMA AfterEnds ==
  ASSUME TypeOK, Nested, level > 0, NEW e \in Failures \cup {"none", "invalid"}, Ends(e),
         UNCHANGED <<pipeline, running>>
  PROVE  /\ Nested'
         /\ level' \in 0 .. Len(pipeline') + 1
         /\ inward' \in BOOLEAN
         /\ exc' \in Failures \cup {"none", "invalid"}
<1>1. Len(pipeline) \in Nat /\ level \in 1 .. Len(pipeline) + 1
  BY PipelineType DEF TypeOK
<1>2. running # None
  BY <1>1 DEF Nested
<1>3. level' \in 0 .. Len(pipeline') /\ ~inward'
  BY <1>1
<1>4. level' # Len(pipeline') + 1
  BY <1>1, <1>3
<1>5. Nested'
  <2>1. running' # None
    BY <1>2
  <2> QED BY <1>3, <1>4, <2>1 DEF Nested
<1>6. level' \in 0 .. Len(pipeline') + 1
  BY <1>1
<1>7. inward' \in BOOLEAN
  OBVIOUS
<1> QED BY <1>5, <1>6, <1>7

\* Where it is after a decorator has passed it on.
LEMMA AfterCalls ==
  ASSUME TypeOK, Nested, level \in DOMAIN pipeline, Calls, UNCHANGED <<pipeline, running>>
  PROVE  /\ Nested'
         /\ level' \in 0 .. Len(pipeline') + 1
         /\ inward' \in BOOLEAN
         /\ exc' \in Failures \cup {"none", "invalid"}
<1>1. Len(pipeline) \in Nat /\ level \in 1 .. Len(pipeline)
  BY PipelineType
<1>2. running # None /\ level' \in 2 .. Len(pipeline') + 1
  BY <1>1 DEF Nested
<1> QED BY <1>1, <1>2 DEF Nested

LEMMA NextType == TypeOK /\ Nested /\ [Next]_vars => TypeOK' /\ Nested'
<1> SUFFICES ASSUME TypeOK, Nested, [Next]_vars PROVE TypeOK' /\ Nested'
  OBVIOUS
<1> DEFINE Place == /\ Nested'
                    /\ level' \in 0 .. Len(pipeline') + 1
                    /\ inward' \in BOOLEAN
                    /\ exc' \in Failures \cup {"none", "invalid"}
<1>0. Len(pipeline) \in Nat /\ DOMAIN pipeline = 1 .. Len(pipeline)
  BY PipelineType
<1>a. ASSUME level \in DOMAIN pipeline, Calls, UNCHANGED <<pipeline, running>> PROVE Place
  BY <1>a, AfterCalls
<1>b. ASSUME level > 0, NEW e \in Failures \cup {"none", "invalid"}, Ends(e),
             UNCHANGED <<pipeline, running>>
      PROVE  Place
  BY <1>b, AfterEnds
<1>c. level \in DOMAIN pipeline => level > 0
  BY <1>0
<1>d. Submissions \cup Failures \cup {exc} \subseteq Failures \cup {"none", "invalid"}
  BY DEF Submissions, TypeOK
<1> HIDE DEF Place
<1> USE DEF TypeOK
<1>1. ASSUME NEW c \in Commands, Call(c) PROVE TypeOK' /\ Nested'
  BY <1>0, <1>1, CommandPipelineAssumption DEF Call, Nested
<1>2. CASE Try
  BY <1>2, <1>a DEF Try, Place
<1>3. CASE RetryEnds
  <2>1. left' \in Int /\ level \in DOMAIN pipeline /\ UNCHANGED <<call, open>>
    BY <1>3 DEF RetryEnds, RetriesAfter
  <2>2. pending' \in [Commands -> Nat] /\ stored' \in [Commands -> Nat]
    BY <1>3, CommitsType DEF RetryEnds, Commits
  <2>3. Calls \/ \E e \in Failures \cup {"none", "invalid"} : Ends(e)
    BY <1>3, <1>d DEF RetryEnds, RetriesAfter
  <2>4. Place
    BY <1>a, <1>b, <1>c, <2>1, <2>3
  <2> QED BY <2>1, <2>2, <2>4 DEF Place
<1>4. CASE Begin
  <2>1. /\ Calls \/ \E e \in Failures : Ends(e)
        /\ level \in DOMAIN pipeline /\ open' \in BOOLEAN
        /\ UNCHANGED <<call, left, pending, stored>>
    BY <1>4 DEF Begin
  <2>2. Place
    BY <1>a, <1>b, <1>c, <2>1
  <2> QED BY <2>1, <2>2 DEF Place
<1>5. CASE Commit
  <2>1. /\ \E e \in Failures \cup {"none"} : Ends(e)
        /\ level \in DOMAIN pipeline /\ open' \in BOOLEAN /\ UNCHANGED <<call, left>>
    BY <1>5 DEF Commit
  <2>2. Place
    BY <1>b, <1>c, <2>1
  <2>3. pending' \in [Commands -> Nat] /\ stored' \in [Commands -> Nat]
    BY <1>5, CommitsType DEF Commit, Commits
  <2> QED BY <2>1, <2>2, <2>3 DEF Place
<1>6. CASE Rollback
  <2>1. /\ \E e \in Failures \cup {"none", "invalid"} : Ends(e)
        /\ level \in DOMAIN pipeline /\ open' \in BOOLEAN
        /\ UNCHANGED <<call, left, pending, stored>>
    BY <1>6, <1>d DEF Rollback
  <2>2. Place
    BY <1>b, <1>c, <2>1
  <2> QED BY <2>1, <2>2 DEF Place
<1>7. CASE Validate
  <2>1. /\ Calls \/ Ends("invalid")
        /\ level \in DOMAIN pipeline
        /\ UNCHANGED <<call, left, open, pending, stored>>
    BY <1>7 DEF Validate
  <2>2. Place
    BY <1>a, <1>b, <1>c, <2>1
  <2> QED BY <2>1, <2>2 DEF Place
<1>8. CASE ValidationEnds
  <2>1. Place
    BY <1>8, <1>b, <1>c DEF ValidationEnds
  <2> QED BY <1>8, <2>1 DEF ValidationEnds, Place
<1>9. CASE Handle
  <2>1. level > 0
    BY <1>0, <1>9 DEF Handle
  <2>2. Place
    BY <1>9, <1>b, <2>1 DEF Handle
  <2>3. pending' \in [Commands -> Nat]
    BY <1>9, <2>1 DEF Handle, Nested
  <2> QED BY <1>9, <2>2, <2>3 DEF Handle, Place
<1>10. CASE Return
  BY <1>0, <1>10 DEF Return, Nested
<1>11. CASE UNCHANGED vars
  BY <1>11 DEF vars, Nested
<1> QED
  BY <1>1, <1>2, <1>3, <1>4, <1>5, <1>6, <1>7, <1>8, <1>9, <1>10, <1>11 DEF Next, Step

LEMMA Types == Spec => [](TypeOK /\ Nested)
BY InitType, NextType, PTL DEF Spec

\* Every state of every behaviour has the types of TypeOK.
THEOREM TypeCorrect == Spec => []TypeOK
BY Types, PTL

-----------------------------------------------------------------------------
(* No transaction is left open.                                            *)

\* An open transaction belongs to a decorator that has not ended yet.
OpenInside ==
  open => \E i \in DOMAIN pipeline :
            /\ pipeline[i] \in TranLayers
            /\ i < level \/ (i = level /\ ~inward)

LEMMA NextOpenInside ==
  TypeOK /\ Nested /\ OpenInside /\ [Next]_vars => OpenInside'
<1> SUFFICES ASSUME TypeOK, Nested, OpenInside, [Next]_vars PROVE OpenInside'
  OBVIOUS
<1>0. /\ Len(pipeline) \in Nat
      /\ DOMAIN pipeline = 1 .. Len(pipeline)
      /\ \A i \in DOMAIN pipeline : pipeline[i] \in Layers
      /\ \A i \in DOMAIN pipeline : i >= 2 => pipeline[i] # "Retry"
  BY PipelineType
<1> USE <1>0 DEF TypeOK, Nested, OpenInside, TranLayers
<1>1. ASSUME NEW c \in Commands, Call(c) PROVE OpenInside'
  BY <1>1 DEF Call
<1>2. CASE Try
  BY <1>2 DEF Try
<1>3. CASE RetryEnds
  BY <1>3 DEF RetryEnds, RetriesAfter
<1>4. CASE Begin
  <2>1. /\ level \in DOMAIN pipeline /\ pipeline[level] \in TranLayers
        /\ inward /\ pipeline' = pipeline
    BY <1>4 DEF Begin
  <2>2. CASE Calls
    <3>1. level' = level + 1
      BY <2>2
    <3>2. level \in DOMAIN pipeline' /\ pipeline'[level] \in TranLayers /\ level < level'
      BY <2>1, <3>1
    <3> QED BY <3>2
  <2>3. CASE open' = open /\ \E e \in Failures : Ends(e)
    BY <2>1, <2>3
  <2> QED BY <1>4, <2>2, <2>3 DEF Begin
<1>5. CASE Commit
  BY <1>5 DEF Commit
<1>6. CASE Rollback
  BY <1>6 DEF Rollback
<1>7. CASE Validate
  BY <1>7 DEF Validate
<1>8. CASE ValidationEnds
  BY <1>8 DEF ValidationEnds
<1>9. CASE Handle
  BY <1>9 DEF Handle
<1>10. CASE Return
  BY <1>10 DEF Return
<1>11. CASE UNCHANGED vars
  BY <1>11 DEF vars
<1> QED
  BY <1>1, <1>2, <1>3, <1>4, <1>5, <1>6, <1>7, <1>8, <1>9, <1>10, <1>11 DEF Next, Step

\* Whatever throws, and however transactions are nested, none is open on the
\* context when the next command comes.
THEOREM TransactionsEnd == Spec => []NoTransactionLeftOpen
<1>1. Init => OpenInside
  BY DEF Init, OpenInside
<1>2. Spec => []OpenInside
  BY <1>1, NextOpenInside, Types, PTL DEF Spec
<1>3. TypeOK /\ Nested /\ OpenInside => NoTransactionLeftOpen
  BY PipelineType DEF Nested, OpenInside, NoTransactionLeftOpen
<1> QED BY <1>2, <1>3, Types, PTL

-----------------------------------------------------------------------------
(* What returned is stored.                                                *)

\* Some decorator submits: validation alone leaves the rows to its caller.
Submitting == \A p \in Pipelines : \E i \in DOMAIN p : p[i] # "Validation"

\* On the way out without an exception the row of the command is pending, and
\* once a decorator that submits is behind, it is stored.
OnTheWayOut ==
  running # None /\ ~inward /\ exc = "none" =>
    /\ pending[running] > 0 \/ stored[running] > 0
    /\ (\E i \in DOMAIN pipeline : i > level /\ pipeline[i] # "Validation")
         => stored[running] > 0

LEMMA NextStored ==
  ASSUME Submitting, TypeOK, Nested, OnTheWayOut, ReturnedMeansStored, [Next]_vars
  PROVE  OnTheWayOut' /\ ReturnedMeansStored'
<1>0. /\ Len(pipeline) \in Nat
      /\ DOMAIN pipeline = 1 .. Len(pipeline)
      /\ \A i \in DOMAIN pipeline : pipeline[i] \in Layers
      /\ \A i \in DOMAIN pipeline : i >= 2 => pipeline[i] # "Retry"
  BY PipelineType
<1> USE <1>0 DEF TypeOK, Nested, OnTheWayOut, ReturnedMeansStored
<1>a. ASSUME Commits PROVE \A c \in Commands : /\ stored'[c] = stored[c] + pending[c]
                                               /\ stored'[c] \in Nat
                                               /\ stored[c] > 0 => stored'[c] > 0
                                               /\ pending[c] > 0 => stored'[c] > 0
  BY <1>a DEF Commits
<1>1. ASSUME NEW c \in Commands, Call(c) PROVE OnTheWayOut' /\ ReturnedMeansStored'
  BY <1>1 DEF Call
<1>2. CASE Try
  BY <1>2 DEF Try
<1>3. CASE RetryEnds
  <2>1. CASE exc = "none" /\ Commits /\ RetriesAfter("none")
    BY <1>3, <1>a, <2>1 DEF RetryEnds, RetriesAfter
  <2>2. ASSUME NEW e \in (IF exc = "none" THEN Submissions ELSE {exc}) \ {"none"},
               RetriesAfter(e), UNCHANGED <<pending, stored>>
        PROVE  OnTheWayOut' /\ ReturnedMeansStored'
    BY <1>3, <2>2 DEF RetryEnds, RetriesAfter
  <2> QED BY <1>3, <2>1, <2>2 DEF RetryEnds
<1>4. CASE Begin
  BY <1>4 DEF Begin
<1>5. CASE Commit
  <2>1. CASE Commits /\ Ends("none")
    BY <1>5, <1>a, <2>1 DEF Commit
  <2>2. CASE UNCHANGED stored /\ \E e \in Failures : Ends(e)
    BY <1>5, <2>2 DEF Commit
  <2> QED BY <1>5, <2>1, <2>2 DEF Commit
<1>6. CASE Rollback
  BY <1>6 DEF Rollback
<1>7. CASE Validate
  BY <1>7 DEF Validate
<1>8. CASE ValidationEnds
  BY <1>8 DEF ValidationEnds
<1>9. CASE Handle
  BY <1>9 DEF Handle
<1>10. CASE Return
  <2>1. \E i \in DOMAIN pipeline : i > level /\ pipeline[i] # "Validation"
    BY <1>10 DEF Return, Submitting
  <2> QED BY <1>10, <2>1 DEF Return
<1>11. CASE UNCHANGED vars
  BY <1>11 DEF vars
<1> QED
  BY <1>1, <1>2, <1>3, <1>4, <1>5, <1>6, <1>7, <1>8, <1>9, <1>10, <1>11 DEF Next, Step

\* A command that returned is in the database, whichever decorator was the one
\* to submit and however often it was retried, if any decorator submits at all.
THEOREM ReturnedIsStored == Submitting => (Spec => []ReturnedMeansStored)
<1> SUFFICES ASSUME Submitting PROVE Spec => []ReturnedMeansStored
  OBVIOUS
<1>1. Init => OnTheWayOut /\ ReturnedMeansStored
  BY DEF Init, OnTheWayOut, ReturnedMeansStored
<1>2. TypeOK /\ Nested /\ OnTheWayOut /\ ReturnedMeansStored /\ [Next]_vars
        => OnTheWayOut' /\ ReturnedMeansStored'
  BY NextStored
<1> QED BY <1>1, <1>2, Types, PTL DEF Spec

-----------------------------------------------------------------------------
(* What threw is not stored.                                               *)

\* Transactions are not nested: the inner one would commit before the outer.
OneTranLayer ==
  \A p \in Pipelines : \A i, j \in DOMAIN p :
    p[i] \in TranLayers /\ p[j] \in TranLayers => i = j

\* A command that has not been called has no rows; the one that runs has none
\* stored, unless only decorators that do not throw any more are before it.
NotStoredYet ==
  /\ \A c \in Commands :
       result[c] = "none" /\ c # running => pending[c] = 0 /\ stored[c] = 0
  /\ running # None => result[running] = "none"
  /\ running # None /\ stored[running] > 0 =>
       /\ ~inward /\ exc = "none"
       /\ \A c \in Commands : pending[c] = 0
       /\ \A i \in DOMAIN pipeline : i <= level => pipeline[i] \notin TranLayers

LEMMA NextNotStored ==
  ASSUME OneTranLayer, TypeOK, Nested, NotStoredYet, [Next]_vars
  PROVE  NotStoredYet'
<1>0. /\ Len(pipeline) \in Nat
      /\ DOMAIN pipeline = 1 .. Len(pipeline)
      /\ \A i \in DOMAIN pipeline : pipeline[i] \in Layers
      /\ \A i \in DOMAIN pipeline : i >= 2 => pipeline[i] # "Retry"
  BY PipelineType
<1> USE <1>0, CommandPipelineAssumption DEF TypeOK, Nested, NotStoredYet, TranLayers
<1>a. ASSUME Commits PROVE \A c \in Commands : /\ stored'[c] = stored[c] + pending[c]
                                               /\ pending'[c] = 0
  BY <1>a DEF Commits
<1>1. ASSUME NEW c \in Commands, Call(c) PROVE NotStoredYet'
  BY <1>1 DEF Call
<1>2. CASE Try
  BY <1>2 DEF Try
<1>3. CASE RetryEnds
  <2>1. CASE exc = "none" /\ Commits /\ RetriesAfter("none")
    BY <1>3, <1>a, <2>1 DEF RetryEnds, RetriesAfter
  <2>2. ASSUME NEW e \in (IF exc = "none" THEN Submissions ELSE {exc}) \ {"none"},
               RetriesAfter(e), UNCHANGED <<pending, stored>>
        PROVE  NotStoredYet'
    <3>1. running # None /\ UNCHANGED <<running, result>>
      BY <1>3 DEF RetryEnds
    <3>2. stored[running] = 0
      BY <2>2, <3>1 DEF Submissions
    <3> QED BY <2>2, <3>1, <3>2
  <2> QED BY <1>3, <2>1, <2>2 DEF RetryEnds
<1>4. CASE Begin
  BY <1>4 DEF Begin
<1>5. CASE Commit
  <2>1. running # None /\ pipeline[level] \in TranLayers /\ level \in DOMAIN pipeline
    BY <1>5 DEF Commit
  <2>2. stored[running] = 0
    BY <2>1
  <2>3. \A i \in DOMAIN pipeline : i <= level - 1 => pipeline[i] \notin TranLayers
    BY <2>1 DEF OneTranLayer
  <2>4. CASE Commits /\ Ends("none")
    BY <1>5, <1>a, <2>1, <2>3, <2>4 DEF Commit
  <2>5. CASE pending' = [c \in Commands |-> 0] /\ UNCHANGED stored
    BY <1>5, <2>1, <2>2, <2>5 DEF Commit
  <2> QED BY <1>5, <2>4, <2>5 DEF Commit
<1>6. CASE Rollback
  BY <1>6 DEF Rollback
<1>7. CASE Validate
  BY <1>7 DEF Validate
<1>8. CASE ValidationEnds
  BY <1>8 DEF ValidationEnds
<1>9. CASE Handle
  BY <1>9 DEF Handle
<1>10. CASE Return
  BY <1>10 DEF Return
<1>11. CASE UNCHANGED vars
  BY <1>11 DEF vars
<1> QED
  BY <1>1, <1>2, <1>3, <1>4, <1>5, <1>6, <1>7, <1>8, <1>9, <1>10, <1>11 DEF Next, Step

\* A command that throws has stored nothing when it does, in none of its
\* attempts, as long as there is one transaction around them at most.
THEOREM ThrownIsNotStored == OneTranLayer => (Spec => ThrownMeansNotStored)
<1> SUFFICES ASSUME OneTranLayer PROVE Spec => ThrownMeansNotStored
  OBVIOUS
<1> DEFINE Throws == \A c \in Commands :
                       result'[c] = "thrown" /\ result[c] = "none" => stored'[c] = 0
<1>1. Init => NotStoredYet
  BY CommandPipelineAssumption DEF Init, NotStoredYet
<1>2. TypeOK /\ Nested /\ NotStoredYet /\ [Next]_vars => NotStoredYet'
  BY NextNotStored
<1>3. TypeOK /\ Nested /\ NotStoredYet /\ [Next]_vars => [Throws]_vars
  <2> SUFFICES ASSUME TypeOK, NotStoredYet, Next, NEW c \in Commands,
                      result'[c] = "thrown", result[c] = "none"
               PROVE  stored'[c] = 0
    OBVIOUS
  <2>1. Return
    BY DEF Next, Step, Call, Try, RetryEnds, Begin, Commit, Rollback, Validate,
           ValidationEnds, Handle
  <2>2. c = running /\ exc # "none" /\ stored' = stored
    BY <2>1 DEF Return, TypeOK
  <2> QED BY <2>1, <2>2 DEF Return, NotStoredYet, TypeOK
<1> HIDE DEF Throws
<1>4. Spec => [][Throws]_vars
  BY <1>1, <1>2, <1>3, Types, PTL DEF Spec
<1> QED BY <1>4 DEF Throws, ThrownMeansNotStored
=============================================================================
