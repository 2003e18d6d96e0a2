------------------------- MODULE PaginalList_proofs -------------------------
(***************************************************************************)
(* Proofs about PaginalList, for every set of texts, record counts, page   *)
(* sizes, number of requests in flight and option values.                  *)
(***************************************************************************)
EXTENDS PaginalList, TLAPS

USE DEF config, timers, history

-----------------------------------------------------------------------------
(* Lemmas about the operators.                                             *)

\* Division with remainder, the only fact about \div and % used here.
LEMMA DivMod ==
  ASSUME NEW n \in Nat, NEW d \in Nat \ {0}
  PROVE  /\ n \div d \in Nat
         /\ n % d \in 0 .. d - 1
         /\ n = (d * (n \div d)) + (n % d)
OBVIOUS

\* CalculateTotalPages is a natural number, and zero only without records.
LEMMA TotalPagesType ==
  ASSUME NEW records \in Nat, NEW ps \in Nat
  PROVE  /\ CalculateTotalPages(records, ps) \in Nat
         /\ (CalculateTotalPages(records, ps) = 0) <=> (records = 0)
<1>1. CASE ps = 0
  BY <1>1 DEF CalculateTotalPages, PageSizeNoPagging
<1>2. CASE ps # 0
  <2> DEFINE q == records \div ps
             r == records % ps
  <2>1. q \in Nat /\ r \in 0 .. ps - 1 /\ records = (ps * q) + r
    BY <1>2, DivMod
  <2>2. CalculateTotalPages(records, ps) = q + (IF r > 0 THEN 1 ELSE 0)
    BY <1>2 DEF CalculateTotalPages, PageSizeNoPagging
  <2>3. (q = 0 /\ r = 0) => records = 0
    BY <2>1, <1>2
  <2>4. records = 0 => (q = 0 /\ r = 0)
    <3> HIDE DEF q, r
    <3>1. ASSUME records = 0, q >= 1 PROVE FALSE
      <4>1. ps * q >= ps
        BY <1>2, <2>1, <3>1
      <4> QED BY <2>1, <1>2, <3>1, <4>1
    <3>2. (records = 0 /\ q = 0) => r = 0
      BY <2>1, <1>2
    <3> QED BY <3>1, <3>2, <2>1
  <2> HIDE DEF q, r
  <2> QED BY <2>1, <2>2, <2>3, <2>4
<1> QED BY <1>1, <1>2

\* The page served is one of the pages there are, or 0 without records.
LEMMA AcquiredPageRange ==
  ASSUME NEW records \in Nat, NEW ps \in Nat, NEW page \in Int
  PROVE  LET acquired == CalculateAcquiredPageNumber(records, ps, page)
         IN /\ acquired \in 0 .. CalculateTotalPages(records, ps)
            /\ (acquired = 0) <=> (records = 0)
BY TotalPagesType DEF CalculateAcquiredPageNumber, AtMost, AtLeast

LEMMA EffectiveType ==
  ASSUME NEW text \in Texts
  PROVE  Effective(text) \in Texts
BY PaginalListAssumption DEF Effective

LEMMA RecordsType == Records \in [Texts -> Nat]
BY PaginalListAssumption

LEMMA SizesType == \A s \in PageSizes : s \in Nat /\ s >= 1 /\ s <= 1000
BY PaginalListAssumption DEF MaxPageSize, PageSizes

LEMMA AnswerType ==
  ASSUME NEW r \in Request
  PROVE  /\ Answer(r).page \in Nat
         /\ Answer(r).pages \in Nat
         /\ (Answer(r).page = 0) <=> (Records[r.filter] = 0)
<1>1. r.size \in Nat /\ r.page \in Int /\ Records[r.filter] \in Nat
  <2>1. r.size \in PageSizes /\ r.page \in Nat /\ r.filter \in Texts
    BY DEF Request
  <2>2. Records[r.filter] \in Nat
    BY <2>1, RecordsType
  <2>3. r.size \in Nat
    BY <2>1, SizesType
  <2> QED BY <2>1, <2>2, <2>3
<1>2. CalculateTotalPages(Records[r.filter], r.size) \in Nat
  BY <1>1, TotalPagesType
<1> DEFINE acquired ==
             CalculateAcquiredPageNumber(Records[r.filter], r.size, r.page)
<1>3. /\ acquired \in 0 .. CalculateTotalPages(Records[r.filter], r.size)
      /\ (acquired = 0) <=> (Records[r.filter] = 0)
  BY <1>1, AcquiredPageRange
<1> HIDE DEF acquired
<1>4. Answer(r).page = acquired
  BY DEF Answer, acquired
<1>5. Answer(r).pages = CalculateTotalPages(Records[r.filter], r.size)
  BY DEF Answer
<1> QED BY <1>2, <1>3, <1>4, <1>5

LEMMA ClampType ==
  ASSUME NEW v \in Nat, NEW max \in Nat
  PROVE  Clamp(v, max) \in Nat
BY DEF Clamp, AtLeast, AtMost

\* What an issued request changes, and that it keeps the types.
LEMMA LoadPageType ==
  ASSUME TypeOK, NEW slot \in Slots, NEW page \in Nat, NEW s \in PageSizes,
         NEW showLoader \in BOOLEAN, LoadPage(slot, page, s, showLoader)
  PROVE  /\ fv' \in Texts
         /\ pending' \in [Slots -> Request \cup {None}]
         /\ pending'[slot] =
              [page |-> page, size |-> s, filter |-> Effective(input)]
         /\ pending'[slot] \in Request
         /\ bar' \in Bars
         /\ searchOff' \in BOOLEAN
         /\ loaderTimer' \in BOOLEAN
         /\ latest' = slot
         /\ fate' = "pending"
         /\ fate' \in Fates
<1> DEFINE r == [page |-> page, size |-> s, filter |-> Effective(input)]
<1>1. r \in Request
  BY EffectiveType DEF Request, TypeOK
<1>2. pending' = [pending EXCEPT ![slot] = r]
  BY DEF LoadPage, BuildPageUrl
<1>3. pending'[slot] = r /\ pending' \in [Slots -> Request \cup {None}]
  BY <1>1, <1>2 DEF TypeOK
<1>4. bar' \in Bars
  BY DEF LoadPage, DisabledBar, Bars, TypeOK
<1>5. searchOff' \in BOOLEAN /\ loaderTimer' \in BOOLEAN
  BY PaginalListAssumption DEF LoadPage, BuildPageUrl, TypeOK
<1>6. "pending" \in Fates
  BY DEF Fates
<1> QED BY <1>1, <1>3, <1>4, <1>5, <1>6 DEF LoadPage, BuildPageUrl, TypeOK

LEMMA UpdatedBarType ==
  ASSUME NEW c \in Nat, NEW t \in Nat, NEW s \in PageSizes
  PROVE  UpdatedBar(c, t, s) \in Bars
BY DEF Bars, UpdatedBar, BackEnabled, ForthEnabled

-----------------------------------------------------------------------------
(* The type invariant.                                                     *)

LEMMA InitType == Init => TypeOK
<1> SUFFICES ASSUME NEW s \in HostSizes, NEW rendered \in BOOLEAN,
                    NEW slot \in Slots, InitialState(s, rendered, slot)
             PROVE  TypeOK
  BY DEF Init
<1> DEFINE first == [page |-> 1, size |-> s, filter |-> NoText]
           autoLoad == ~rendered \/ Records[NoText] = 0
<1> USE DEF InitialState
<1>0. s \in PageSizes
  BY DEF PageSizes
<1>1. first \in Request
  BY <1>0, PaginalListAssumption DEF Request
<1>2. cur \in Nat /\ total \in Nat
  BY <1>1, AnswerType
<1>3. items \in Request \cup {None} /\ dom \in Request \cup {None}
  BY <1>1
<1>4. [first EXCEPT !.page = cur] \in Request
  BY <1>0, <1>2, PaginalListAssumption DEF Request
<1>5. pending \in [Slots -> Request \cup {None}]
  BY <1>4
<1>6. bar \in Bars
  BY <1>0, <1>2 DEF Bars, UpdatedBar, BackEnabled, ForthEnabled
<1>7. toolbox \in Toolboxes
  BY <1>0, PaginalListAssumption DEF Toolboxes
<1>8. searchOff \in BOOLEAN /\ loaderTimer \in BOOLEAN /\ fading \in BOOLEAN
  BY PaginalListAssumption
<1>9. /\ size \in PageSizes /\ fv \in Texts /\ input \in Texts
      /\ loaderShown \in BOOLEAN /\ searchTimer \in BOOLEAN /\ alive \in BOOLEAN
      /\ latest \in Slots \cup {None} /\ fate \in Fates
  BY <1>0, PaginalListAssumption DEF Fates
<1> QED BY <1>2, <1>3, <1>5, <1>6, <1>7, <1>8, <1>9 DEF TypeOK

LEMMA NextType == TypeOK /\ [Next]_vars => TypeOK'
<1> SUFFICES ASSUME TypeOK, [Next]_vars PROVE TypeOK'
  OBVIOUS
<1>0. {"pending", "shown", "overwritten", "failed", "cleared"} \subseteq Fates
  BY DEF Fates
<1>1. ASSUME NEW slot \in Slots, PageFirst(slot) PROVE TypeOK'
  BY <1>1, LoadPageType DEF PageFirst, TypeOK
<1>2. ASSUME NEW slot \in Slots, PagePrev(slot) PROVE TypeOK'
  <2>1. cur - 1 \in Nat
    BY <1>2 DEF PagePrev, BackEnabled, TypeOK
  <2> QED BY <1>2, <2>1, LoadPageType DEF PagePrev, TypeOK
<1>3. ASSUME NEW slot \in Slots, PageNext(slot) PROVE TypeOK'
  <2>1. cur + 1 \in Nat
    BY DEF TypeOK
  <2> QED BY <1>3, <2>1, LoadPageType DEF PageNext, TypeOK
<1>4. ASSUME NEW slot \in Slots, PageLast(slot) PROVE TypeOK'
  BY <1>4, LoadPageType DEF PageLast, TypeOK
<1>5. ASSUME NEW slot \in Slots, NEW p \in HostPages, HostLoadPage(slot, p)
      PROVE  TypeOK'
  <2>1. p \in Nat
    BY PaginalListAssumption
  <2> QED BY <1>5, <2>1, LoadPageType DEF HostLoadPage, TypeOK
<1>6. ASSUME NEW slot \in Slots, TbClosed(slot) PROVE TypeOK'
  <2>1. cur' \in Nat /\ size' \in PageSizes
    BY <1>6 DEF TbClosed, ChosenPage, Toolboxes, TypeOK
  <2>4. toolbox' \in Toolboxes
    BY <1>6 DEF TbClosed, Toolboxes, TypeOK
  <2>2. CASE cur' # cur \/ size' # size
    BY <1>6, <2>1, <2>2, <2>4, LoadPageType DEF TbClosed, TypeOK
  <2>3. CASE ~(cur' # cur \/ size' # size)
    BY <1>6, <2>1, <2>3, <2>4 DEF TbClosed, TypeOK
  <2> QED BY <2>2, <2>3
<1>7. ASSUME NEW slot \in Slots, Success(slot) PROVE TypeOK'
  <2>1. pending[slot] \in Request
    BY <1>7 DEF Success, LoadEnds, RenderData, Settled, TypeOK
  <2>2. items' \in Request /\ cur' \in Nat /\ total' \in Nat
    BY <1>7, <2>1, AnswerType DEF Success, LoadEnds, RenderData
  <2>3. pending' \in [Slots -> Request \cup {None}]
    BY <1>7 DEF Success, LoadEnds, RenderData, Settled, TypeOK
  <2>4. bar' \in Bars
    BY <1>7, <2>2, UpdatedBarType DEF Success, LoadEnds, RenderData, TypeOK
  <2>5. fading' \in BOOLEAN /\ dom' \in Request \cup {None}
    BY <1>7, <2>2 DEF Success, LoadEnds, RenderData, TypeOK
  <2> QED BY <1>0, <1>7, <2>2, <2>3, <2>4, <2>5 DEF Success, LoadEnds, RenderData, Settled, TypeOK
<1>8. ASSUME NEW slot \in Slots, Failure(slot) PROVE TypeOK'
  <2>1. bar' \in Bars
    BY <1>8, UpdatedBarType DEF Failure, LoadEnds, TypeOK
  <2> QED BY <1>0, <1>8, <2>1 DEF Failure, LoadEnds, Settled, TypeOK
<1>9. ASSUME NEW slot \in Slots, LateSettlement(slot) PROVE TypeOK'
  BY <1>9 DEF LateSettlement, Settled, TypeOK
<1>10. ASSUME NEW text \in Texts, SearchKeyUp(text) PROVE TypeOK'
  BY <1>10 DEF SearchKeyUp, TypeOK
<1>11. ASSUME NEW slot \in Slots, SearchTimerLoads(slot) PROVE TypeOK'
  BY <1>11, LoadPageType DEF SearchTimerLoads, TypeOK
<1>12. CASE SearchTimerDrops
  BY <1>12 DEF SearchTimerDrops, TypeOK
<1>13. CASE ClearFilter
  BY <1>0, <1>13, PaginalListAssumption DEF ClearFilter, TypeOK
<1>14. CASE TbOpened
  <2>1. PICK s \in Sizes :
          toolbox' = [open |-> TRUE, max |-> total, size |-> s,
                      page |-> Clamp(Clamp(cur, toolbox.max), total)]
    BY <1>14 DEF TbOpened
  <2>2. s \in PageSizes
    BY DEF PageSizes
  <2>3. toolbox' \in Toolboxes
    BY <2>1, <2>2, ClampType DEF Toolboxes, TypeOK
  <2> QED BY <1>14, <2>3 DEF TbOpened, TypeOK
<1>15. CASE MoveSlider
  <2>1. AtMost(1, toolbox.max) \in Nat
    BY DEF AtMost, Toolboxes, TypeOK
  <2>2. toolbox' \in Toolboxes
    BY <1>15, <2>1 DEF MoveSlider, Toolboxes, PageSizes, TypeOK
  <2> QED BY <1>15, <2>2 DEF MoveSlider, TypeOK
<1>16. CASE TbCancelled
  <2>1. toolbox' \in Toolboxes
    BY <1>16 DEF TbCancelled, Toolboxes, TypeOK
  <2> QED BY <1>16, <2>1 DEF TbCancelled, TypeOK
<1>17. CASE LoaderTimerFires
  BY <1>17 DEF LoaderTimerFires, TypeOK
<1>18. CASE PopulateData
  BY <1>18 DEF PopulateData, TypeOK
<1>19. CASE Destroy
  BY <1>19 DEF Destroy, TypeOK
<1>20. CASE UNCHANGED vars
  BY <1>20 DEF vars, TypeOK
<1> QED
  BY <1>1, <1>2, <1>3, <1>4, <1>5, <1>6, <1>7, <1>8, <1>9, <1>10, <1>11, <1>12,
     <1>13, <1>14, <1>15, <1>16, <1>17, <1>18, <1>19, <1>20
  DEF Next, Acts, Settles, ActsAlone, SearchTimerFires

\* Every state of every behaviour has the types of TypeOK.
THEOREM TypeCorrect == Spec => []TypeOK
<1> QED BY InitType, NextType, PTL DEF Spec

-----------------------------------------------------------------------------
(* The steps, as far as the safety properties tell them apart: a request   *)
(* is issued, only the toolbox or nothing changes, or one of the others.   *)

Issue(slot) ==
  /\ \E page \in Nat \ {0}, showLoader \in BOOLEAN :
       LoadPage(slot, page, size', showLoader)
  /\ pending[slot] = None
  /\ alive
  /\ searchTimer' => searchTimer
  /\ size' \in PageSizes
  /\ UNCHANGED <<total, items, input, dom, loaderShown, fading, alive>>

Hold ==
  UNCHANGED <<cur, total, size, fv, items, input, searchOff, bar, dom,
              loaderShown, pending, searchTimer, loaderTimer, fading, alive,
              latest, fate>>

LEMMA TbClosedCases ==
  ASSUME TypeOK, NEW slot \in Slots, TbClosed(slot)
  PROVE  Issue(slot) \/ Hold
<1>1. cur' \in Nat \ {0} /\ size' \in PageSizes
  BY DEF TbClosed, ChosenPage, Toolboxes, TypeOK
<1>2. CASE cur' # cur \/ size' # size
  <2>1. LoadPage(slot, cur', size', TRUE)
    BY <1>2 DEF TbClosed
  <2> QED BY <1>1, <2>1 DEF TbClosed, LoadPage, Issue
<1>3. CASE ~(cur' # cur \/ size' # size)
  BY <1>3 DEF TbClosed, Hold
<1> QED BY <1>2, <1>3

LEMMA ActsCases ==
  ASSUME TypeOK, NEW slot \in Slots, Acts(slot)
  PROVE  Issue(slot) \/ Hold
<1>0. cur \in Nat /\ total \in Nat /\ size \in PageSizes
  BY DEF TypeOK
<1>1. CASE PageFirst(slot)
  <2>1. LoadPage(slot, 1, size', TRUE)
    BY <1>1 DEF PageFirst
  <2>2. 1 \in Nat \ {0} /\ TRUE \in BOOLEAN
    OBVIOUS
  <2> QED BY <1>0, <1>1, <2>1, <2>2 DEF PageFirst, LoadPage, Issue
<1>2. CASE PagePrev(slot)
  <2>1. cur - 1 \in Nat \ {0}
    BY <1>0, <1>2 DEF PagePrev, BackEnabled
  <2> QED BY <1>0, <1>2, <2>1 DEF PagePrev, LoadPage, Issue
<1>3. CASE PageNext(slot)
  <2>1. cur + 1 \in Nat \ {0}
    BY <1>0
  <2> QED BY <1>0, <1>3, <2>1 DEF PageNext, LoadPage, Issue
<1>4. CASE PageLast(slot)
  <2>1. total \in Nat \ {0}
    BY <1>0, <1>4 DEF PageLast, ForthEnabled
  <2> QED BY <1>0, <1>4, <2>1 DEF PageLast, LoadPage, Issue
<1>5. ASSUME NEW p \in HostPages, HostLoadPage(slot, p)
      PROVE  Issue(slot)
  <2>1. p \in Nat \ {0}
    BY PaginalListAssumption
  <2> QED BY <1>0, <1>5, <2>1 DEF HostLoadPage, LoadPage, Issue
<1>6. CASE TbClosed(slot)
  BY <1>6, TbClosedCases
<1> QED BY <1>1, <1>2, <1>3, <1>4, <1>5, <1>6 DEF Acts

LEMMA StepCases ==
  ASSUME TypeOK, [Next]_vars
  PROVE  \/ Hold
         \/ \E slot \in Slots : Issue(slot)
         \/ \E slot \in Slots : Success(slot)
         \/ \E slot \in Slots : Failure(slot)
         \/ \E slot \in Slots : LateSettlement(slot)
         \/ \E text \in Texts : SearchKeyUp(text)
         \/ SearchTimerDrops
         \/ ClearFilter
         \/ LoaderTimerFires
         \/ PopulateData
         \/ Destroy
<1>1. ASSUME NEW slot \in Slots, SearchTimerLoads(slot) PROVE Issue(slot)
  <2>1. LoadPage(slot, 1, size', FALSE)
    BY <1>1 DEF SearchTimerLoads
  <2>2. 1 \in Nat \ {0} /\ FALSE \in BOOLEAN
    OBVIOUS
  <2> QED BY <1>1, <2>1, <2>2 DEF SearchTimerLoads, LoadPage, Issue, TypeOK
<1>2. (TbOpened \/ MoveSlider \/ TbCancelled) => Hold
  BY DEF TbOpened, MoveSlider, TbCancelled, Hold
<1>3. UNCHANGED vars => Hold
  BY DEF vars, Hold
<1> QED BY <1>1, <1>2, <1>3, ActsCases
        DEF Next, Settles, ActsAlone, SearchTimerFires

\* An issued request is in flight, and no other slot changes.
LEMMA IssuePending ==
  ASSUME TypeOK, NEW slot \in Slots, Issue(slot)
  PROVE  /\ pending'[slot] \in Request
         /\ pending'[slot] # None
         /\ pending'[slot].page \in Nat \ {0}
         /\ pending'[slot].size = size'
         /\ pending'[slot].filter = Effective(fv')
         /\ \A x \in Slots \ {slot} : pending'[x] = pending[x]
         /\ fv' = input
         /\ latest' = slot
         /\ fate' = "pending"
<1>1. PICK page \in Nat \ {0}, showLoader \in BOOLEAN :
             LoadPage(slot, page, size', showLoader)
  BY DEF Issue
<1>2. /\ pending'[slot] = [page |-> page, size |-> size',
                           filter |-> Effective(input)]
      /\ pending'[slot] \in Request
      /\ latest' = slot
      /\ fate' = "pending"
  BY <1>1, LoadPageType DEF Issue
<1>3. fv' = input
  BY <1>1 DEF LoadPage, BuildPageUrl
<1>4. pending'[slot] # None
  BY <1>2, PaginalListAssumption DEF Request, PageSizes
<1>5. \A x \in Slots \ {slot} : pending'[x] = pending[x]
  BY <1>1 DEF LoadPage, BuildPageUrl, TypeOK
<1> QED BY <1>2, <1>3, <1>4, <1>5

-----------------------------------------------------------------------------
(* Once idle, the controls agree with the configuration: inductive as it   *)
(* stands, given the types.                                                *)

LEMMA InitControls == Init => IdleControlsAgree
<1> SUFFICES ASSUME NEW s \in HostSizes, NEW rendered \in BOOLEAN,
                    NEW slot \in Slots, InitialState(s, rendered, slot), Idle
             PROVE  IdleControlsAgree
  BY DEF Init, IdleControlsAgree
<1> DEFINE autoLoad == ~rendered \/ Records[NoText] = 0
<1>1. TypeOK
  BY InitType DEF Init
<1>2. ASSUME autoLoad PROVE FALSE
  <2>1. pending[slot] = [page |-> cur, size |-> s, filter |-> NoText]
    BY <1>2 DEF InitialState
  <2>2. pending[slot] \in Request
    BY <1>1, <2>1, PaginalListAssumption DEF Request, TypeOK
  <2>3. pending[slot] # None
    BY <2>2, PaginalListAssumption DEF Request, PageSizes
  <2> QED BY <2>3 DEF Idle
<1>3. bar = UpdatedBar(cur, total, size)
  <2>1. /\ UpdatedBar(cur, total, s).back = BackEnabled(cur)
        /\ UpdatedBar(cur, total, s).forth = ForthEnabled(cur, total)
    BY DEF UpdatedBar
  <2>2. BackEnabled(cur) \in BOOLEAN /\ ForthEnabled(cur, total) \in BOOLEAN
    BY DEF BackEnabled, ForthEnabled
  <2>3. bar = [UpdatedBar(cur, total, s) EXCEPT
                 !.back = BackEnabled(cur), !.forth = ForthEnabled(cur, total)]
    BY <1>2, <2>1, <2>2 DEF InitialState
  <2> QED BY <2>3 DEF InitialState, UpdatedBar
<1> QED BY <1>2, <1>3 DEF InitialState, IdleControlsAgree

LEMMA NextControls ==
  TypeOK /\ IdleControlsAgree /\ [Next]_vars => IdleControlsAgree'
<1> SUFFICES ASSUME TypeOK, IdleControlsAgree, [Next]_vars
             PROVE  IdleControlsAgree'
  OBVIOUS
<1> USE DEF IdleControlsAgree, Idle
<1>1. CASE Hold
  BY <1>1 DEF Hold
<1>2. ASSUME NEW slot \in Slots, Issue(slot) PROVE IdleControlsAgree'
  BY <1>2, IssuePending
<1>3. ASSUME NEW slot \in Slots, Success(slot) PROVE IdleControlsAgree'
  BY <1>3 DEF Success, LoadEnds, RenderData
<1>4. ASSUME NEW slot \in Slots, Failure(slot) PROVE IdleControlsAgree'
  BY <1>4 DEF Failure, LoadEnds
<1>5. ASSUME NEW slot \in Slots, LateSettlement(slot) PROVE IdleControlsAgree'
  BY <1>5 DEF LateSettlement
<1>6. ASSUME NEW text \in Texts, SearchKeyUp(text) PROVE IdleControlsAgree'
  BY <1>6 DEF SearchKeyUp
<1>7. CASE SearchTimerDrops
  BY <1>7 DEF SearchTimerDrops
<1>8. CASE ClearFilter
  BY <1>8 DEF ClearFilter
<1>9. CASE LoaderTimerFires
  BY <1>9 DEF LoaderTimerFires
<1>10. CASE PopulateData
  BY <1>10 DEF PopulateData
<1>11. CASE Destroy
  BY <1>11 DEF Destroy
<1> QED BY <1>1, <1>2, <1>3, <1>4, <1>5, <1>6, <1>7, <1>8, <1>9, <1>10, <1>11,
           StepCases

\* In every reachable state without a request in flight the search box, the
\* loader icon and the pager agree with the configuration, in whatever order
\* the responses arrived and however many of them failed.
THEOREM ControlsAgreeWhenIdle == Spec => []IdleControlsAgree
<1> QED BY InitControls, NextControls, TypeCorrect, PTL DEF Spec
-----------------------------------------------------------------------------
(* No typed text is lost.  The strengthening: while the search box is       *)
(* disabled its text has already been put into a request, so the timer may  *)
(* drop the search.                                                         *)

SearchedWhileOff == alive /\ searchOff => fv = input

SearchInv == NoSearchLost /\ SearchedWhileOff

LEMMA InitSearch == Init => SearchInv
BY DEF Init, InitialState, SearchInv, NoSearchLost, SearchedWhileOff

LEMMA NextSearch == TypeOK /\ SearchInv /\ [Next]_vars => SearchInv'
<1> SUFFICES ASSUME TypeOK, SearchInv, [Next]_vars PROVE SearchInv'
  OBVIOUS
<1> USE DEF SearchInv, NoSearchLost, SearchedWhileOff
<1>1. CASE Hold
  BY <1>1 DEF Hold
<1>2. ASSUME NEW slot \in Slots, Issue(slot) PROVE SearchInv'
  BY <1>2, IssuePending DEF Issue
<1>3. ASSUME NEW slot \in Slots, Success(slot) PROVE SearchInv'
  BY <1>3 DEF Success, LoadEnds, RenderData
<1>4. ASSUME NEW slot \in Slots, Failure(slot) PROVE SearchInv'
  BY <1>4 DEF Failure, LoadEnds
<1>5. ASSUME NEW slot \in Slots, LateSettlement(slot) PROVE SearchInv'
  BY <1>5 DEF LateSettlement
<1>6. ASSUME NEW text \in Texts, SearchKeyUp(text) PROVE SearchInv'
  BY <1>6 DEF SearchKeyUp
<1>7. CASE SearchTimerDrops
  BY <1>7 DEF SearchTimerDrops
<1>8. CASE ClearFilter
  BY <1>8 DEF ClearFilter
<1>9. CASE LoaderTimerFires
  BY <1>9 DEF LoaderTimerFires
<1>10. CASE PopulateData
  BY <1>10 DEF PopulateData
<1>11. CASE Destroy
  BY <1>11 DEF Destroy
<1> QED BY <1>1, <1>2, <1>3, <1>4, <1>5, <1>6, <1>7, <1>8, <1>9, <1>10, <1>11,
           StepCases

\* The text in the search box is always either waiting for the debounce timer
\* or already in a request's URL, although the timer drops searches.
THEOREM SearchNeverLost == Spec => []NoSearchLost
<1>1. Spec => []SearchInv
  BY InitSearch, NextSearch, TypeCorrect, PTL DEF Spec
<1>2. SearchInv => NoSearchLost
  BY DEF SearchInv
<1> QED BY <1>1, <1>2, PTL

-----------------------------------------------------------------------------
(* A list that shows the answer to the request issued last is coherent.     *)
(* The strengthening: the request issued last, while it is in flight,       *)
(* carries the configuration's filter and page size, so that its answer     *)
(* will fit them.                                                           *)

LatestFitsConfig ==
  alive =>
    /\ (fate = "pending") <=> (latest # None)
    /\ latest # None => /\ pending[latest] # None
                        /\ pending[latest].size = size
                        /\ pending[latest].filter = Effective(fv)

ShownFitsConfig ==
  alive /\ fate = "shown" =>
    /\ items # None
    /\ cur = Answer(items).page
    /\ total = Answer(items).pages
    /\ size = items.size
    /\ items.filter = Effective(fv)

FreshInv == LatestFitsConfig /\ ShownFitsConfig

LEMMA InitFresh == Init => FreshInv
<1> SUFFICES ASSUME NEW s \in HostSizes, NEW rendered \in BOOLEAN,
                    NEW slot \in Slots, InitialState(s, rendered, slot)
             PROVE  FreshInv
  BY DEF Init
<1> DEFINE autoLoad == ~rendered \/ Records[NoText] = 0
           first == [page |-> 1, size |-> s, filter |-> NoText]
<1>1. Effective(NoText) = NoText
  BY PaginalListAssumption DEF Effective
<1>2. slot # None /\ first # None
  BY PaginalListAssumption
<1>3. CASE autoLoad
  <2>1. latest = slot /\ fate = "pending" /\ size = s /\ fv = NoText
    BY <1>3 DEF InitialState
  <2>2. pending[slot] = [page |-> cur, size |-> s, filter |-> NoText]
    BY <1>3 DEF InitialState
  <2>3. pending[slot] # None
    BY <2>2, InitType, PaginalListAssumption DEF Init, TypeOK
  <2> QED BY <1>1, <1>2, <2>1, <2>2, <2>3
          DEF FreshInv, LatestFitsConfig, ShownFitsConfig
<1>4. CASE ~autoLoad
  <2>1. /\ latest = None /\ fate = "shown" /\ size = s /\ fv = NoText
        /\ items = first
        /\ cur = Answer(first).page /\ total = Answer(first).pages
    BY <1>4 DEF InitialState
  <2> QED BY <1>1, <1>2, <2>1 DEF FreshInv, LatestFitsConfig, ShownFitsConfig
<1> QED BY <1>3, <1>4

LEMMA NextFresh == TypeOK /\ FreshInv /\ [Next]_vars => FreshInv'
<1> SUFFICES ASSUME TypeOK, FreshInv, [Next]_vars PROVE FreshInv'
  OBVIOUS
<1> USE DEF FreshInv, LatestFitsConfig, ShownFitsConfig
<1>0. None \notin Slots
  BY PaginalListAssumption
<1>1. CASE Hold
  BY <1>1 DEF Hold
<1>2. ASSUME NEW slot \in Slots, Issue(slot) PROVE FreshInv'
  BY <1>0, <1>2, IssuePending
<1>3. ASSUME NEW slot \in Slots, Success(slot) PROVE FreshInv'
  <2> USE <1>3 DEF Success, LoadEnds, RenderData, Settled
  <2>1. /\ items' = pending[slot] /\ items' # None
        /\ cur' = Answer(items').page /\ total' = Answer(items').pages
        /\ size' = size /\ fv' = fv /\ alive /\ alive'
    OBVIOUS
  <2>2. CASE slot = latest
    <3>1. latest' = None /\ fate' = "shown"
      BY <2>2
    <3>2. items'.size = size' /\ items'.filter = Effective(fv')
      BY <1>0, <2>1, <2>2
    <3> QED BY <2>1, <3>1, <3>2
  <2>3. CASE slot # latest
    <3>1. latest' = latest /\ fate' # "shown"
      BY <2>3
    <3>2. (fate' = "pending") <=> (fate = "pending")
      BY <2>3
    <3>3. latest # None => pending'[latest] = pending[latest]
      BY <2>3 DEF TypeOK
    <3> QED BY <2>1, <3>1, <3>2, <3>3
  <2> QED BY <2>2, <2>3
<1>4. ASSUME NEW slot \in Slots, Failure(slot) PROVE FreshInv'
  <2> USE <1>4 DEF Failure, LoadEnds, Settled
  <2>1. CASE slot = latest
    BY <2>1
  <2>2. CASE slot # latest
    <3>1. latest # None => pending'[latest] = pending[latest]
      BY <2>2 DEF TypeOK
    <3> QED BY <2>2, <3>1
  <2> QED BY <2>1, <2>2
<1>5. ASSUME NEW slot \in Slots, LateSettlement(slot) PROVE FreshInv'
  BY <1>5 DEF LateSettlement
<1>6. ASSUME NEW text \in Texts, SearchKeyUp(text) PROVE FreshInv'
  BY <1>6 DEF SearchKeyUp
<1>7. CASE SearchTimerDrops
  BY <1>7 DEF SearchTimerDrops
<1>8. CASE ClearFilter
  BY <1>8 DEF ClearFilter
<1>9. CASE LoaderTimerFires
  BY <1>9 DEF LoaderTimerFires
<1>10. CASE PopulateData
  BY <1>10 DEF PopulateData
<1>11. CASE Destroy
  BY <1>11 DEF Destroy
<1> QED BY <1>1, <1>2, <1>3, <1>4, <1>5, <1>6, <1>7, <1>8, <1>9, <1>10, <1>11,
           StepCases

\* Whenever the request issued last was answered and nothing came after it,
\* items, page number, page count, page size and search text belong together.
THEOREM FreshPageCoherent == Spec => []FreshPageIsCoherent
<1>1. Spec => []FreshInv
  BY InitFresh, NextFresh, TypeCorrect, PTL DEF Spec
<1>2. FreshInv /\ NoSearchLost => FreshPageIsCoherent
  BY DEF FreshInv, ShownFitsConfig, NoSearchLost, FreshPageIsCoherent
<1> QED BY <1>1, <1>2, SearchNeverLost, PTL

-----------------------------------------------------------------------------
(* Requests pass the server's validation.                                   *)

LEMMA InitValid == Records[NoText] # 0 /\ Init => RequestsValidPage
<1> SUFFICES ASSUME Records[NoText] # 0,
                    NEW s \in HostSizes, NEW rendered \in BOOLEAN,
                    NEW slot \in Slots, InitialState(s, rendered, slot),
                    NEW x \in Slots, pending[x] # None
             PROVE  ValidQuery(pending[x].size, pending[x].page)
  BY DEF Init, RequestsValidPage
<1>1. x = slot /\ ~rendered
  BY DEF InitialState
<1>2. pending[x].size = s /\ pending[x].page = 1
  BY <1>1 DEF InitialState
<1> QED BY <1>2, SizesType DEF ValidQuery, PageSizeNoPagging, MaxPageSize, PageSizes

LEMMA NextValid == TypeOK /\ RequestsValidPage /\ [Next]_vars => RequestsValidPage'
<1> SUFFICES ASSUME TypeOK, RequestsValidPage, [Next]_vars
             PROVE  RequestsValidPage'
  OBVIOUS
<1>1. ASSUME NEW slot \in Slots, Issue(slot) PROVE RequestsValidPage'
  <2>1. size' \in PageSizes
    BY <1>1 DEF Issue
  <2>2. pending'[slot].size = size' /\ pending'[slot].page \in Nat \ {0}
    BY <1>1, IssuePending
  <2>3. \A z \in PageSizes, p \in Nat \ {0} : ValidQuery(z, p)
    BY SizesType DEF ValidQuery, PageSizeNoPagging, MaxPageSize
  <2>4. ValidQuery(pending'[slot].size, pending'[slot].page)
    BY <2>1, <2>2, <2>3
  <2> QED BY <1>1, <2>4, IssuePending DEF RequestsValidPage
<1>2. ASSUME NEW slot \in Slots, Settled(slot) PROVE RequestsValidPage'
  BY <1>2 DEF Settled, RequestsValidPage, TypeOK
<1>3. ASSUME UNCHANGED pending PROVE RequestsValidPage'
  BY <1>3 DEF RequestsValidPage
<1> QED
  BY <1>1, <1>2, <1>3, StepCases
  DEF Hold, Success, Failure, LateSettlement, SearchKeyUp, SearchTimerDrops,
      ClearFilter, LoaderTimerFires, PopulateData, Destroy

\* If there is anything to list at all, no request is refused by the query
\* validation, even after searches that found nothing.
THEOREM RequestsAccepted ==
  Records[NoText] # 0 => (Spec => []RequestsValidPage)
<1> QED BY InitValid, NextValid, TypeCorrect, PTL DEF Spec

-----------------------------------------------------------------------------
(* The rows on the screen: inductive as it stands, given the types.  A page *)
(* that arrives during a fade-out is put up by the callback at its end,     *)
(* which reads the items the configuration has then.                        *)

LEMMA NextRendered == TypeOK /\ RenderedIsConfigured /\ [Next]_vars => RenderedIsConfigured'
<1> SUFFICES ASSUME TypeOK, RenderedIsConfigured, [Next]_vars
             PROVE  RenderedIsConfigured'
  OBVIOUS
<1>1. ASSUME NEW slot \in Slots, Success(slot) PROVE RenderedIsConfigured'
  BY <1>1 DEF Success, RenderData, RenderedIsConfigured
<1>2. ASSUME NEW slot \in Slots, Failure(slot) \/ LateSettlement(slot)
      PROVE  RenderedIsConfigured'
  BY <1>2 DEF Failure, LateSettlement, config, timers, RenderedIsConfigured
<1> QED
  BY <1>1, <1>2, StepCases
  DEF Hold, Issue, SearchKeyUp, SearchTimerDrops, ClearFilter, LoaderTimerFires,
      PopulateData, Destroy, config, timers, RenderedIsConfigured

\* Outside of a fade-out the rows are the configuration's items, in whatever
\* order pages arrive, fade and replace each other.
THEOREM RowsAreItems == Spec => []RenderedIsConfigured
<1>1. Init => RenderedIsConfigured
  BY DEF Init, InitialState, RenderedIsConfigured
<1> QED BY <1>1, NextRendered, TypeCorrect, PTL DEF Spec

-----------------------------------------------------------------------------
(* The list implements PageRequests.                                        *)

LEMMA InitRefines == Init => Pages!Init
<1> SUFFICES ASSUME Init PROVE Pages!Init
  OBVIOUS
<1>1. alive /\ dom \in {items, None}
  BY DEF Init, InitialState
<1>2. TypeOK
  BY InitType
<1>3. Effective(input) \in Texts
  BY <1>2, EffectiveType DEF TypeOK
<1> QED BY <1>1, <1>2, <1>3 DEF Pages!Init, TypeOK

LEMMA NextRefines == TypeOK /\ [Next]_vars => [Pages!Next]_(Pages!vars)
<1> SUFFICES ASSUME TypeOK, [Next]_vars
             PROVE  \/ Pages!Next
                    \/ UNCHANGED <<Effective(input), pending, items, dom, ~alive>>
  BY DEF Pages!vars
<1>1. ASSUME NEW slot \in Slots, Issue(slot) PROVE Pages!Ask(slot)
  <2>1. /\ alive /\ pending[slot] = None
        /\ UNCHANGED <<input, items, dom, alive>>
    BY <1>1 DEF Issue
  <2>2. pending'[slot] \in Request
    BY <1>1, IssuePending
  <2>3. pending'[slot].filter = Effective(input)
    BY <1>1, IssuePending, <2>1 DEF Effective
  <2>4. pending' = [pending EXCEPT ![slot] = pending'[slot]]
    BY <1>1 DEF Issue, LoadPage, TypeOK
  <2>5. UNCHANGED Effective(input)
    BY <2>1 DEF Effective
  <2> QED BY <2>1, <2>2, <2>3, <2>4, <2>5 DEF Pages!Ask
<1>2. ASSUME NEW slot \in Slots, Success(slot) PROVE Pages!Take(slot)
  <2>1. dom' \in {dom, items'}
    BY <1>2 DEF Success, RenderData
  <2>2. UNCHANGED <<Effective(input), alive>>
    BY <1>2 DEF Success, Effective
  <2>3. alive /\ Pages!Answered(slot) /\ items' = pending[slot]
    BY <1>2 DEF Success, Settled, Pages!Answered
  <2> QED BY <2>1, <2>2, <2>3 DEF Pages!Take
<1>3. ASSUME NEW slot \in Slots, Failure(slot) \/ LateSettlement(slot)
      PROVE  Pages!GiveUp(slot)
  <2>1. Pages!Answered(slot)
    BY <1>3 DEF Failure, LateSettlement, Settled, Pages!Answered
  <2>2. UNCHANGED <<Effective(input), items, dom, alive>>
    BY <1>3 DEF Failure, LateSettlement, Effective
  <2> QED BY <2>1, <2>2 DEF Pages!GiveUp
<1>4. Destroy => Pages!Close
  BY DEF Destroy, Effective, Pages!Close
<1>5. PopulateData => Pages!Show
  BY DEF PopulateData, Effective, Pages!Show
<1>6. ASSUME \/ ClearFilter
             \/ \E typed \in Texts : SearchKeyUp(typed)
      PROVE  Pages!Type
  <2>1. input' \in Texts /\ alive
    BY <1>6, PaginalListAssumption DEF ClearFilter, SearchKeyUp
  <2>2. Effective(input') \in Texts
    BY <2>1, EffectiveType
  <2>3. UNCHANGED <<pending, items, dom, alive>>
    BY <1>6 DEF ClearFilter, SearchKeyUp
  <2>4. Effective(input)' = Effective(input')
    BY DEF Effective
  <2> QED BY <2>1, <2>2, <2>3, <2>4 DEF Pages!Type
<1>7. (Hold \/ SearchTimerDrops \/ LoaderTimerFires)
      => UNCHANGED <<Effective(input), pending, items, dom, ~alive>>
  BY DEF Hold, SearchTimerDrops, LoaderTimerFires, Effective
<1> QED BY <1>1, <1>2, <1>3, <1>4, <1>5, <1>6, <1>7, StepCases DEF Pages!Next

\* The list keeps the promise of PageRequests: it asks for the text typed then,
\* its items are only ever the answer to a request in flight, each answered at
\* most once, its rows become those of the page taken over last and of no older
\* one, and after destroy() nothing is requested, taken or shown.
THEOREM Refinement == Spec => ImplementsPageRequests
<1> QED BY InitRefines, NextRefines, TypeCorrect, PTL
        DEF Spec, Pages!Spec, ImplementsPageRequests
=============================================================================
