---------------------------- MODULE PaginalList ----------------------------
(***************************************************************************)
(* The asynchronous half of the paginal_list jQuery plugin with paging     *)
(* switched on: the pager, the debounced search box, the page-number       *)
(* toolbox, the XHRs in flight, the loader icon and the fade animation.    *)
(*                                                                         *)
(* The browser is single-threaded: every handler runs to completion and is *)
(* one action.  What interleaves are the handlers: clicks, key strokes,    *)
(* expiring timers, and responses that settle in any order or fail.        *)
(*                                                                         *)
(* A page of items is represented by the request it answers: the server is *)
(* a function of the request (module Paging), so the request says          *)
(* everything the properties need to know of the data.                     *)
(***************************************************************************)
EXTENDS Paging

CONSTANTS
  Texts,             \* what the search box may hold, already trimmed
  NoText,            \* the empty search box
  Searchable,        \* the texts of at least minFilterSize characters
  Records,           \* Records[t]: how many records match filter t
  Sizes,             \* page sizes the toolbox slider offers
  HostSizes,         \* page sizes the host page configures the list with
  HostPages,         \* pages the host page may pass to loadPage()
  MarkupMax,         \* the toolbox slider's max attribute in the markup
  Slots,             \* XHR objects: bounds the requests in flight
  EnableLoaderIcon,  \* options.enableLoaderIcon
  UseAnimation,      \* options.useAnimation
  None               \* no request, no items, no slot

ASSUME PaginalListAssumption ==
  /\ NoText \in Texts
  /\ Searchable \subseteq Texts \ {NoText}
  /\ Records \in [Texts -> Nat]
  /\ Sizes \subseteq 1 .. MaxPageSize
  /\ HostSizes \subseteq 1 .. MaxPageSize
  /\ HostPages \subseteq Nat \ {0}
  /\ MarkupMax \in Nat \ {0}
  /\ EnableLoaderIcon \in BOOLEAN
  /\ UseAnimation \in BOOLEAN
  /\ None \notin Slots
  /\ None \notin [page : Nat, size : Sizes \cup HostSizes, filter : Texts]

VARIABLES
  \* _config
  cur,          \* pagging.currentPageNumber
  total,        \* pagging.totalPages
  size,         \* pagging.pageSize
  fv,           \* filtering.filterValue
  items,        \* items, as the request they answer
  \* the DOM
  input,        \* text in the search box
  searchOff,    \* the search box has the disabled attribute
  bar,          \* the pager bar: its two pairs of buttons and its title
  dom,          \* the items rendered in the list
  loaderShown,  \* the loader icon is in the DOM
  toolbox,      \* the toolbox: is it open, and its two range controls
  \* what the browser has scheduled
  pending,      \* the XHRs in flight
  searchTimer,  \* _searchTimer is armed
  loaderTimer,  \* _loaderIconTimer is armed
  fading,       \* a fade-out whose end will populate the list is running
  alive,        \* the plugin has not been destroyed
  \* history, read by no action
  latest,       \* the slot of the request issued last, while it is in flight
                \* and the host page has not cleared the filter since
  fate          \* what became of the request issued last

config == <<cur, total, size, fv, items>>
timers == <<searchTimer, loaderTimer, fading>>
history == <<latest, fate>>
vars == <<cur, total, size, fv, items, input, searchOff, bar, dom,
          loaderShown, toolbox, pending, searchTimer, loaderTimer, fading,
          alive, latest, fate>>

PageSizes == Sizes \cup HostSizes

Request == [page : Nat, size : PageSizes, filter : Texts]

Bars ==
  [back : BOOLEAN, forth : BOOLEAN, page : Nat, pages : Nat, size : PageSizes]

Toolboxes == [open : BOOLEAN, page : Nat, max : Nat, size : PageSizes]

Fates == {"pending", "shown", "overwritten", "failed", "cleared"}

TypeOK ==
  /\ cur \in Nat
  /\ total \in Nat
  /\ size \in PageSizes
  /\ fv \in Texts
  /\ items \in Request \cup {None}
  /\ input \in Texts
  /\ searchOff \in BOOLEAN
  /\ bar \in Bars
  /\ dom \in Request \cup {None}
  /\ loaderShown \in BOOLEAN
  /\ toolbox \in Toolboxes
  /\ pending \in [Slots -> Request \cup {None}]
  /\ searchTimer \in BOOLEAN
  /\ loaderTimer \in BOOLEAN
  /\ fading \in BOOLEAN
  /\ alive \in BOOLEAN
  /\ latest \in Slots \cup {None}
  /\ fate \in Fates

-----------------------------------------------------------------------------
(* The server, as far as the client can tell.                              *)

\* A text shorter than minFilterSize is not sent: `actual` of _updateSearchValue.
Effective(text) == IF text \in Searchable THEN text ELSE NoText

\* PageData: the page number and page count of the response to request r.
Answer(r) ==
  [page  |-> CalculateAcquiredPageNumber(Records[r.filter], r.size, r.page),
   pages |-> CalculateTotalPages(Records[r.filter], r.size)]

-----------------------------------------------------------------------------
(* Pieces the handlers share.                                              *)

\* Slip: enabled unless on page 1, so also on the page 0 of an empty answer.
BackEnabledSlip(c) == c # 1

\* _getPageActionEnabled for first/prev and for next/last.
BackEnabled(c) == c > 1

ForthEnabled(c, t) == t > 1 /\ c < t

\* _updatePaggingControls
UpdatedBar(c, t, s) ==
  [back |-> BackEnabled(c), forth |-> ForthEnabled(c, t),
   page |-> c, pages |-> t, size |-> s]

\* _disableAllControls(true, ...): the title keeps its text.
DisabledBar == [bar EXCEPT !.back = FALSE, !.forth = FALSE]

\* A range control never holds a value outside its min and max attributes;
\* its min is set to Math.min(1, totalPages).
Clamp(v, max) == AtLeast(AtMost(1, max), AtMost(max, v))

Distance(a, b) == IF a >= b THEN a - b ELSE b - a

\* Nor one between two of its steps: the size slider takes the value nearest
\* to v, and of two that are equally near the greater one.
SliderTakes(s, v) ==
  \A z \in Sizes : \/ Distance(s, v) < Distance(z, v)
                   \/ Distance(s, v) = Distance(z, v) /\ z <= s

\* Slips: the URL built before the search text is stored, or before the page
\* size is.
BuildPageUrlStaleFilter(page, s) ==
  [page |-> page, size |-> s, filter |-> Effective(fv)]

BuildPageUrlStaleSize(page, s) ==
  [page |-> page, size |-> size, filter |-> Effective(input)]

\* _buildPageUrl
BuildPageUrl(page, s) ==
  [page |-> page, size |-> s, filter |-> Effective(input)]

\* Slip: the box's text is stored by searches only, not by the pager's loads,
\* which disable the box.
LoadPageTextOfSearches(slot, page, s, showLoader) ==
  LET shl == showLoader /\ EnableLoaderIcon
  IN /\ pending[slot] = None
     /\ fv' = IF showLoader THEN fv ELSE input
     /\ pending' = [pending EXCEPT ![slot] = BuildPageUrl(page, s)]
     /\ bar' = DisabledBar
     /\ searchOff' = (searchOff \/ shl)
     /\ loaderTimer' = (loaderTimer \/ shl)
     /\ latest' = slot
     /\ fate' = "pending"

\* _loadPage(page, showLoader) with page size s, through $.ajax in a free slot:
\* the URL takes the search box's text (and stores it in the config), then
\* beforeSend disables the controls.
LoadPage(slot, page, s, showLoader) ==
  LET shl == showLoader /\ EnableLoaderIcon
  IN /\ pending[slot] = None
     /\ fv' = input
     /\ pending' = [pending EXCEPT ![slot] = BuildPageUrl(page, s)]
     /\ bar' = DisabledBar
     /\ searchOff' = (searchOff \/ shl)
     /\ loaderTimer' = (loaderTimer \/ shl)
     /\ latest' = slot
     /\ fate' = "pending"

\* Slip: the icon is removed, its timer is not.
LoadEndsTimerKept(c, t) ==
  /\ searchOff' = FALSE
  /\ bar' = UpdatedBar(c, t, size)
  /\ UNCHANGED loaderTimer
  /\ loaderShown' = FALSE

\* Slip: the search box is not enabled again.
LoadEndsBoxKept(c, t) ==
  /\ UNCHANGED searchOff
  /\ bar' = UpdatedBar(c, t, size)
  /\ loaderTimer' = FALSE
  /\ loaderShown' = FALSE

\* What complete and both callbacks after it do: _showLoader(false),
\* _disableAllControls(false), _updatePaggingControls().
LoadEnds(c, t) ==
  /\ searchOff' = FALSE
  /\ bar' = UpdatedBar(c, t, size)
  /\ loaderTimer' = FALSE
  /\ loaderShown' = FALSE

\* Slip: the rows stay.
RenderDataKept == UNCHANGED <<dom, fading>>

\* _renderData, of the items just taken: at once, or when the fade-out ends.
RenderData ==
  IF UseAnimation
  THEN fading' = TRUE /\ UNCHANGED dom
  ELSE dom' = items' /\ UNCHANGED fading

-----------------------------------------------------------------------------
(* _init: the server has either rendered the first page into the           *)
(* configuration or left the configuration without items; a list without   *)
(* items requests its current page at once (autoLoadPageAtInit).           *)

InitialState(s, rendered, slot) ==
  LET first == [page |-> 1, size |-> s, filter |-> NoText]
      autoLoad == ~rendered \/ Records[NoText] = 0
  IN /\ cur = IF rendered THEN Answer(first).page ELSE 1
     /\ total = IF rendered THEN Answer(first).pages ELSE 1
     /\ size = s
     /\ fv = NoText
     /\ items = IF rendered THEN first ELSE None
     /\ input = NoText
     /\ searchOff = (autoLoad /\ EnableLoaderIcon)
     /\ bar = [UpdatedBar(cur, total, s) EXCEPT
                 !.back = @ /\ ~autoLoad, !.forth = @ /\ ~autoLoad]
     /\ dom = IF UseAnimation THEN None ELSE items
     /\ loaderShown = FALSE
     /\ toolbox = [open |-> FALSE, page |-> 1, max |-> MarkupMax, size |-> s]
     /\ pending = [x \in Slots |->
                     IF autoLoad /\ x = slot THEN [first EXCEPT !.page = cur]
                     ELSE None]
     /\ searchTimer = FALSE
     /\ loaderTimer = (autoLoad /\ EnableLoaderIcon)
     /\ fading = UseAnimation
     /\ alive = TRUE
     /\ latest = IF autoLoad THEN slot ELSE None
     /\ fate = IF autoLoad THEN "pending" ELSE "shown"

Init ==
  \E s \in HostSizes, rendered \in BOOLEAN, slot \in Slots :
    InitialState(s, rendered, slot)

-----------------------------------------------------------------------------
(* The pager.  The buttons are anchors: neither their disabled attribute   *)
(* nor their look stops a click, only _getPageActionEnabled does.          *)

PageFirst(slot) ==
  /\ alive
  /\ BackEnabled(cur)
  /\ LoadPage(slot, 1, size, TRUE)
  /\ UNCHANGED <<cur, total, size, items, input, dom, loaderShown, toolbox,
                 searchTimer, fading, alive>>

PagePrev(slot) ==
  /\ alive
  /\ BackEnabled(cur)
  /\ LoadPage(slot, cur - 1, size, TRUE)
  /\ UNCHANGED <<cur, total, size, items, input, dom, loaderShown, toolbox,
                 searchTimer, fading, alive>>

PageNext(slot) ==
  /\ alive
  /\ ForthEnabled(cur, total)
  /\ LoadPage(slot, cur + 1, size, TRUE)
  /\ UNCHANGED <<cur, total, size, items, input, dom, loaderShown, toolbox,
                 searchTimer, fading, alive>>

PageLast(slot) ==
  /\ alive
  /\ ForthEnabled(cur, total)
  /\ LoadPage(slot, total, size, TRUE)
  /\ UNCHANGED <<cur, total, size, items, input, dom, loaderShown, toolbox,
                 searchTimer, fading, alive>>

\* loadPage(pageNumber), called by the host page.
HostLoadPage(slot, page) ==
  /\ alive
  /\ LoadPage(slot, page, size, TRUE)
  /\ UNCHANGED <<cur, total, size, items, input, dom, loaderShown, toolbox,
                 searchTimer, fading, alive>>

-----------------------------------------------------------------------------
(* The search box.                                                         *)

\* A key stroke and its keyup: _searchKeyUp restarts the debounce timer.
SearchKeyUp(text) ==
  /\ alive
  /\ ~searchOff
  /\ input' = text
  /\ searchTimer' = TRUE
  /\ UNCHANGED <<config, searchOff, bar, dom, loaderShown, toolbox, pending,
                 loaderTimer, fading, alive, history>>

\* The debounce timer expires and the text is new: search from page 1.
SearchTimerLoads(slot) ==
  /\ searchTimer
  /\ alive
  /\ ~searchOff
  /\ fv # input
  /\ searchTimer' = FALSE
  /\ LoadPage(slot, 1, size, FALSE)
  /\ UNCHANGED <<cur, total, size, items, input, dom, loaderShown, toolbox,
                 fading, alive>>

\* The timer expires without a configuration, with the box disabled or with
\* nothing new: no search, and the timer is not armed again.
SearchTimerDrops ==
  /\ searchTimer
  /\ ~alive \/ searchOff \/ fv = input
  /\ searchTimer' = FALSE
  /\ UNCHANGED <<config, input, searchOff, bar, dom, loaderShown, toolbox,
                 pending, loaderTimer, fading, alive, history>>

\* clearFilter(), called by the host page: reloads nothing.
ClearFilter ==
  /\ alive
  /\ input' = NoText
  /\ fv' = NoText
  /\ latest' = None
  /\ fate' = "cleared"
  /\ UNCHANGED <<cur, total, size, items, searchOff, bar, dom, loaderShown,
                 toolbox, pending, timers, alive>>

-----------------------------------------------------------------------------
(* The toolbox.                                                            *)

\* tb-opened: the page slider gets its value before its new bounds, the size
\* slider the one of its values that is nearest to the page size.
TbOpened ==
  /\ alive
  /\ ~toolbox.open
  /\ \E s \in Sizes :
       /\ SliderTakes(s, size)
       /\ toolbox' = [open |-> TRUE, max |-> total, size |-> s,
                      page |-> Clamp(Clamp(cur, toolbox.max), total)]
  /\ UNCHANGED <<config, input, searchOff, bar, dom, loaderShown, pending,
                 timers, alive, history>>

\* The user moves a slider (or types a page number, which moves it).
MoveSlider ==
  /\ alive
  /\ toolbox.open
  /\ \/ \E p \in AtMost(1, toolbox.max) .. toolbox.max :
          toolbox' = [toolbox EXCEPT !.page = p]
     \/ \E s \in Sizes : toolbox' = [toolbox EXCEPT !.size = s]
  /\ UNCHANGED <<config, input, searchOff, bar, dom, loaderShown, pending,
                 timers, alive, history>>

\* tb-closed without OK.
TbCancelled ==
  /\ alive
  /\ toolbox.open
  /\ toolbox' = [toolbox EXCEPT !.open = FALSE]
  /\ UNCHANGED <<config, input, searchOff, bar, dom, loaderShown, pending,
                 timers, alive, history>>

\* Slip: the slider's value as it is.
ChosenPageAsIs == toolbox.page

\* _exchangePaggingParams(false): parseInt(...) || 1 of the page slider.
ChosenPage == IF toolbox.page = 0 THEN 1 ELSE toolbox.page

\* tb-closed with OK: the configuration takes the controls' values at once,
\* and the page is requested if that changed them.
TbClosed(slot) ==
  /\ alive
  /\ toolbox.open
  /\ toolbox' = [toolbox EXCEPT !.open = FALSE]
  /\ cur' = ChosenPage
  /\ size' = toolbox.size
  /\ IF cur' # cur \/ size' # size
     THEN LoadPage(slot, cur', size', TRUE)
     ELSE UNCHANGED <<fv, pending, bar, searchOff, loaderTimer, history>>
  /\ UNCHANGED <<total, items, input, dom, loaderShown, searchTimer, fading,
                 alive>>

-----------------------------------------------------------------------------
(* Responses, in any order.  complete runs before success and failure.     *)

Settled(slot) ==
  /\ pending[slot] # None
  /\ pending' = [pending EXCEPT ![slot] = None]
  /\ latest' = IF slot = latest THEN None ELSE latest

\* complete, success
Success(slot) ==
  /\ alive
  /\ Settled(slot)
  /\ ValidQuery(pending[slot].size, pending[slot].page)
  /\ items' = pending[slot]
  /\ cur' = Answer(items').page
  /\ total' = Answer(items').pages
  /\ RenderData
  /\ LoadEnds(cur', total')
  /\ fate' = IF slot = latest THEN "shown"
             ELSE IF fate = "shown" THEN "overwritten" ELSE fate
  /\ UNCHANGED <<size, fv, input, toolbox, searchTimer, alive>>

\* complete, failure
Failure(slot) ==
  /\ alive
  /\ Settled(slot)
  /\ LoadEnds(cur, total)
  /\ fate' = IF slot = latest THEN "failed" ELSE fate
  /\ UNCHANGED <<config, input, dom, toolbox, searchTimer, fading, alive>>

\* Slip: destroy() has left the list its element and its configuration, so the
\* answer is taken over as usual.
LateSettlementTaken(slot) ==
  /\ ~alive
  /\ Settled(slot)
  /\ items' = pending[slot]
  /\ cur' = Answer(items').page
  /\ total' = Answer(items').pages
  /\ RenderData
  /\ LoadEnds(cur', total')
  /\ UNCHANGED <<size, fv, input, toolbox, searchTimer, alive, fate>>

\* A request that outlives the plugin: complete dereferences the null $element
\* and throws, so neither success nor failure runs.
LateSettlement(slot) ==
  /\ ~alive
  /\ Settled(slot)
  /\ UNCHANGED <<config, input, searchOff, bar, dom, loaderShown, toolbox,
                 timers, alive, fate>>

-----------------------------------------------------------------------------
(* Timers and the life cycle.                                              *)

LoaderTimerFires ==
  /\ loaderTimer
  /\ loaderTimer' = FALSE
  /\ loaderShown' = TRUE
  /\ UNCHANGED <<config, input, searchOff, bar, dom, toolbox, pending,
                 searchTimer, fading, alive, history>>

\* The fade-out ends: populateData empties the list and renders the items the
\* configuration holds now; after destroy() it throws on the null _config,
\* with the list already emptied.
PopulateData ==
  /\ fading
  /\ fading' = FALSE
  /\ dom' = IF alive THEN items ELSE None
  /\ UNCHANGED <<config, input, searchOff, bar, loaderShown, toolbox, pending,
                 searchTimer, loaderTimer, alive, history>>

\* destroy(): two timers are cleared, the requests in flight are not aborted
\* and the animation is not stopped.
Destroy ==
  /\ alive
  /\ alive' = FALSE
  /\ searchTimer' = FALSE
  /\ loaderTimer' = FALSE
  /\ UNCHANGED <<config, input, searchOff, bar, dom, loaderShown, toolbox,
                 pending, fading, history>>

-----------------------------------------------------------------------------

\* What the user and the host page do.
Acts(slot) ==
  \/ PageFirst(slot) \/ PagePrev(slot) \/ PageNext(slot) \/ PageLast(slot)
  \/ TbClosed(slot)
  \/ \E p \in HostPages : HostLoadPage(slot, p)

ActsAlone ==
  \/ \E t \in Texts : SearchKeyUp(t)
  \/ ClearFilter \/ TbOpened \/ MoveSlider \/ TbCancelled \/ Destroy

\* What the browser does on its own.
Settles(slot) == Success(slot) \/ Failure(slot) \/ LateSettlement(slot)

SearchTimerFires == SearchTimerDrops \/ \E slot \in Slots : SearchTimerLoads(slot)

Next ==
  \/ \E slot \in Slots : Acts(slot) \/ Settles(slot)
  \/ ActsAlone
  \/ SearchTimerFires
  \/ LoaderTimerFires
  \/ PopulateData

Spec == Init /\ [][Next]_vars

\* Timers expire, animations end, and every XHR ends somehow: it answers,
\* fails, or is ended by the browser's timeout.  The user owes nothing.
Fairness ==
  /\ \A slot \in Slots : WF_vars(Settles(slot))
  /\ WF_vars(SearchTimerFires)
  /\ WF_vars(LoaderTimerFires)
  /\ WF_vars(PopulateData)

FairSpec == Spec /\ Fairness

-----------------------------------------------------------------------------
(* Properties.                                                             *)

Idle == \A slot \in Slots : pending[slot] = None

\* Whatever the order in which the responses arrived, and whether they
\* succeeded, once no request is in flight the search box is usable, no loader
\* icon is shown or about to be, and the pager's buttons and title are those
\* of the configuration the next click will use.
IdleControlsAgree ==
  alive /\ Idle =>
    /\ ~searchOff
    /\ ~loaderTimer
    /\ ~loaderShown
    /\ bar = UpdatedBar(cur, total, size)

\* No typed text is forgotten: either the debounce timer still runs or the
\* text has been put into a request's URL, even when the timer found the
\* search box disabled and dropped the search.
NoSearchLost == alive => searchTimer \/ fv = input

\* If the request issued last was answered and no older response came after
\* it, the list's items, the page number, the page size and the search text
\* belong together.
FreshPageIsCoherent ==
  alive /\ fate = "shown" =>
    /\ items # None
    /\ cur = Answer(items).page
    /\ total = Answer(items).pages
    /\ size = items.size
    /\ searchTimer \/ items.filter = Effective(input)

\* No request asks for a page the server's query validation refuses ("PageNumber
\* should be greater, than 0."), whatever the toolbox's slider holds after a
\* search that found nothing.
RequestsValidPage ==
  \A slot \in Slots :
    pending[slot] # None => ValidQuery(pending[slot].size, pending[slot].page)

\* The list shows "filtered data ... as user types a search string": once the
\* typed text has been searched for, every request has been answered and the
\* one issued last succeeded, the items are those of the typed text.
FilteredAsTyped ==
  alive /\ Idle /\ ~searchTimer /\ fate \in {"shown", "overwritten"} =>
    items # None /\ items.filter = Effective(input)

\* Outside the fade-out the rendered rows are the configuration's items, so a
\* row's index means the same item in both.
RenderedIsConfigured == alive /\ ~fading => dom = items

\* The list keeps the promise of an asynchronous paged list.
Pages == INSTANCE PageRequests WITH
  Requests <- Request, text <- Effective(input), outstanding <- pending,
  taken <- items, rows <- dom, closed <- ~alive

\* Every request asks for the text typed when it is made; items come only from
\* requests in flight, each answered at most once; the rows become those of
\* the page taken over last, at once or when a fade-out ends, and never those
\* of an older one; and a destroyed list requests nothing, takes no late answer
\* and puts no rows on the screen.
ImplementsPageRequests == Pages!Spec

\* The controls are consistent, nothing is scheduled, the text was searched
\* for and the items are on the screen.
Quiescent ==
  /\ Idle
  /\ ~searchTimer /\ ~loaderTimer /\ ~fading
  /\ alive => /\ fv = input /\ dom = items
              /\ ~searchOff /\ ~loaderShown

UserAction == ActsAlone \/ \E slot \in Slots : Acts(slot)

\* When the user and the host page stop acting, the list comes to rest with
\* everything it still had to do done.
ComesToRest == <>[][~UserAction]_vars => <>[]Quiescent

=============================================================================
