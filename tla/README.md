# Verification of ClientPagerProto

This directory holds a TLA+ development of the paged, incrementally searched
list and of the query/command foundation behind it: modules, TLC
configurations, and proofs checked by TLAPS. Paths below are relative to the
repository; `src/` stands for its source directory.

## 1. Inventory

| Component | State | Operations | Interacts with |
|---|---|---|---|
| `paginal_list` plugin (`customScripts/paginal-list-plugin.js`) | `_config` (items, page number, page count, page size, filter value), DOM (search box, pager, rows, loader icon), timers, XHRs in flight | page first/prev/next/last, `loadPage`, search key strokes, `clearFilter`, toolbox OK, answers, `destroy` | page service by XHR; `toolbox_mgr` by events; host page by calls and `pl-changed` |
| its selection half (same file) | `items[i].selected`, CSS class of the rows, anchor indices, autoscroll timer | mouse down/enter/up, arrows, space, Ctrl+A, `select`, `unselect` | rows rendered by the paging half |
| `paginal_list_option` plugin | the same, over the options of a native `select`, whose selection the browser keeps | change events, drags, Ctrl+A, `select`, `unselect` | the same |
| `toolbox_mgr` plugin | open or closed, document handlers in one namespace for all instances | open, close, clicks outside, keys, `destroy` | host plugin by `tb-opened`, `tb-closed`; other instances through the document |
| page service (`DemoListController`, `PagedListConfigModel`, `PagedListDataProviderBase`, `CategoryListPagedProvider`) | none between requests | build query, fetch page, add static items, merge into the model | query handlers |
| page arithmetic (`QueryHandlerPaggedLinqBase`, `LinqProvider`, `QueryPaggedBase`) | none | total pages, acquired page, Skip/Take, validation ranges | data source |
| data context managers (`DataContextMgrBase` and the three SQL ones, `ObjectDbContextMgr`) | `_context`, `_tran`, `_disposed`, lock | `EnsureCreated`, `BeginTran`, `CommitTran`, `RollbackTran`, `SubmitUnitOfWork`, `Dispose` | handlers, from several threads |
| command decorators | none of their own; the wrapped handler's context | validate, retry on deadlock, transaction on the context, transaction scope | context managers |
| query cache (`CacheQueryHandlerDecorator`, `MemCache`) | cached results by `CacheKey`, expiration | look up, compute under lock, store | query handlers |
| filter/sort/full-text translation | tokenizer state | build expressions or SQL | data source |

Hard behaviours: answers that arrive in any order or not at all; timers that
race answers; a fade-out during which rows and items differ; `destroy` with
work outstanding, and with document handlers of other lists; contexts created
and disposed by different threads; retries that run on a context changed by the
attempt before; a cache looked up outside its lock; unchecked arithmetic; texts
whose meaning changes with the order of the steps that clean them.

What makes each part correct:

* paging half: once nothing is in flight the controls agree with the
  configuration; typed text is always searched for; page, page count, size,
  filter and items belong together; no request is refused; it comes to rest;
* selection half, of both plugins: the selection shown and the items agree, the
  host page is told of every change, exclusive items stay alone, hidden items
  stay as they are;
* several lists on a page: a drag ends with the button, one toolbox is shown;
* page service: the page served exists, contains the records it should and is
  the one it says it is; `[All]` is there once;
* context managers: one owner per connection, none forgotten, no call left
  hanging, null only after `Dispose`;
* decorators: what returned is stored, what threw is not, transactions are
  balanced, retries end; cache: an entry is computed once and answers the
  question that was asked;
* translation: both providers select the same records; the full-text expression
  is well formed.

## 2. Modules

| Module | Models | State |
|---|---|---|
| `Paging`, `PaginalList`, `PageRequests` | the client protocol | proved |
| `DataContextMgr` | creation racing disposal, transactions | proved |
| `ListSelection` | mouse, keyboard, exclusive items of one list | proved |
| `ToolboxMgr` | the toolboxes of a page | proved, within `ListPage` |
| `ListPage` | several lists with their toolboxes, one document, one mouse | proved |
| `OptionSelection` | the `select` variant | proved |
| `PageService` | handler, provider and model behind a list | proved |
| `CommandPipeline` | decorators around a command handler | proved |
| `QueryCache` | the caching decorator | proved |
| `Filtering` | LINQ against SQL | proved |
| `FullTextSearch` | the full-text expression | proved |

`PaginalList` and `PageService` use `Paging` for the arithmetic of pages;
`PaginalList` instantiates `PageRequests` as its abstract specification;
`ListPage` instantiates `ToolboxMgr` with its own variables and adds to each of
its actions what the lists do. An `MC` module gives each specification its
small values; `ToolboxMgr` and `ListPage` need none.

"Proved" means every safety and action property that a run of the module checks,
for any values of its constants; liveness is never proved. The theorems of a
module are in the module of its name with `_proofs`, together with the lemmas
about pages, rows or positions they need. `Query_proofs` holds those of
`FullTextSearch`, `Filtering` and `QueryCache`, the three parts of
`CqsDataFoundation/Query`. It extends all of them, which is why these three name
their initial predicate, next-state relation and type invariant after themselves:
`SearchInit`, `FilterNext`, `CacheTypeOK`, and so on.

A type invariant `TypeOK` (`SearchTypeOK`, `FilterTypeOK`, `CacheTypeOK`) stands in
every module. The runs of `PaginalList`
and `DataContextMgr` check it; in the others it documents the variables and holds
on the same instances. It is proved wherever the table says "proved", as the
first part of the module's inductive invariant.

No recursive operator is declared in these modules. What a loop over a text
computes is written as a set of positions or as a recursive function, so that it
can be reasoned about.

## 3. The client protocol: `Paging`, `PaginalList`, `PageRequests`

### Model and code

JavaScript runs one handler at a time, so each handler of
`paginal-list-plugin.js` is one action with everything it calls. Handlers
interleave: clicks, key strokes, timers, and answers.

| Variables | Code |
|---|---|
| `cur`, `total`, `size`, `fv`, `items` | `_config.pagging.*`, `_config.filtering.filterValue`, `_config.items` |
| `input`, `searchOff`, `bar`, `dom`, `loaderShown`, `toolbox` | the DOM: search box, its `disabled`, pager, rows, icon, toolbox sliders |
| `pending` | the XHRs in flight, one per slot of `Slots` |
| `searchTimer`, `loaderTimer`, `fading` | `_searchTimer`, `_loaderIconTimer`, the running fade-out |
| `alive` | `destroy()` has not been called |
| `latest`, `fate` | history, read by no guard: the request issued last and what became of it |

A page of items is represented by the request it answers, because the server is
a function of the request: `Answer` applies `CalculateTotalPages` and
`CalculateAcquiredPageNumber` of module `Paging`. `Effective` is the rule that a
text shorter than `minFilterSize` is not sent. `LoadPage` is `_loadPage` up to
and including `beforeSend`; `LoadEnds` is what `complete` and both callbacks do
after it. `Success`, `Failure` and `LateSettlement` settle any slot: in any
order, with failures, and after `destroy()`, when `complete` throws on the null
element. `Init` covers both a server-rendered first page and an empty
configuration that loads itself.

The timers of a destroyed list may expire and do nothing: the callback looks at
`_config` first. The page slider takes the current page before its new bounds,
the size slider the one of its steps that is nearest to the page size
(`SliderTakes`); `HostSizes` are the sizes the host configures, which need not be
steps of the slider.

`PageRequests` is the abstract promise. A request asks for the text typed at that
moment (`Type`, `Ask`); the page taken over answers a request in flight, each
answered once at most, in any order or not at all (`Take`, `GiveUp`); the rows
change only into the page taken over last, at once or later (`Take`, `Show`);
and a closed list neither asks nor takes, and its rows at most disappear
(`Close`). Pager, toolbox, timers, icon and animation are not in it: `PaginalList`
maps `Effective(input)`, `pending`, `items`, `dom` and `~alive` to its variables.

### Runs

| Run | Instance | What it shows |
|---|---|---|
| `search` | 4 texts (empty, too short, one match, no match), 3 records, page sizes 2 and 3, a host call for page 3, slider markup maximum 2, 2 XHRs, loader icon | `IdleControlsAgree`, `NoSearchLost`, `FreshPageIsCoherent`, `RequestsValidPage` with stale slider bounds and empty answers |
| `rest` | 5 records on 2 pages, loader icon and animation, 2 XHRs, `FairSpec` | `RenderedIsConfigured`; refinement of `PageRequests`; `ComesToRest` |
| `order` (violation) | one page size, 4 texts, loader icon | `FilteredAsTyped` fails: the older answer arrives last |

Two XHRs are enough for an answer to overtake another one, for one to settle
while another is issued, and for one to outlive the list; the plugin keeps no
state per request, so a third repeats the second. Four texts are all the cases
`Effective` and the server distinguish. No page, one page and two pages, with a
host that asks for a third, are all that the bounds of the slider and of the
server tell apart; that two pages stand for any number is proved, not only
checked, for the four invariants of `search`. With the loader icon the requests of
the pager disable the search box, so that the debounce timer may find it disabled,
and the timer of the icon races the answers. The animation changes neither
requests nor controls; `rest` has it.

### Fairness

`FairSpec` assumes that timers expire, the fade-out ends and each XHR settles
(the browser ends it by success, error or timeout). Nothing is assumed of the
user: `ComesToRest` says what happens when no user action follows.

### Proofs (`PaginalList_proofs`)

For every set of texts, record counts, sizes and number of XHRs:

* `TypeCorrect`. The page number is natural because every request's page is.
* `ControlsAgreeWhenIdle`: inductive on its own, since every settlement runs
  `LoadEnds` and every issue makes `Idle` false.
* `SearchNeverLost`: not inductive alone. The timer drops a search when the box
  is disabled; `SearchedWhileOff` adds that then the text is the stored one,
  because only a request disables the box and it stores the text.
* `FreshPageCoherent`: the strengthening `LatestFitsConfig` says what the
  request issued last has in common with configuration and box while in flight;
  `ShownFitsConfig` carries it over the answer.
* `RequestsAccepted`: if `Records[NoText] # 0`. Section 12 shows that the
  assumption is needed.
* `Refinement`: `Spec => Pages!Spec`. Each action is a step of the abstract list
  or stutters; given the types, no further invariant is needed.
* `RowsAreItems`: inductive given the types. A page that arrives during a
  fade-out is put up by the callback at its end, which reads the items the
  configuration has then, and not those it had when the fade-out began.

Only model-checked: `ComesToRest` (liveness).

## 4. The context manager: `DataContextMgr`

### Model and code

Threads call `DbContext`, `BeginTran`, `CommitTran`, `RollbackTran` and
`Dispose` on one `DataContextMgrBase`. A call is a sequence of steps, one per
access to a shared field (`BeginTran` reads `_context` several times in one
step, see the module's header): `pc` says where the thread is, `conn` and `hand` are
its locals. `AcquireLock`, `SecondCheck`, `CreateDbContext`, `CreationFails`
and `Publish` are the body of `EnsureCreated`; `EnterDispose`, `MarkDisposed`,
`TakeContext`, `TakeTran`, `FinishTran` and `CloseContext` are `Dispose`.
`Interlocked.Exchange` is one step, the unsynchronised check and write of
`_disposed` two. The lock is released in the step that ends what it protects.

The database is external: a connection carries at most one transaction,
creating, initialising, beginning and ending may throw, and closing a
connection ends its transaction. With `LinqToSql` ending a transaction also
assigns `_context.Transaction`, which throws when `Dispose` has taken the
context: this is how a `Dispose` with an open transaction always ends, and it
leaves the connection open. The history variable `abandoned` collects such
contexts. `SubmitUnitOfWork` changes no field of the manager and is left out.
The program does not use one manager from several threads everywhere; the lock
and the interlocked operations show that the class is meant for it.

### Runs

| Run | Instance | What it shows |
|---|---|---|
| `context` | 2 threads, 3 connections, 2 transactions, LINQ to SQL, `FairSpec` | `ConnectionsAccounted`, `OneOwner`, `NeverReplaced`, `NullOnlyAfterDispose`, `TransactionsAccounted`, `CallsReturn` |

Two threads let one create, use or dispose the context at any moment of the
other's call; all but `CallsReturn` are proved for any number of threads. Closed
connections and finished transactions are used again, so no run of calls is cut
short by the bound. Where no free connection or transaction is left, creation can
only fail, which it may anyway. The variant without the LINQ to SQL assignment has
a part of these behaviours.

`FairSpec` has weak fairness on each thread's steps (the operating system runs
it) and strong fairness on `AcquireLock`: a monitor queues its waiters, so one
that waits while the lock is free again and again gets it.

### Proofs (`DataContextMgr_proofs`)

One inductive invariant, `IInv`, for any number of threads: `Creating` (between
the second check and the publication a thread owns the lock, and no context
appears meanwhile), `Holding` (where a thread may have a context of its own),
`Relying` (where a context was seen, it is still there or `Dispose` has been
called), with `OneOwner`, `ConnectionsAccounted` and `NullOnlyAfterDispose`
themselves. Theorems `ContextHasOneOwner`, `NoConnectionForgotten`,
`NullMeansDisposed`, `PublishedContextStays` follow.

`TransactionsNeverLost` has an invariant of its own above it, `TranInv`. That
every open transaction is the manager's or in some thread's hands is not
inductive: `StoreTran`, the end of `BeginTran`, overwrites the field. It must be
known that nothing is overwritten, which is a fact about the connection: until
`Dispose` the manager's context has one open transaction at most and no other
connection has any (`OneTransaction`), and the one a thread has just begun is that
one. `OneHand` says where a transaction is between the database and the field, and
`ClosingIsDisposing` that only a call of `Dispose` closes a connection, so that no
transaction ends behind the back of the thread that holds it.

Only model-checked: `CallsReturn` (liveness).

Not a property: that no connection is open after `Dispose` and all calls have
returned. A thread that passed the `_disposed` check publishes a context later,
and nobody closes it; nothing in the repository promises otherwise.

## 5. Selection: `ListSelection`

### Model and code

The selection is kept twice: `sel` is `items[i].selected`, `row` the class
`list-item-selected` of row `i`. `hidden` is what the client filter hides,
`anchor` is `_startRowIndex`, `holding` is `_mouseHoldDown`, `changed` is
`_selectionChanged`; `told` (history) is the selection when the host page was
last told, by `pl-changed`, by its own call or by a page it rendered. The
helpers `_selectOne`, `_toggleOne`, `_selectAll`, `_selectAllVisible`,
`_selectVisibleRange` (three calls, `Extend`) and `_unselectExclusiveItems` are
operators from a list to a list; a handler applies them in the code's order and
ends in `Becomes`. Two details matter:

* `Eq` reproduces `:visible:not(:eq(k))`, which counts visible rows only;
* `Throws`: an anchor beyond the last row makes `_selectVisibleRange` throw on
  `items[i].notVisible` after it has written the items and before the rows.
  The history variable `stale` marks the states in which a page shorter than
  the anchor has arrived.

`pl-changed` handlers, focus and scrolling are left out, `useAnimation` is off,
lists have at least one item, and `select`/`unselect` are modelled without ids:
with ids they call `itemIndexById`, which the plugin does not define.

### Runs

| Run | Instance | What it shows |
|---|---|---|
| `selection` | multiple and single selection: with paging, pages of 4 (first exclusive) and 2 rows; with the client filter, a page of 3 (two exclusive, one preselected) and every filter result | rows show the selection, the host is told, gestures leave exclusive items alone and hidden items untouched, single selection has one item |

Three or four rows give an anchor, an end, a row between and one outside; two
exclusive rows make the first of them the one that stays; the shorter page makes
the anchor stale. `options` is the setup of the list, chosen in `Init` and never
changed. Nothing is bounded besides the pages: the state is finite.

### Proof (`ListSelection_proofs`)

All five properties and `TypeOK` are proved for any setups: pages of any length
with any exclusive and selected items.

The helpers come first, each with a lemma that says what it keeps. Two facts
suffice for all of them. A list is `Fair` if it says so when an item changed and if
hidden rows and items are as they were; `Agree(l, S)` says that the rows in `S`
show what the items say. `Marked` with the same rows and items keeps both, and all
that `_selectAllVisible` needs beyond that is that `:eq(k)` finds row `k` while no
row is hidden (`EqIs`) and nothing for an index that is not given.
`ToggledKeeps` is the one place where rows and items disagree in between: Ctrl and
Space change the row first, all other rows keep agreeing, and the item is written
last from its row.

The inductive invariant `IInv` then has four parts beside the types. `Hiding`
separates the two kinds of lists. `AnchorOnPage`: unless `stale`, the anchor is a
row of the page, so that no extension throws; it needs that `AnchorFor` finds a
row, that is, that among finitely many rows one is farthest and of those one is
last. `Settled`: hidden rows show their items always, because the client filter
that shows them again leaves them as they are; all rows do where none is hidden
and no extension has thrown, which in single selection none ever does. `Telling`:
`changed` outlives the handler only while the button is down, and without it the
host page knows the selection.

From these `RowsAreSelection`, `HostIsTold`, `HiddenStay` and
`ExclusiveLeftAlone` follow; the last one rests on `UnselectExclusiveItemsIs`, by
which an agreeing list is left with an exclusive item alone. `OneItemAtMost`
assumes `SinglePages`, that the pages a host sends to a list with single selection
have one item selected at most: the plugin shows what it is sent, and a first page
with two would be a counterexample before any gesture. The runs' setups satisfy
it.

## 6. Several lists on a page: `ToolboxMgr`, `ListPage`

### Model and code

`ToolboxMgr` numbers the toolboxes in document order. `alive` are those with an
instance, `active` the ones shown (class `active`), `listening` those whose
handlers are bound to the document. All instances bind in one event namespace,
so `Destroy` empties `listening` (`$(document).off(scope)`), and it leaves the
class behind. `Open` is the whole of `open()`: the event to the host, then
`close(false)` on every other toolbox shown, in document order, until one is met
that has no instance (`Reached`), where `.data(PLUGIN_NAME)` is undefined and the
handler throws before the toolbox shows itself. `heard` and `threw` are history.
Position and z-index are left out.

`ListPage` adds the lists. `docBound` are those whose `mouseup` and `mousemove`
are bound to the document, in a namespace of their own with the same flaw.
`pressed` and `over` are the mouse; `dragging`, `scrolling` and `pending` are
`_mouseHoldDown`, `_mouseScrollTimer` and `_selectionChanged` of each list;
`unannounced` (history) says that the selection is not the one last announced.
`Finish` is `_finishSelection`; `Release` runs it for the list under the mouse
and for every list bound to the document. What a gesture selects is in
`ListSelection`; here it changes the selection or not (`Select`). `_teardown`
cancels the search and loader timers and not `_mouseScrollTimer`: `zombie` are
instances whose timer goes on after `destroy()`, in multiple selection until it
meets a row to select and throws; whether it ends changes nothing else. A list element is not given a new instance while such a timer runs
(bound of the model).

### Runs

| Run | Instance | What it shows |
|---|---|---|
| `page` | 3 lists with their toolboxes | `AtMostOneShown`, `HostKnows`, `DragNeedsButton`, `AnnouncedByTheEnd` |

Three lists are one that is destroyed, one that is dragged from and one that the
mouse is over; `open()` needs a toolbox before and one after an orphan. The
states are finite without further bounds. `DragNeedsButton` speaks of lists that
have their document handlers; section 12 says what happens to the others.

### Proof (`ListPage_proofs`)

All four invariants and `TypeOK` are proved for any number of lists. The
inductive invariant `IInv` puts two facts beside them. `OneShown` says of
`active` without counting what `AtMostOneShown` says with `Cardinality`; the
lemma `OpenAlone` is the argument for it: either `open()` met no orphan, closed
all others and shows its toolbox alone, or it threw and shows none. The other
fact is `docBound` within `alive`: without it a list could be created into a
drag of its own and be bound while the button is up. `ToolboxesKeep` treats the
steps of the toolboxes once for all actions of the lists that contain them. The
proof assumes `ListPageAssumption` and nothing else.

## 7. The `select` variant: `OptionSelection`

### Model and code

The browser keeps the selection of the options (`ui`), the plugin that of the
items (`sel`). An option carries the index of its item (`data-index`); `shown`
are the indices of the options in the list, `view` the page they were made from,
`page` the page the configuration has. The two pages differ while `fading`: with
`useAnimation` the success callback replaces the items at once and the options
when the old ones have faded out. The helpers `_unselectExclusiveItems`,
`_readSelectionFromUI`, `_selectOne`, `_selectAll` are operators on `[sel, ui]`.
`Throws` and the guard `shown \subseteq Items` in `SelectionChange` stand for
loops that meet an option without an item, when the new page is shorter.

External are the browser's own gestures: `Drag` changes the options without a
change event, `SelectionChange(S)` is the event with the selection a gesture
left. `behind` (history) says that options changed without an event since, `quiet`
that the host asked for no event, `crossed` that options of one page acted on the
items of another. Automatic scrolling keeps the options it started with
(`scroll = "stale"` once they are gone).

### Runs

| Run | Instance | What it shows |
|---|---|---|
| `option` | pages of 3, 3 and 2 items, exclusive and preselected ones; multiple and single selection; pages that fade or not, or any client filter | `UiIsConfig`, `SelectionAnnounced`, `OneItemSelected`, `ChangesLeaveExclusiveAlone` |

Pages of three have a first, a middle and a last option, two exclusive items and
one that is not; the page of two makes indices beyond the end. `UiIsConfig` and
`OneItemSelected` speak of lists whose items all have an option; section 12 says
what the client filter and a page that fades out do to them.

### Proof (`OptionSelection_proofs`)

All four properties and `TypeOK` are proved for any setups. `InView` is what the
rest depends on: only while a page fades out are the options those of another
page, which never happens to a list with a client filter; with pages every item
has an option. Outside of a fade-out no loop of the plugin can then meet an option
without an item, and each handler is described by what it leaves: a change event
leaves what the gesture selected, or the first exclusive option of it (`Leaves`).
`SelectionAnnounced` is inductive with that.

`UiIsConfig` and `OneItemSelected` need each other in single selection, and both
need `SinglePages` as in section 5: with two items selected the browser shows one
of them, and `unselect(id)` of that one leaves the other selected and nothing
shown. A step is shown to leave one item or none and options equal to items
(`Synced`); `Chosen`, what a select element makes of options that come selected, is
the identity on such selections, which is why pages that fade in and handlers can
be treated alike.

The paging half of this plugin repeats that of `paginal_list` line for line
(pager, search, toolbox, requests), so `PaginalList` is its model too.

## 8. The page service: `PageService`

### Model and code

`BuildQuery` is `QueryHandlerPaggedLinqBase.BuildQuery`: count, acquired page,
page count, then `Skip` and `Take`. `IntMax` is the largest integer, and `Wrap` is
the unchecked arithmetic of `Skip((pageNumber - 1) * pageSize)`. Records are
numbered in the query's order, so that filter and sorting are represented by the
number of matching records. `Ask` is a query handler used by itself,
`FetchPage` is `FetchPageHelper` of the controller: provider, static items,
`MergePage`. `model` is `PagedListConfigModel`. `[All]` has two sources: the
provider adds it if page 1 was *asked for*, `SetItems` if page 1 was *served* and
it is not there.

### Runs

| Run | Instance | What it shows |
|---|---|---|
| `service` | integers from -8 to 7; 0, 1, 2 and 5 records; sizes 0, 1, 2, 3; all pages | `ServedAsSaid`, `OneAllOnFirstPage` |

[All] has two sources that look at two pages, and a page of one record can be
the only one or the first of several, which is why size 1 is there.
`OneAllOnFirstPage` says that `[All]` is one item, at the top, of a first page, and
that of several records the first page has it by whatever request it came to be
served. Of a single record that is not so: `FirstPageHasAll` is refuted, see
section 12. With four bits the largest page times the size overflows as it does with 32,
and every page number can be enumerated.

### Proof (`PageService_proofs`)

For every `IntMax`, number of records, page size and page asked for:

* `ServedPageNotEmpty`: whatever page is asked for, the page served from a
  non-empty source starts at a record that exists.
* `PageServedIsPageSaid`: `ServedAsSaid`. With the total the acquired page bounds
  the product under `Skip` by the number of records (`AcquiredPageRange`,
  `PagesCoverRecords`), so that `Wrap` changes nothing (`NoWrap`). What `Skip` and
  `Take` then cut out are the records whose quotient by the size is that of the
  page (`SliceIsPage`). The only fact about division used is `DivMod`.
* `AllOnceOnFirstPage`: `OneAllOnFirstPage`. The provider looks at the page asked
  for and the model at the page served; who asks for the first page is served no
  other (`ServedForFirst`), who asks for a later page of several records and is
  served the first has more than one record on it (`ServedForLater`), and the model
  puts `[All]` in front only if it is not there. That the items before were records, `[All]` not among them, needs that
  counting sorts a finite set (`Ranked`): of n numbers there is one with k of
  them up to it, for every k from 1 to n.

Both are statements about one request, since the service keeps nothing between
two but the model; the invariant `IInv` is their conjunction with `TypeOK`,
because `Select` and `ClearData` work on the model that a request has left.

Noticed in passing: `totalRecords` counts `[All]` for an empty source
(`SetItems` falls back to the number of items); `QueryPaggedBase.cs:53` says `-1`
turns paging off where the range is 0 to 1000 and 0 turns it off;
`DataPage.Convert` indexes the first element of an empty list; the SQL page of
`GetPageCommand` with size 0 has no rows.

## 9. Commands: `CommandPipeline`

### Model and code

A pipeline is a sequence of decorators around `AddProductCommandHandler`.
`level` is the decorator that runs, `inward` whether it is being called or has
been returned to, `exc` the exception on its way out. Each decorator's `Handle` is
one action on the way in and one on the way out. `pending` are rows a LINQ to
SQL context has not submitted, `stored` rows in the database. Begin, submit,
commit and rollback may fail with a deadlock or otherwise, and the handler may
throw before it inserts, because it asks for the context; a submission that fails
leaves its rows pending, a commit that fails after the submission loses them;
`RollbackTran` may throw and then hides the first exception. `TranScope` is
begun, completed and disposed by the same actions, without that last case.
Retry is never placed inside a transaction (assumption), which the deadlock
would have ended. The pause of 300 ms is left out.

### Runs

| Run | Instance | What it shows |
|---|---|---|
| `command` | 2 valid commands and an invalid one, 5 pipelines, 2 retries, `FairSpec` | `NoTransactionLeftOpen`, `ReturnedMeansStored`, `ThrownMeansNotStored`, `EveryCallEnds` |

Two commands on one context let the second submit what the first left pending:
`ThrownMeansNotStored` therefore speaks of the moment the command throws. Two
retries are a first, a middle and a last attempt. `FairSpec` is weak fairness on
the steps of the thread that handles the command; no fairness on new calls.

### Proof (`CommandPipeline_proofs`)

For any commands, retry count and pipelines of any length in which retry is
outermost:

* `TypeCorrect`, with `Nested`: where a call is on its way in and out.
* `TransactionsEnd`: a transaction is open only while the call is inside of one of
  the decorators that begin one (`OpenInside`), so it is closed when the call has
  left them all, nested or not.
* `ReturnedIsStored` assumes `Submitting`: some decorator of every pipeline is not
  `Validation`. Validation alone submits nothing and leaves the row to its caller.
  On the way out without an exception the row is pending or stored, and stored
  once a decorator that submits is behind (`OnTheWayOut`).
* `ThrownIsNotStored` assumes `OneTranLayer`: at most one transaction around the
  handler. In a nest the inner one commits, and the outer one may still throw. The
  pipelines of the runs, which are those of the repository's tests and retries
  around each kind of transaction, satisfy both assumptions.

## 10. The query cache: `QueryCache`

### Model and code

One action per access to the cache or the lock in
`CacheQueryHandlerDecorator.Handle`: `FirstGet`, `Lock`, `SecondGet`, `Fetch` or
`FetchThrows`. An answer is represented by the query it was computed for, so
what an entry answers can be compared with what was asked. `Got` is the cast of
`Get<TResult>`, which throws for an entry of another type. `Expire` is the loss of an entry at any
moment: expiration, removal or eviction; expiration is sliding, so an entry that
is asked for again and again may also live for ever.

The key is a text, and a text is the sequence of its tokens: words, and the
separators that the code puts between them. `FilteringDescription` and
`SortingDescription` put it together as `GetDescription` of the two collections
and their descriptors does: joined by the combining rule or a comma, nothing
escaped, null described as `EMPTY`, `IgnoreCase` not at all. `CacheKey` puts page
size and number in front and leaves out `ReturnTotalRecods` and the query's class.
The token after a name that is not descending is empty, and the text `unsorted`
ends with an empty token too; this changes no text and lets every order end with a
token of its own.

### Runs

| Run | Instance | What it shows |
|---|---|---|
| `cache` | 3 threads, 4 queries, 2 keys, `CacheFairSpec` | `ComputedOnce`, `AnswersTheQuestion`, `CallsEnd` |

The queries have the same two descriptors, combined by `And` and by `Or`; one of
them comes in two types of results, and one has no key. `AnswersTheQuestion`: the
page asked for, in the type expected; and if the names and values of both queries
are plain, descriptors equal to the caller's (by `FilteringDescriptor.Equals`, which
leaves `IgnoreCase` aside), the same rule if there are several, and the same order.
Plain means that a name or a value is one word, no separator, and no value is
the word `EMPTY` and no name to sort by `unsorted`. Without that, and for the total and the query's class, an entry
may answer another question: `FilterAsAsked`, `TotalWhenAsked` and `TypeAsAsked`
are refuted, see section 12.

Three threads are one that computes, one that waits and one that looks up.
`CacheFairSpec`: threads run, handlers end, and a monitor serves its waiters (strong
fairness on `Lock`).

### Proof (`Query_proofs`)

For any number of threads, queries and keys. `EntryComputedOnce`: `ComputedOnce`
counts computations and says nothing of the threads, so `OneComputes` adds that
behind the lock there is only its owner, that no entry appears while it computes
one, and that an entry that is not there has not been computed.

`QuestionAnswered` has two parts. `Filed` and `Answering` say of the cache and of
the callers that what they have lies under the key that was asked for. That the
key tells the question, `KeyTells`, is a statement about texts of any length: page
size and number are its first and third token. What follows is read from the end.
The order of plain names has no mark `_` in it, so the last mark of the key is the
one before it (`LastMark`, `SplitAtLastMark`), and its names and directions are
every second token (`SortingTextTells`). What is before that mark are descriptors
of five tokens, with the rule and two marks between them: equal texts have equally
many, and each of them is the same field, predicate and criterion (`ListedTells`,
`TextTells`). A null criterion is described by one token that no plain criterion
is.

## 11. Translation: `Filtering`, `FullTextSearch`

### Model and code

`Filtering` lets both providers visit one `FilteringCollection`, descriptor by
descriptor. `LinqSelects` is the expression `LinqProvider` builds, evaluated on a
record; `SqlProvider` builds text (`Quote`, `SqlCleanString`, `SqlPredicate`), and
the external operators `Literal`, `Like` and `SqlSelects` read that text as SQL
Server does. All of them go through a text from left to right: `Folded` takes one
step per symbol, and `Cleaning`, `Reading` and `Matching` are the steps. A literal
is read with a mode (in the text, after a quote, ended); a like pattern with the
set of positions in the value it may have reached. Symbols are a letter, `%`, `_`,
`!` and the quote; `[`, `]` and `^` are escaped like `%`. Left out: null as a
criterion of a text predicate, numbers,
booleans, order predicates, `IgnoreCase` (which `SqlProvider` ignores), collation,
sorting.

`FullTextSearch` takes three texts (all of, any of, none of) through
`ValidateSearchCriteria`, `PrepareSearchCriteriaStep1` and
`BuildSearchTextExpressionExt`. The regular expressions of the class are
operators on sequences (`Collapse`, `Trim`, `RunAt`, `IsKeyword`, `IsShort`).
Two letters make a keyword; blank and full stop are the two kinds of separators,
since only the latter is overlooked by the validation; a missing text is an
empty one. Tabs and line breaks, which only some of the class's steps take for
separators, are left out. The flag `connectWordAdded` has no effect after the normalisation. An
empty phrase may reach the query. Only tests call this class.

### Runs

| Run | Instance | What it shows |
|---|---|---|
| `filtering` | all texts up to 2 symbols in records and criteria, 1 or 2 descriptors | `SameRows` |
| `fulltext` | all texts up to 4 of 7 symbols as one part, usual ones as the others | `ExpressionWellFormed`, `NoKeywordLeft` |

Two symbols give an escape symbol before and after a wildcard, and a quote
beside either; four give a word, a separator and a word, a phrase, or a keyword
hidden by a symbol that is removed.

### Proof (`Query_proofs`)

For texts of any length, and any number of descriptors and records.

`FullTextSearch` takes texts apart by regular expressions, and the proof needs no
induction: a step removes a set of positions, and what matters are the
neighbours in what is left: they had only removed symbols between them (`KeepIs`,
`Gaps`). Two facts about a prepared text suffice: `Free`, no keyword is left, and
`Tidy`, no two separators are adjacent and none is first or last. `Free` survives
the steps after the one that removes the keywords, because each takes neighbouring
letters out together, and what follows a letter only with all the rest
(`Together`, `KeptKeyword`). Then:

* `KeywordsAreGone`: `NoKeywordLeft`. Connectives, brackets and `%` are no letters,
  so a run of letters of the expression is one of its parts' texts.
* `ExpressionIsWellFormed`: `ExpressionWellFormed`, which alone is not preserved by
  putting parts together: two parts that are well formed by themselves may meet in
  two connectives. `Good` says in addition how an expression begins and ends and
  that its brackets are balanced, and says it of every connective, inside phrases
  too, where none is put in; so it need not follow the quotes. It holds of every
  part (`PlainIsGood`, `BracketedIsGood`) and is kept by `Appended`
  (`LinkedIsGood`).
* `SearchTypeCorrect`: `SearchTypeOK`; no asterisk of the user's is left in the
  expression.

`Filtering` does need induction over a text. The library's induction theorems
take the statement as a parameter, which the provers cannot instantiate;
`EverySequence` says the same of a set: one that contains the empty sequence and,
with a sequence, the sequence and one symbol more, contains all sequences. It is
applied to the set of the texts for which a lemma holds. `FoldedAppend` says what
`Folded` makes of one symbol more. From them follow the facts the translation
rests on:

* `LiteralIs`: between the outer quotes, whatever was typed is read as typed, its
  quotes halved again, and never ends the literal.
* `PatternTaken`: a pattern without an open wildcard takes from a position exactly
  the symbols it was made of; an escape symbol is escaped whenever it would be
  read as one.
* `LikeIs`, `MaskIs`: with a `%` before, after or on both sides, that is the
  beginning, the end or some place of the value.

With these `SameSelection`: a descriptor selects the same texts on both sides.
The invariant `FilterInv` adds what the two visitors have built so far
(`AllTranslated`, `AllSelected`), because `SameRows` alone does not say that the
next descriptor is combined with what the previous ones selected. Theorems
`FilterTypeCorrect` and `ProvidersAgree`.

## 12. Findings

The run `order` shows that a late answer to an older search overwrites a newer
one. The other disagreements are refuted statements: a definition of the module,
which says what the quoted place of the repository says, and a configuration
outside the list of runs under which `tlc -config <cfg> <module>` finds a
counterexample.

| Module and configuration | Refuted | The code | Said by |
|---|---|---|---|
| `MCPaginalList`, `PaginalListEmpty` | `RequestsValidPage` | an empty source makes the list request page 0, which the query's validation refuses | `QueryPaggedBase.cs:62` "PageNumber should be greater, than 0." |
| `MCListSelection`, `ListSelectionExclusive` | `ExclusiveNeverShared` | Ctrl and Space toggle a row before its item (`paginal-list-plugin.js:553`) and leave an exclusive item selected with another | `paginal-list-plugin.js:1357` "Items, which can't be selected with other items" |
| `MCListSelection`, `ListSelectionSingle` | `OneRowSelected` | `:eq` counts visible rows, `exceptIndex` all of them (`paginal-list-plugin.js:1062`): single selection shows two rows | `readme.md:15` "precisely mimics keyborad and mouse selection behaviour of HTML select/option" |
| `ListPage`, `ListPageRelease` | `ReleaseEndsDrag` | `destroy()` of one list unbinds the document handlers of all (`paginal-list-plugin.js:299`), and a drag of another outlives the button | the same |
| `ToolboxMgr`, `ToolboxMgrAlone` | `OpensAlone` | a list destroyed with its toolbox shown makes `open()` of every other one throw after it told the host | `toolbox-mgr-plugin.js:45` "close another toolboxes" |
| `MCOptionSelection`, `OptionSelectionUnselect` | `UnselectDeselects` | `unselect(id)` takes the option at the item's index, another one under a client filter (`paginal-list-option-plugin.js:207`) | `paginal-list-option-plugin.js:181` "Deselects items by one ID or by an array of ids." |
| `MCOptionSelection`, `OptionSelectionFaded` | `UserSelectsWhatIsShown` | items are replaced before the options (`paginal-list-option-plugin.js:806`), and a click on a fading option selects an item of the new page | `paginal-list-option-plugin.js:78` "Returns an array of the selected items' ids" |
| `MCCommandPipeline`, `CommandPipelineOnce` | `OncePerCommand` | a retry runs on a context that still has the pending row of the failed attempt, and stores two | `DeadlockRetryCommandTests.cs:50` "Assert.AreEqual(1, ctx.DataSource.Count);" |
| `MCQueryCache`, `QueryCacheTotal` | `TotalWhenAsked` | the key leaves out `ReturnTotalRecods` (`QueryPaggedBase.cs:39`), and a page without total answers a query that asks for it | `DataPage.cs:18` "This property is filled when IQueryPagged.ReturnTotalRecods is true." |
| `MCQueryCache`, `QueryCacheFilter` | `FilterAsAsked` | the description of a filter escapes no separator, calls null `EMPTY` and leaves out `IgnoreCase` (`FilteringDescriptor.cs:29`), so one filter is answered by the entry of another | `IQuery.cs:6` "Represents a generic cachable query." |
| `MCQueryCache`, `QueryCacheType` | `TypeAsAsked` | the key does not name the class of the query, and two classes with one type of result share entries | the same |
| `MCPageService`, `PageServiceAll` | `FirstPageHasAll` | `SetItems` puts `[All]` before several items only (`PagedListConfigModel.cs:80`): a single record comes without it if a later page was asked for, and with it if the first was | no text; the other place that adds it, `CategoryListPagedProvider.cs:36` "_addStaticItems && q.PageNumber == 1" |
| `MCPageService`, `PageServiceOverflow` | `ServedAsAsked` | without the total nothing bounds the page, the product under `Skip` overflows (`LinqProvider.cs:56`), and an earlier page is served | `IQueryPagged.cs:15` "A page to return." |
| `MCFullTextSearch`, `FullTextSearchMasks` | `MasksAreLongEnough` | a full stop hides a mask that is too short from the validation (`FullTextSearchUtils.cs:86`) | `FullTextSearchUtils.cs:39` "When * is used, the word should be at least 3 symbols in size" |
| `MCFiltering`, `FilteringNull` | `NullMeansNull` | `LinqProvider` compares with the criterion for `Null` (`LinqProvider.cs:126`), `SqlProvider` does not | `CriterionPredicate.cs:10` "//== null" |

In single selection mode of the `select` variant an item that the client filter
hides may stay selected beside the one the user picks; `OneItemSelected` excludes
that case.

Read, not run: `select` and `unselect` by ids throw in `paginal-list-plugin.js`,
which defines no `itemIndexById`; `operator !=` of `FilteringDescriptor`
compares `n1` with `n1`; `SqlProvider` ignores `IgnoreCase`.

## 13. Only model-checked, and why

* Liveness (`ComesToRest`, `CallsReturn`, `EveryCallEnds`, `CallsEnd`): the prover
  has neither fairness nor `ENABLED`.
* The refuted statements of section 12, which have counterexamples.

Everything else that a run checks is stated by a theorem. The proofs assume the
named `ASSUME`s of the modules and the premises `Submitting`, `OneTranLayer`,
`SinglePages` and that of `RequestsAccepted`, each where it is stated, and nothing
else.

## 14. Not modelled

* Number, boolean and order predicates, `IgnoreCase` and sorting of the
  providers: each is one operator of the target language, without a choice that
  a property could tell apart.
* `ValidateObjectAttribute`'s recursion into members, JSON, request parsing,
  routing, views, bundles, T4MVC output: no state of the program's own.
* The `pageLoader` option of the lists; the SQL text of `AdoDbContextMgr`;
  `ObjectDbContextMgr`, which has no connection; the attributes that name
  decorators, which only `AttributesHelper` reads, and nothing calls that.
* Vendored scripts (jQuery, jQuery UI, Bootstrap, Popper): they make up nearly
  all of the repository's 64000 lines of script and C#. The project's own are
  3000 of script and 7000 of C#, tests, declarations and configuration included,
  so the modules cover a small share of all lines and most of those that decide
  something.
