# Verification of ofono-binder-plugin-ext-qti

TLA+ modules, TLC model checks and TLAPS proofs for the Qualcomm extension of
ofono's binder plugin (`src/src/*.c`): the plugin that lets ofono make IMS
calls, send SMS over IMS and control IMS registration through the vendor's
`IImsRadio` binder service.

## The system

| part | source | state it keeps | operations |
|---|---|---|---|
| request layer | `qti_radio_ext.c` 156-163, 1111-1355, 1262-1270 | serial counter, table of pending requests, per request the transaction and the callbacks | submit (one-way or synchronous), end of transaction, response, cancel |
| indications | `qti_radio_ext.c` 304-364, 453-1060 | `voice_enabled` | call state, service status, handover, registration, ring, SMS |
| calls | `qti_ims_call.c` | list of calls, `id_map`, pending requests with ofono's callbacks, data of swaps in two steps | dial, answer, swap, hangup, cancel; call info, voice disabled, handover |
| registration | `qti_ims.c` | `ims_state`, pending requests | set_registration (which first asks for the state), cancel; state reports and answers |
| SMS | `qti_ims_sms.c` | `id_map`, pending requests | send, cancel, ack_report, ack_incoming (synchronous) |
| slot | `qti_slot.c` | the interfaces of one SIM slot | create, get_interface, drop |
| plugin, extension | `qti_plugin.c`, `qti_ext.c` | registration with the binder plugin | init, exit, new_slot |
| parcel helpers | `qti_utils.c` | none | sizes of AIDL parcelables |

How they interact.  ofono calls the interfaces (calls, registration, SMS) with
a `complete` and a `destroy` callback.  They wrap these in a request object
that holds a reference to the interface, and hand it to the request layer,
which sends a binder transaction under a fresh serial and keeps the request in
a table.  The service answers through a second binder object with the serial
and a response code; that runs `complete`, removes the entry and so runs
`destroy`.  Indications come through a third binder object and are forwarded as
GObject signals to the interfaces.  All of this runs in one main loop; what
interleaves is the order of its events (ofono's calls, ends of transactions,
responses, indications, death of the service), and ofono's callbacks, which may
call back into the plugin in the middle of a handler.

What is hard, and what correctness means for each part:

* request layer -- a request can be ended by its response, by cancellation and
  by refusal, while its transaction is in flight and while a callback is
  running; responses may be late, repeated or mismatched; serials wrap.  Each
  request object must be freed exactly once, never be referred to by the binder
  afterwards, be completed at most once, by its own answer, and not after
  cancellation.
* calls -- a swap is two requests with one pair of callbacks that change hands
  between the response to step 1 and its destruction; the list of calls changes
  in between.  ofono must be told once, freed once, and of success only when
  both steps succeeded; references must balance; the list must not hold a call
  twice or survive the loss of voice.
  In the modem a swap must never leave two calls active, and the list must end
  up as a copy of the calls the modem has, although requests, responses and
  indications are not ordered relative to each other.
* registration -- two sources of one state with no order between them; a
  change is two requests.
* SMS -- the id 0 means a refusal, but serials wrap; acknowledgements are
  requests without callbacks.  A message must be destroyed once, and be silent
  from then on and after its cancellation.
* slot -- shutdown and finalization with requests pending and interfaces held
  by others; references that are never given back; signal handlers that outlive
  their object.
* parcel helpers -- sizes from the service: the reader must end at the next
  entry.

## Modules

| module | models |
|---|---|
| `RequestContract` | what the request layer promises its callers (abstract) |
| `QtiRadioExt` | the request layer: objects, table, serials, transactions, callbacks, service |
| `QtiRadioExtProofs` | its inductive invariant, and the theorems below |
| `QtiImsCall` | the call interface on top of `RequestContract`, with the indications it listens to |
| `QtiImsCallProofs` | its inductive invariant, and the theorems below |
| `QtiCallModem` | `QtiImsCall` composed with a modem that has the calls, and the channels between them |
| `QtiCallModemProofs` | its inductive invariant over that of the interface, and the theorems below |
| `QtiIms` | the registration interface on top of `RequestContract`, with the service's state |
| `QtiImsProofs` | its inductive invariant, and the theorems below |
| `QtiImsSms` | the SMS interface on top of `QtiRadioExt` itself |
| `QtiImsSmsProofs` | its inductive invariant over that of the layer, and the theorems below |
| `QtiSlot` | plugin, slot, radio and interfaces as objects: references, fields, handlers |
| `QtiSlotProofs` | its inductive invariant, and the theorems below |
| `QtiUtils` | the reading of one entry of an indication, with its theorems |
| `MCQtiRadioExt`, `MCQtiImsCall`, `MCQtiCallModem`, `MCQtiIms`, `MCQtiImsSms`, `MCQtiSlot` | finite instances for TLC |

`QtiRadioExt` is shown to implement `RequestContract` (`ContractSpec`, checked
and proved); `QtiImsCall`, `QtiIms` and `QtiSlot` INSTANCE `RequestContract`
and use its actions for every request they make.  So what the interfaces are
checked against is exactly what the layer below was shown to provide.  The
contract holds while serials do not wrap; `QtiImsSms` is composed with the
layer itself, because what it does at the wrap (an accepted request with the id
0, a message replaced by a newer one) is what the contract hides.

How state and actions correspond to the code:

* A step is one main-loop callback run to completion.  A handler takes several
  steps only where ofono's code runs inside it (`response` and
  `response_return`: the code before and after the `complete` callback) or
  where it makes several requests (`set_registration` and `set_reg_state`; the
  loop of the handover, `hangup_held`; step 2 of a swap, `swap_step_activate`).
  `control` and `dispatching` say which code is to run next.
* A request object is named by the order of its allocation.  In `QtiRadioExt`
  its serial is that number modulo `IdMod` (2^32 in C), so that wrap-around is
  in the model; `Lookup` finds by serial, as the hash table does.  `tx` and
  `transactions` are the two sides of a transaction in flight: `req->tx` and
  what the binder has registered.
* A new registration state is signalled to ofono's observers, which may ask for
  an operation before the request that brought it is released
  (`QtiIms!handle_response`).
* `completed`, `destroyed`, `op_completed`, `op_destroyed` count runs of the
  callbacks.  `accepted`, `cancelled`, `failed_swaps`, `op_failed`,
  `op_refused`, `given_up`, `lost`, `fresh`, `missed`, `cleared`, `handover`,
  `mishaps` are history that only properties (and the bounds) read.
* A refused request is freed by the request layer and then again by its caller
  (`qti_ims_call.c:410`, `qti_ims.c:274`).  The second free reads freed memory:
  the model takes both outcomes, that it does what it would do to the request
  and that it does nothing.  Likewise a handover type that could not be read is
  any type (`qti_radio_ext.c:795`, `:821`).
* An indication is a sequence of entries, each with a call and its state, or
  the voice service enabled or not; one that cannot be read as a whole changes
  nothing (`qti_radio_ext.c:605`).
* An indication of the registration state that cannot be read is dropped
  (`qti_radio_ext.c:361`); `QtiIms!missed` remembers it when it is that of the
  last change of the service's state.
* In `QtiImsCall`, `seen` is the list as ofono last read it, which it does when
  the signal of a change is emitted.  The loss of voice emits none; `cleared`
  remembers one until the next signal, and `OfonoUpToDate` asks that `seen` is
  the list unless it is set, and then that the list is empty.
* In `QtiImsSms` a message is named by its request.  `request_free` runs ofono's
  destroy callback for every request the layer below has dropped in the step
  and for the one `send` frees because its id is 0; a request freed both ways
  is a second use of freed memory, with both outcomes again.
* In `QtiCallModem` requests, responses and indications travel in three FIFO
  channels, which are not ordered relative to each other: binder keeps the
  order of one-way calls to one object only, and responses and indications go
  to two.  The modem may fail any request.  It says which call has changed, or
  the state of all; on loss of voice its calls are gone without an indication
  of their own.
* When the reference count of an interface reaches zero it is finalized; no
  action of it happens after that in its own module.  `QtiSlot` has what remains
  connected to it (`connected`), and the fields of the slot (`fields`).
* In `QtiSlot` a request keeps the interface it is for.  References that are
  dropped and were never held -- the second free of a refused request, the
  failed swap -- are counted in `lost`.

Parcel contents, strings, logging and flags passed through to the service are
left out.

## Runs

| run | question | bounds |
|---|---|---|
| `radio_ext_safety` | does every request end for a reason and by its own answer, and is the contract kept, in every order of events? | 3 requests, 2 response codes, no wrap |
| `radio_ext_wrap` | are memory and callbacks accounted for when serials wrap, and does every request end? | 4 requests, serials modulo 2 |
| `ims_call_safety` | operations and references, swaps in two steps included | 2 operations, 3 requests, 2 calls in 3 states |
| `ims_call_events` | the list of calls under indications, and what ofono knows of it; does every operation end? | 2 calls in all states, 2 entries per indication, 1 operation, 2 requests |
| `call_modem` | does the list end up as the modem's calls; do swaps and handovers do to the calls what they are for? | 2 calls in all states, 1 operation, 3 requests, 2 events in the modem |
| `ims_call_swap_refs`, `ims_call_handover` | claims of comments and logs that the code does not keep (violated) | as `ims_call_safety`, 2 states |
| `ims_safety` | registration state, operations, references; does every operation end? | 2 operations, 4 requests, 2 changes between 2 states |
| `ims_stale`, `ims_result` | claims that the code does not keep (violated) | 1 operation, 1 change |
| `sms` | messages and acknowledgements, at the wrap too; does every message end? | 4 requests, serials modulo 3 |
| `slot` | who holds whom through the life of the objects? | 3 requests |

Why these bounds show something.  Three requests are one in dispatch, one it
submits from its callback and one it cancels; wrap-around modulo 2 makes a new
request replace a pending one, gives serial 0, and lets a cancellation by an
old id hit a new request.  In `QtiImsCall` two calls are enough for a full swap
(one active, one held or incoming), and three requests for a full swap together
with another operation or a hang-up of the handover; with two operations one
may be started from the callback of the other.  In `QtiIms` two changes of
state around an answer in flight give every order of old and new reports; two
states the service may take are enough to tell old from new, and one of them is
the one the interface translates (`INVALID`).  In `QtiImsSms` four requests
modulo 3 have serials 1, 2, 0, 1: an accepted request that looks refused, and a
message that replaces the first.  (What replaces an entry with serial 0 takes a
second wrap and is not reached.)  In `QtiSlot` three requests may be pending
for three interfaces.  In `QtiCallModem` the initial list may have any two
calls in different states, so that one operation and two events of the modem
reach a swap with its second step, an indication that crosses it, and a voice
loss or handover meanwhile.  A bound only stops new requests, operations and
changes of the service; it never drops an event the code must handle: `Room`
keeps place for the second step of every swap begun.  Deadlock is not checked,
because an idle system with its bounds used up stops.

The properties of `QtiCallModem` are stated with the conditions they need, kept
in `mishaps`.  `raced`: ofono asked for an operation, a dialled call connected,
or a handover was handled while a request or an indication was still on its
way.  Then a resumption on its way while a dialled call connects makes two
calls active, and the hang-up of a held call after a handover ends the active
one if a resumption is ahead of it: both are reachable in the model without the
condition, and nothing in the code prevents them.  `unread`: an indication was dropped because
one entry could not be read.  `unannounced`: voice was lost that had not been
reported as enabled, so that `voice_enabled` did not change.  After either the
list may keep calls the modem no longer has; `ListMatchesModem` holds otherwise.

## Liveness and fairness

* `QtiRadioExt!LoopFairness`, and the first part of the others: a callback that
  is due is run by the main loop, a handler that has begun runs on, since
  nothing in it blocks.  Weak fairness is enough: such an action stays enabled
  until it is taken.
* `ServiceFairness` and its counterparts: the service answers each request.
  The code cannot enforce this; it is what the liveness properties assume,
  because there is no timeout in the code: `QTI_RADIO_CALL_TIMEOUT`
  (`qti_radio_ext.c:43`) is defined and used nowhere, so that a request the
  service does not answer is pending for ever.
* In every module liveness is stated up to the death of the service: what is
  pending then stays pending (again for want of a timeout).  In `QtiIms`, where
  answers are messages on their way, the service is only assumed to go on
  answering while requests are unanswered; the number of requests is bounded,
  so that none is passed over for ever.

## Findings

1. A swap whose first step fails or is cancelled drops a reference to the call
   object that was never taken (`qti_ims_call.c:597` against `:641`).
2. A handover indication that cannot be read emits an uninitialized type and
   may hang up calls on hold (`qti_radio_ext.c:821`).
3. The answer to a check of the registration state may overwrite a newer state
   reported by an indication (`qti_ims.c:212`).
4. A registration change answered with SUCCESS (1) is reported as an error
   (`qti_ims.c:139`).

Properties that hold are stated next to these with the conditions the code
needs: `RefsExact` counts the failed swaps, `FreshCheckSettles` asks for a
check answered after the last change and that the indication of that change
could be read (if it is dropped, that of an earlier change handled after the
answer is the last word), `OpAccounted` of `QtiImsCall` allows an operation of
which a request was refused to be destroyed twice (the double free above),
`OnlyImsDangles` counts the references lost.

## What the code does and no property forbids

Some hazards of the code are visible in the model as steps it does take; the
properties are stated around them, and do not show their absence:

* a request that is never answered is pending for ever (`qti_radio_ext.c:43`),
  and the object of a synchronous request is never freed (`:1326`);
* the second free of a refused request (`:1325`): only how often ofono's destroy
  callback may run is checked;
* a swap cancelled during its second step goes on (`qti_ims_call.c:705`), and one
  whose second step is refused is not completed (`:581`); both are destroyed;
* an indication of calls that was dropped (`qti_radio_ext.c:605`) and a loss of
  voice that was never announced (`:711`) leave calls in the list that the modem
  no longer has;
* a handover reported twice hangs up the same call twice (`qti_ims_call.c:743`):
  what that does to the calls is outside `HandoverKeepsActive`;
* a registration change that was cancelled is completed (`qti_ims.c:292`), and the
  id of a message that has ended may cancel a newer one (`qti_ims_sms.c:275`).

## Proofs

`QtiRadioExtProofs`, for every number of requests, every width of the serial
and every set of response codes (`MaxRequestsAssumption`, `IdModAssumption`,
`CodesAssumption`).  The properties are not inductive: that a transaction in
flight refers to live memory needs that it belongs to an object in the table
(`TransactionsHeld`), that the second run of a callback is impossible needs
that only the request in dispatch is both completed and in the table
(`CompletionsTracked`), and that a cancelled request is silent needs that it is
not in the table (`TableAccepted`).  Their conjunction with `TypeOK` and
`Accounted` is `IInv`; `InitIInv`, `StepType` and `StepHeld` show it inductive,
with a lemma for each action that submits (`SubmitAcceptedHeld`,
`SubmitRefusedHeld`, `SubmitSyncHeld`) and one for the removal from the table
that response and cancellation share (`RemoveHeld`).

| theorem | statement |
|---|---|
| `Invariance` | `Spec => []IInv` |
| `TypeCorrect` | `Spec => []TypeOK` |
| `AccountedAlways` | `Spec => []Accounted` |
| `SentCallbackSafe` | `Spec => []SentCallbackLive` |
| `CompletedOnce` | `Spec => []CompletedAtMostOnce` |
| `CancelledSilent` | `Spec => CancelledIsSilent` |
| `NeverSilentlyReleased` | `NoWrap => (Spec => []NoSilentRelease)` |
| `OwnAnswer` | `NoWrap => (Spec => CompletedByOwnAnswer)` |
| `Refinement` | `NoWrap => (Spec => ContractSpec)` |

`NoWrap` (fewer requests than serials) is needed by the last three: when
serials wrap, a new request replaces, and destroys, a pending one.

`QtiSlotProofs`, for every number of requests (`MaxRequestsAssumption`).  That
the radio outlives the binder objects, and that only the IMS interface can be
freed under its handlers, follow from two facts that have to be shown together:
`SlotHolds`, what a connected slot never gives back and what an unconnected one
cannot have handed out, and the exact counts, `InterfacesExact` (each interface
has as many references as `Holders` says) and `RadioExact`.  Their conjunction
with `TypeOK` is `IInv`; `StepHolds`, `StepInterfaces` and `StepRadio` show it
inductive.  `UnrefEffect` and `UnrefRadio` are what dropping references does,
the finalization at the last one included; `CountInterfaces` turns the set of
the interfaces alive into a sum, and `PendingReleased` counts the requests.

| theorem | statement |
|---|---|
| `Invariance` | `Spec => []IInv` |
| `TypeCorrect` | `Spec => []TypeOK` |
| `RefsAlwaysExact` | `Spec => []RefsExact` |
| `RadioOutlives` | `Spec => []RadioOutlivesCallbacks` |
| `OnlyIms` | `Spec => []OnlyImsDangles` |

`QtiImsCallProofs`, for every number of requests and operations, any set of
calls, any states among those the code tells apart, and indications of any
length (`BoundsAssumption`, `CallIdsAssumption`, `StatesAssumption`,
`MaxBatchAssumption`, `BaseRefsAssumption`).  An operation is carried by one
request at a time, but while the second step of a swap is made there are two
in the table.  `Current` singles out the ones that carry: all that are pending,
but not a step 1 whose step 2 has been made or refused.  The properties follow
from `DestroyedLast` (an operation is destroyed when no current request is its
own any more, and one of which a request was refused has none), `OneOwner` (no two are), `TakenOver` (what step 1 gives up, step
2 has, or was refused), `CompletedPast` (what was completed has no request left
that could complete it again) and `ControlTracked` (a step 2 is due or made
only in the handler of its step 1).  `RoomLeft` and `Numbered` are there because a
bound on requests must never be what stops a second step.  Their conjunction
with the properties and `TypeOK` is `IInv`, which TLC has checked on the
instance of `ims_call_safety`.  There is a lemma for each kind of step: `Begin`
for every operation ofono starts, `StepActivate`, `HangupHeld`, `Response`,
`Released` for the end of a request, shared by `ResponseReturn` and `Cancel`,
and one for each indication.  What an indication does to the list is an
induction over its entries: the provers cannot use the induction theorems, so
`CallsAfter` and `VoiceLost` take the least entry at which the claim fails
(`Least`, from well-foundedness) and refute it.

| theorem | statement |
|---|---|
| `Invariance` | `Spec => []IInv` |
| `TypeCorrect` | `Spec => []TypeOK` |
| `CompletedOnce` | `Spec => []OpCompletedOnce` |
| `SuccessMeansAll` | `Spec => []OkMeansEveryRequestSucceeded` |
| `RefsAlwaysExact` | `Spec => []RefsExact` |
| `OperationsAccounted` | `Spec => []OpAccounted` |
| `NeverListedTwice` | `Spec => []CallsDistinct` |
| `OfonoTold` | `Spec => []OfonoUpToDate` |
| `CompletedFirst` | `Spec => NotCompletedAfterDestroy` |
| `CancelledSilent` | `Spec => CancelledOpSilent` |
| `VoiceLossClears` | `Spec => VoiceLossClearsCalls` |
| `UsesContract` | `Spec => Req!Spec` |

`UsesContract` closes the gap between the layers: each step of the interface is
one step of `RequestContract` or none, and `QtiRadioExt` implements just that
(`Refinement`).  `QtiImsProofs` has the same for the registration;
`QtiImsSmsProofs` shows instead that the SMS interface drives the request layer
itself only as that allows (`DrivesLayer`).

Its last section says what each step does to the requests (`AskMakes`,
`ActivateMakes`, `HangupMakes`, `ReturnEnds`, `CancelEnds`, `ResponseRuns`): that
is what a composition needs to know of the interface.

`QtiCallModemProofs`, for every number of requests, operations and events and
every finite set of calls (`CallAssumption`: what `QtiImsCall` assumes, with calls
in every state the code tells apart; `MaxEventsAssumption`).  The invariant of
`QtiImsCallProofs` is taken over as it is: `SameOperations` and `SameHandlers`
show that the interface used here is the one proved about, and every other step
leaves it alone (`InterfaceKept`).  On top of it:

* `Copied` makes `ListMatchesModem` inductive, which speaks only of moments when
  no indication is on its way: the indications on their way, handled one after
  the other, will turn the list into the modem's calls (`Leads`), with voice
  enabled at the end if the modem has announced it.  `LeadsOn` is for an
  indication that is sent, `LeadsFromNext` for one that is handled; `BecomeTold`
  says that an indication of the call that changed and one of all calls tell the
  same, `EntriesAfter` (of `QtiImsCallProofs`) what the list is afterwards.  The
  mishaps are where the step fails: an indication dropped because it could not
  be read, and voice lost that the interface did not know of.
* `Activity` is for `NeverTwoActive` and `HandoverKeepsActive`.  The requests on
  their way are one, or hang-ups of a handover, for idle calls (`CommandsSafe`);
  a step 1 pending is alone but for step 2 of an earlier swap, and once it has
  been executed with success no call is active (`StepAlone`), nor when its
  response is handled and step 2 is made (`ActivateSafe`).  A call is `Idle` when
  it is not active and cannot become so by itself: that the one dialled may is
  why a call in state "OTHER" is not.

| theorem | statement |
|---|---|
| `Invariance` | `Spec => []IInv` |
| `TypeCorrect` | `Spec => []TypeOK` |
| `ListIsCopy` | `Spec => []ListMatchesModem` |
| `NeverTwo` | `Spec => []NeverTwoActive` |
| `ActiveKept` | `Spec => HandoverKeepsActive` |

`QtiImsProofs`, for every number of requests, operations and changes of state
(`BoundsAssumption`, `BaseRefsAssumption`, `ReportedAssumption`).  The counts
need that a pending request is a check or the request of an operation past its
first half (`Owned`), and that a completed operation has no request that could
be completed again (`CompletedPast`).  `FreshCheckSettles` speaks of a moment
when nothing is on its way; it is inductive as `StateTracked`: the last report
on its way is of the present state (`LastReport`), so is the last readable
answer once a check was answered since the last change (`LastAnswer`), and when
there are none, so is the state kept, unless the last report was dropped
(`KeptIsCurrent`).  The handling of an
answer needs that it is the only one for a request that is still pending
(`ResponsesAwaited`).

| theorem | statement |
|---|---|
| `Invariance` | `Spec => []IInv` |
| `TypeCorrect` | `Spec => []TypeOK` |
| `FreshCheckWins` | `Spec => []FreshCheckSettles` |
| `OperationsAccounted` | `Spec => []OpAccounted` |
| `RefsAlwaysExact` | `Spec => []RefsExact` |
| `CompletedFirst` | `Spec => NotCompletedAfterDestroy` |
| `UsesContract` | `Spec => Req!Spec` |

`QtiImsSmsProofs`, for every number of requests and every width of the serial
(`BoundsAssumption`, `BaseRefsAssumption`).  Every step of the interface is a
step of the request layer or leaves it alone (`StepLayer`), so that the
invariant of `QtiRadioExtProofs` holds of the layer inside (`LayerHolds`); of
it the interface needs `Layer`.  On top of that `Own` counts the messages: what
the layer drops in a step is what the interface destroys (`Ended`, `Sends`),
also when a new message replaces a pending one or has the serial 0.

| theorem | statement |
|---|---|
| `Invariance` | `Spec => []IInv` |
| `TypeCorrect` | `Spec => []TypeOK` |
| `MessagesAccounted` | `Spec => []MessageAccounted` |
| `RefsAlwaysExact` | `Spec => []RefsExact` |
| `CompletedFirst` | `Spec => NotCompletedAfterDestroy` |
| `CancelledSilent` | `Spec => CancelledMessageSilent` |
| `DrivesLayer` | `Spec => Radio!Spec` |

`QtiUtils`, for every size of the header, of what is known of an entry and of
`gsize` (`Sizes`): the loop that skips unknown fields is a transition
system of its own, with `Invariance`.

| theorem | statement |
|---|---|
| `SkipEnds` | the count never wraps and stops within a word of the entry's end |
| `NextEntryFound` | the reader ends at the next entry, if the data reach that far |

Liveness (`OpEnds` and its like) is model-checked only: fairness and ENABLED are
out of the prover's reach.  So are the runs that expect a violation.

## Not modelled

* The ring and supplementary-service signals, incoming messages and delivery
  reports: they are forwarded as signals and change no state.  Indications that
  are only logged (voice over PS, service domain, radio state).
* The contents of requests and of the entries of an indication beyond the call
  and its state: numbers, call details, PDUs, strings.
* What ofono does with the list of calls within a signal, other than reading it
  and asking for operations.
* What follows the use of freed memory, beyond the outcomes listed above, and
  what ofono does with an interface freed under it.
* The recovery from the death of the service: the code has none (the extension
  does not watch for it).
* Packaging, the spec file and the makefile.

## Plan

1. Done: `RequestContract`, `QtiRadioExt`, `QtiImsCall`, `QtiCallModem`, `QtiIms`,
   `QtiImsSms`, `QtiSlot`, `QtiUtils`, and the proofs about each of them: every
   invariant and every action property that a passing run checks is proved.
