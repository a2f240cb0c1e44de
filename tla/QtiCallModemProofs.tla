-------------------------- MODULE QtiCallModemProofs --------------------------
(***************************************************************************)
(* Proofs about the call interface and the modem, for any number of        *)
(* requests, operations and events, and any finite set of calls.  What is  *)
(* proved of the interface is taken from QtiImsCallProofs.                 *)
(***************************************************************************)
EXTENDS QtiCallModem, FiniteSetTheorems, SequenceTheorems, TLAPS

CP == INSTANCE QtiImsCallProofs

------------------------------------------------------------------------------
(* The interface proved about is the interface used here. *)

LEMMA InterfaceAssumptions ==
  /\ CP!CallIdsAssumption /\ CP!BoundsAssumption /\ CP!BaseRefsAssumption
  /\ CP!StatesAssumption /\ CP!MaxBatchAssumption
BY CallAssumption DEF CP!CallIdsAssumption, CP!BoundsAssumption,
   CP!BaseRefsAssumption, CP!StatesAssumption, CP!MaxBatchAssumption,
   CP!AllStates, Call!AllStates

LEMMA SameRequests ==
  /\ \A j : Call!submit(j) => CP!submit(j)
  /\ \A r : Call!release(r) => CP!release(r)
  /\ \A r : Call!Req!Complete(r) => CP!Req!Complete(r)
  /\ \A j : Call!begin(j) => CP!begin(j)
<1> USE DEF Call!None, CP!None, Call!Requests, CP!Requests, Call!Ops, CP!Ops,
            Call!destroys, CP!destroys, Call!fails_swap, CP!fails_swap,
            Call!unrefs, CP!unrefs, Call!request_free, CP!request_free,
            Call!next_request, CP!next_request, Call!next_op, CP!next_op,
            Call!Cardinality, CP!Cardinality
<1>1. \A j : Call!submit(j) => CP!submit(j)
  BY Zenon DEF Call!submit, CP!submit, Call!Req!Accept, CP!Req!Accept,
               Call!Req!Refuse, CP!Req!Refuse
<1>2. \A r : Call!release(r) => CP!release(r)
  BY Zenon DEF Call!release, CP!release, Call!Req!Release, CP!Req!Release,
               Call!NoJob, CP!NoJob
<1>3. \A r : Call!Req!Complete(r) => CP!Req!Complete(r)
  BY Zenon DEF Call!Req!Complete, CP!Req!Complete
<1>4. \A j : Call!begin(j) => CP!begin(j)
  BY <1>1, Zenon
     DEF Call!begin, CP!begin, Call!ofono_asks, CP!ofono_asks, Call!Exists,
         CP!Exists, Call!Room, CP!Room, Call!Unfinished, CP!Unfinished,
         Call!list, CP!list, Call!loop, CP!loop
<1> QED BY <1>1, <1>2, <1>3, <1>4

LEMMA SameOperations ==
  /\ Call!dial => CP!dial
  /\ Call!answer => CP!answer
  /\ \A c : Call!hangup(c) => CP!hangup(c)
  /\ \A flag : Call!swap_active(flag) => CP!swap_active(flag)
  /\ Call!swap_inactive => CP!swap_inactive
  /\ \A o : Call!cancel(o) => CP!cancel(o)
<1> USE DEF Call!None, CP!None, Call!next_op, CP!next_op, Call!Cardinality,
            CP!Cardinality, Call!Job, CP!Job, Call!list, CP!list, Call!loop,
            CP!loop
<1>1. (Call!dial => CP!dial) /\ (Call!answer => CP!answer)
  BY SameRequests, Zenon
     DEF Call!dial, CP!dial, Call!radio_dial, CP!radio_dial, Call!answer,
         CP!answer, Call!radio_answer, CP!radio_answer
<1>2. \A c : Call!hangup(c) => CP!hangup(c)
  BY SameRequests, Zenon
     DEF Call!hangup, CP!hangup, Call!radio_hangup, CP!radio_hangup
<1>3. /\ \A s : Call!id_find_by_state(s) = CP!id_find_by_state(s)
      /\ Call!call_incoming = CP!call_incoming
  BY Zenon DEF Call!id_find_by_state, CP!id_find_by_state, Call!call_incoming,
               CP!call_incoming, Call!Min, CP!Min
<1>4. \A flag : Call!swap_active(flag) => CP!swap_active(flag)
  BY SameRequests, <1>3, Zenon
     DEF Call!swap_active, CP!swap_active, Call!radio_hangup, CP!radio_hangup,
         Call!radio_hold, CP!radio_hold
<1>5. Call!swap_inactive => CP!swap_inactive
  BY SameRequests, <1>3, Zenon
     DEF Call!swap_inactive, CP!swap_inactive, Call!activation, CP!activation,
         Call!radio_answer, CP!radio_answer, Call!radio_resume, CP!radio_resume
<1>6. \A o : Call!cancel(o) => CP!cancel(o)
  BY SameRequests, Zenon
     DEF Call!cancel, CP!cancel, Call!Exists, CP!Exists, Call!cancel_request,
         CP!cancel_request, Call!contract, CP!contract
<1> QED BY <1>1, <1>2, <1>4, <1>5, <1>6

LEMMA SameList == \A u : Call!calls_after(u) = CP!calls_after(u)
BY Zenon DEF Call!calls_after, CP!calls_after, Call!update_call, CP!update_call,
   Call!info_find, CP!info_find, Call!END, CP!END, Call!RemoveAt, CP!RemoveAt,
   Call!Min, CP!Min

LEMMA SameHandlers ==
  /\ Call!swap_step_activate => CP!swap_step_activate
  /\ Call!response_return => CP!response_return
  /\ Call!hangup_held => CP!hangup_held
  /\ \A r, result : Call!response(r, result) => CP!response(r, result)
  /\ \A u : Call!call_state_indication(u) => CP!call_state_indication(u)
  /\ \A u : Call!handle_service_status(u) => CP!handle_service_status(u)
  /\ \A t : Call!handover_indication(t) => CP!handover_indication(t)
<1> USE DEF Call!None, CP!None, Call!Exists, CP!Exists, Call!Cardinality,
            CP!Cardinality, Call!Job, CP!Job, Call!list, CP!list, Call!loop,
            CP!loop, Call!contract, CP!contract, Call!ops, CP!ops
<1>1. Call!swap_step_activate => CP!swap_step_activate
  BY SameRequests, Zenon
     DEF Call!swap_step_activate, CP!swap_step_activate, Call!activation,
         CP!activation, Call!radio_answer, CP!radio_answer, Call!radio_resume,
         CP!radio_resume
<1>2. Call!response_return => CP!response_return
  BY SameRequests, Zenon DEF Call!response_return, CP!response_return
<1>3. Call!hangup_held => CP!hangup_held
  BY SameRequests, Zenon
     DEF Call!hangup_held, CP!hangup_held, Call!radio_hangup, CP!radio_hangup,
         Call!Min, CP!Min
<1>4. \A r, result : Call!response(r, result) => CP!response(r, result)
  BY SameRequests, Zenon
     DEF Call!response, CP!response, Call!proceeds, CP!proceeds, Call!reports,
         CP!reports
<1>5. \A u : Call!call_state_indication(u) => CP!call_state_indication(u)
  BY SameList, Zenon
     DEF Call!call_state_indication, CP!call_state_indication,
         Call!handle_call_info, CP!handle_call_info, Call!signal_state_changed,
         CP!signal_state_changed
<1>6. \A u : Call!handle_service_status(u) => CP!handle_service_status(u)
  BY Zenon
     DEF Call!handle_service_status, CP!handle_service_status, Call!voice_lost,
         CP!voice_lost, Call!Last, CP!Last
<1>7. \A t : Call!handover_indication(t) => CP!handover_indication(t)
  BY Zenon
     DEF Call!handover_indication, CP!handover_indication, Call!Room, CP!Room,
         Call!Unfinished, CP!Unfinished, Call!held_calls, CP!held_calls,
         Call!HandoverTypes, CP!HandoverTypes, Call!handle_handover,
         CP!handle_handover
<1> QED BY <1>1, <1>2, <1>3, <1>4, <1>5, <1>6, <1>7

------------------------------------------------------------------------------
(* Sets as sequences *)

LEMMA Numbering ==
  ASSUME NEW S, NEW n \in Nat, NEW s \in [1..n -> S], IsFiniteSet(S),
         n = Cardinality(S), \A i, j \in 1..n : s[i] = s[j] => i = j
  PROVE  /\ s \in Seq(S) /\ Len(s) = n /\ DOMAIN s = 1..n /\ ToSet(s) = S
         /\ \A x : S = {x} => s = <<x>>
<1>1. s \in Seq(S) /\ Len(s) = n /\ DOMAIN s = 1..n
  BY IsASeq, LenProperties
<1>2. s \in Injection(1..n, S)
  BY DEF Injection, IsInjective
<1>3. Cardinality(1..n) = n /\ IsFiniteSet(1..n)
  BY FS_Interval
<1>4. s \in Surjection(1..n, S)
  BY <1>2, <1>3, FS_Injection
<1>5. ToSet(s) = S
  BY <1>1, <1>4 DEF ToSet, Surjection
<1>6. ASSUME NEW x, S = {x} PROVE s = <<x>>
  <2>1. n = 1
    BY <1>6, FS_Singleton
  <2>2. s[1] = x
    <3>1. 1 \in 1..n
      BY <2>1
    <3>2. s[1] \in S
      BY <3>1
    <3> QED BY <1>6, <3>2
  <2> QED BY <1>1, <1>6, <2>1, <2>2
<1> QED BY <1>1, <1>5, <1>6

LEMMA Listed ==
  ASSUME NEW S, IsFiniteSet(S)
  PROVE  /\ SetToSeq(S) \in Seq(S) /\ ToSet(SetToSeq(S)) = S
         /\ \A i, j \in DOMAIN SetToSeq(S) :
               SetToSeq(S)[i] = SetToSeq(S)[j] => i = j
         /\ S = {} => SetToSeq(S) = <<>>
         /\ \A x : S = {x} => SetToSeq(S) = <<x>>
<1>1. /\ Cardinality(S) \in Nat
      /\ \E f \in [1..Cardinality(S) -> S] : IsInjective(f)
  BY FS_CardinalityType DEF ExistsBijection, Bijection, Injection
<1>2. SetToSeq(S) \in [1..Cardinality(S) -> S] /\ IsInjective(SetToSeq(S))
  BY <1>1 DEF SetToSeq
<1>3. PICK n \in Nat : n = Cardinality(S)
  BY <1>1
<1>4. PICK s \in [1..n -> S] : s = SetToSeq(S) /\ IsInjective(s)
  BY <1>2, <1>3
<1>5. \A i, j \in 1..n : s[i] = s[j] => i = j
  BY <1>4 DEF IsInjective
<1>6. /\ s \in Seq(S) /\ Len(s) = n /\ DOMAIN s = 1..n /\ ToSet(s) = S
      /\ \A x : S = {x} => s = <<x>>
  BY <1>3, <1>5, Numbering
<1>7. S = {} => s = <<>>
  BY <1>3, <1>6, FS_EmptySet
<1> QED BY <1>4, <1>5, <1>6, <1>7

LEMMA Listings ==
  ASSUME NEW S, IsFiniteSet(S), NEW s \in SetToSeqs(S)
  PROVE  /\ s \in Seq(S) /\ ToSet(s) = S
         /\ \A i, j \in DOMAIN s : s[i] = s[j] => i = j
<1>1. PICK n \in Nat : n = Cardinality(S)
  BY FS_CardinalityType
<1>2. s \in [1..n -> S] /\ \A i, j \in 1..n : s[i] = s[j] => i = j
  BY <1>1 DEF SetToSeqs
<1> QED BY <1>1, <1>2, Numbering

------------------------------------------------------------------------------
(* What the list becomes when the indications on their way are handled *)

Infos == [id : CallIds, state : States \cup {Call!END}]

(* A call has one entry in an indication. *)
Updates == {u \in Seq(Infos) : \A i, j \in DOMAIN u : u[i].id = u[j].id => i = j}

Messages ==
    [kind : {"calls"}, update : Updates]
        \cup [kind : {"voice"}, update : {u \in Seq(BOOLEAN) : u # <<>>}]
        \cup [kind : {"handover"}, update : {<<>>}]

(* The entries of the list after those of an indication *)
Updated(entries, update) ==
    {e \in entries : \A i \in DOMAIN update : update[i].id # e.id}
        \cup {info \in ToSet(update) : info.state # Call!END}

Lost(on, enabled) ==
    \E i \in DOMAIN enabled :
        (IF i = 1 THEN on ELSE enabled[i - 1]) /\ ~ enabled[i]

(* The entries, and whether voice is enabled, after message m *)
Heard(entries, on, m) ==
    CASE m.kind = "calls" -> Updated(entries, m.update)
      [] m.kind = "voice" -> IF Lost(on, m.update) THEN {} ELSE entries
      [] OTHER -> entries

On(on, m) == IF m.kind = "voice" THEN Last(m.update) ELSE on

(* ... and after each of the messages: entries[n] those after the nth, n in
   enabled if voice is enabled then *)
Hears(messages, first, on, entries, enabled) ==
    /\ entries[0] = first /\ (0 \in enabled <=> on)
    /\ \A n \in 1..Len(messages) :
          /\ entries[n] = Heard(entries[n - 1], n - 1 \in enabled, messages[n])
          /\ n \in enabled <=> On(n - 1 \in enabled, messages[n])

(* From the list "first", and voice "on", the messages lead to "last". *)
Leads(messages, first, on, last, on_last) ==
    \E entries, enabled :
        /\ Hears(messages, first, on, entries, enabled)
        /\ entries[Len(messages)] = last
        /\ Len(messages) \in enabled <=> on_last

(* Without messages nothing changes. *)
LEMMA LeadsNowhere ==
  ASSUME NEW first, NEW on \in BOOLEAN
  PROVE  Leads(<<>>, first, on, first, on)
<1> DEFINE entries == [n \in 0..0 |-> first]
           enabled == {n \in 0..0 : on}
<1>1. entries[0] = first /\ (0 \in enabled <=> on)
  OBVIOUS
<1>2. Hears(<<>>, first, on, entries, enabled)
  BY <1>1 DEF Hears
<1> HIDE DEF entries, enabled
<1> QED BY <1>1, <1>2 DEF Leads

LEMMA LeadsOnlyHere ==
  ASSUME NEW first, NEW on \in BOOLEAN, NEW last, NEW on_last \in BOOLEAN,
         Leads(<<>>, first, on, last, on_last)
  PROVE  last = first /\ on_last = on
BY DEF Leads, Hears

(* One more message is sent. *)
LEMMA LeadsOn ==
  ASSUME NEW M, NEW messages \in Seq(M), NEW m \in M, NEW first, NEW on \in BOOLEAN,
         NEW last, NEW on_last \in BOOLEAN, Leads(messages, first, on, last, on_last)
  PROVE  Leads(Append(messages, m), first, on, Heard(last, on_last, m),
               On(on_last, m))
<1>1. PICK entries, enabled :
          /\ Hears(messages, first, on, entries, enabled)
          /\ entries[Len(messages)] = last
          /\ Len(messages) \in enabled <=> on_last
  BY DEF Leads
<1>2. PICK k \in Nat : k = Len(messages)
  BY LenProperties
<1>3. PICK next : next = Heard(last, on_last, m)
  OBVIOUS
<1>4. PICK more : more = Append(messages, m)
  OBVIOUS
<1>5. /\ Len(more) = k + 1 /\ more[k + 1] = m
      /\ \A n \in 1..k : more[n] = messages[n]
  BY <1>2, <1>4, AppendProperties
<1> DEFINE es == [n \in 0..(k + 1) |-> IF n <= k THEN entries[n] ELSE next]
           vs == {n \in 0..(k + 1) : IF n <= k THEN n \in enabled ELSE On(on_last, m)}
<1>6. /\ \A n \in 0..k : es[n] = entries[n] /\ (n \in vs <=> n \in enabled)
      /\ es[k + 1] = next /\ (k + 1 \in vs <=> On(on_last, m))
  OBVIOUS
<1> HIDE DEF es, vs
<1>7. es[0] = first /\ (0 \in vs <=> on)
  BY <1>1, <1>6 DEF Hears
<1>8. ASSUME NEW n \in 1..(k + 1)
      PROVE  /\ es[n] = Heard(es[n - 1], n - 1 \in vs, more[n])
             /\ n \in vs <=> On(n - 1 \in vs, more[n])
  <2>1. CASE n \in 1..k
    <3>1. /\ entries[n] = Heard(entries[n - 1], n - 1 \in enabled, messages[n])
          /\ n \in enabled <=> On(n - 1 \in enabled, messages[n])
      BY <1>1, <1>2, <2>1 DEF Hears
    <3>2. (n - 1 \in vs) = (n - 1 \in enabled) /\ es[n - 1] = entries[n - 1]
      BY <1>6, <2>1
    <3>3. n \in 0..k /\ more[n] = messages[n]
      BY <1>5, <2>1
    <3> QED BY <1>6, <3>1, <3>2, <3>3
  <2>2. CASE n = k + 1
    <3>1. (k \in vs) = on_last /\ es[k] = last
      BY <1>1, <1>2, <1>6
    <3>2. n - 1 = k
      BY <2>2
    <3> QED BY <1>3, <1>5, <1>6, <2>2, <3>1, <3>2
  <2>3. n \in 1..k \/ n = k + 1
    OBVIOUS
  <2> QED BY <2>1, <2>2, <2>3
<1>9. Hears(more, first, on, es, vs)
  BY <1>5, <1>7, <1>8 DEF Hears
<1>10. es[Len(more)] = next /\ (Len(more) \in vs <=> On(on_last, m))
  BY <1>5, <1>6
<1>11. Leads(more, first, on, next, On(on_last, m))
  BY <1>9, <1>10 DEF Leads
<1> QED BY <1>3, <1>4, <1>11

(* The first message is handled. *)
LEMMA LeadsFromNext ==
  ASSUME NEW M, NEW messages \in Seq(M), messages # <<>>, NEW first,
         NEW on \in BOOLEAN, NEW last, NEW on_last \in BOOLEAN,
         Leads(messages, first, on, last, on_last)
  PROVE  Leads(Tail(messages), Heard(first, on, Head(messages)),
               On(on, Head(messages)), last, on_last)
<1>1. PICK entries, enabled :
          /\ Hears(messages, first, on, entries, enabled)
          /\ entries[Len(messages)] = last
          /\ Len(messages) \in enabled <=> on_last
  BY DEF Leads
<1>2. PICK k \in Nat : k = Len(messages) - 1 /\ Len(messages) = k + 1
  BY EmptySeq
<1>3. PICK rest : rest = Tail(messages)
  OBVIOUS
<1>4. /\ Len(rest) = k /\ Head(messages) = messages[1]
      /\ \A n \in 1..k : rest[n] = messages[n + 1]
  BY <1>2, <1>3, HeadTailProperties
<1> DEFINE es == [n \in 0..k |-> entries[n + 1]]
           vs == {n \in 0..k : n + 1 \in enabled}
<1>5. \A n \in 0..k : es[n] = entries[n + 1] /\ (n \in vs <=> n + 1 \in enabled)
  OBVIOUS
<1> HIDE DEF es, vs
<1>6. /\ es[0] = Heard(first, on, Head(messages))
      /\ 0 \in vs <=> On(on, Head(messages))
  <2>1. /\ entries[1] = Heard(entries[0], 0 \in enabled, messages[1])
        /\ 1 \in enabled <=> On(0 \in enabled, messages[1])
    <3>1. 1 \in 1..Len(messages) /\ 1 - 1 = 0
      BY <1>2
    <3>2. \A n \in 1..Len(messages) :
              /\ entries[n] = Heard(entries[n - 1], n - 1 \in enabled, messages[n])
              /\ n \in enabled <=> On(n - 1 \in enabled, messages[n])
      BY <1>1 DEF Hears
    <3> QED BY <3>1, <3>2
  <2>2. entries[0] = first /\ (0 \in enabled) = on
    BY <1>1 DEF Hears
  <2>3. es[0] = entries[1] /\ (0 \in vs <=> 1 \in enabled)
    BY <1>5
  <2> QED BY <1>4, <2>1, <2>2, <2>3
<1>7. ASSUME NEW n \in 1..k
      PROVE  /\ es[n] = Heard(es[n - 1], n - 1 \in vs, rest[n])
             /\ n \in vs <=> On(n - 1 \in vs, rest[n])
  <2>1. n + 1 \in 1..Len(messages) /\ n + 1 - 1 = n /\ n - 1 + 1 = n
    BY <1>2
  <2>2. /\ entries[n + 1] = Heard(entries[n], n \in enabled, messages[n + 1])
        /\ n + 1 \in enabled <=> On(n \in enabled, messages[n + 1])
    BY <1>1, <2>1 DEF Hears
  <2>3. (n - 1 \in vs) = (n \in enabled) /\ es[n - 1] = entries[n]
    BY <1>5, <2>1
  <2> QED BY <1>4, <1>5, <2>2, <2>3
<1>8. Hears(rest, Heard(first, on, Head(messages)), On(on, Head(messages)), es, vs)
  BY <1>4, <1>6, <1>7 DEF Hears
<1>9. es[Len(rest)] = last /\ (Len(rest) \in vs <=> on_last)
  BY <1>1, <1>2, <1>4, <1>5
<1>10. Leads(rest, Heard(first, on, Head(messages)), On(on, Head(messages)), last,
             on_last)
  BY <1>8, <1>9 DEF Leads
<1> QED BY <1>3, <1>10

------------------------------------------------------------------------------
(* The invariant *)

Commands == [request : CP!Requests, kind : {"dial", "answer", "hold", "resume", "hangup"},
             call : CallIds \cup {CP!None},
             role : {"whole", "step1", "step2", "handover"}]

Answers == [request : CP!Requests, result : {"SUCCESS", "FAILURE"}]

ModemTyped ==
    /\ modem \in [CallIds -> States \cup {NoCall}]
    /\ voice \in BOOLEAN /\ announced \in BOOLEAN
    /\ events \in 0..MaxEvents
    /\ mishaps \subseteq {"raced", "unread", "unannounced"}
    /\ remote = "alive"

(* What is on its way is of a request that was made, and as it was made while
   the request is pending. *)
ChannelsTyped ==
    /\ commands \in Seq(Commands)
    /\ answers \in Seq(Answers)
    /\ indications \in Seq(Messages)
    /\ \A i \in DOMAIN commands :
          /\ commands[i].request \in known
          /\ commands[i].request \in outstanding =>
                commands[i].role = job[commands[i].request].role
    /\ \A i \in DOMAIN answers : answers[i].request \in known

(* The calls in the modem, as entries of the list *)
Entries == {Info(c, modem[c]) : c \in Present}

(* The indications on their way will make the list a copy of these. *)
Copied ==
    mishaps \subseteq {"raced"} =>
        \E on \in BOOLEAN :
            /\ Leads(indications, ToSet(calls), voice_enabled, Entries, on)
            /\ voice /\ announced => on

(* A call that may be hung up and none the less not be active, now or next *)
Idle(c) == c \in CallIds /\ modem[c] \notin {"ACTIVE", "OTHER"}

OneActive == \A c, d \in Active : c = d

(* Requests travel alone, but for those of a handover.  Those are for calls that
   are idle, step 1 of a swap for the active call, and a call is activated when
   none is active. *)
CommandsSafe ==
    \A i \in DOMAIN commands :
        /\ commands[i].role = "handover" \/ Len(commands) = 1
        /\ commands[i].role = "handover" =>
              commands[i].kind = "hangup" /\ Idle(commands[i].call)
        /\ commands[i].role = "step1" =>
              /\ commands[i].kind \in {"hold", "hangup"}
              /\ Active \subseteq {commands[i].call}
        /\ commands[i].kind \in {"answer", "resume"} => Active = {}

(* While step 1 of a swap is pending, no other request is but a step 2.  What is
   on its way to the modem then is step 1, and once it has succeeded no call is
   active. *)
StepAlone ==
    \A r \in outstanding :
        job[r].role = "step1" =>
            /\ \A q \in outstanding : q # r => job[q].role = "step2"
            /\ completions[r] = 0 =>
                  /\ commands # <<>> =>
                        /\ commands[1].request = r
                        /\ \A i \in DOMAIN answers : answers[i].request # r
                  /\ \A i \in DOMAIN answers :
                        answers[i].request = r /\ answers[i].result = "SUCCESS"
                            => Active = {}

(* ... not when step 2 is made either. *)
ActivateSafe == control = "activate" => Active = {} /\ commands = <<>>

(* After a handover only hang-ups are on their way, and only idle calls are hung
   up. *)
HandoverSafe ==
    control = "handover" =>
        /\ \A r \in outstanding : job[r].role # "step1"
        /\ \A i \in hangups : Idle(calls[i].id)
        /\ \A i \in DOMAIN commands : commands[i].role = "handover"

Activity ==
    mishaps = {} => /\ OneActive /\ CommandsSafe /\ StepAlone
                    /\ ActivateSafe /\ HandoverSafe

IInv == CP!IInv /\ ModemTyped /\ ChannelsTyped /\ Copied /\ Activity

------------------------------------------------------------------------------
(* The channels *)

Sent(r, j) == [request |-> r, kind |-> j.kind, call |-> j.call, role |-> j.role]

LEMMA SendsOne ==
  ASSUME NEW r, NEW j, CP!Made(r, j), outstanding \subseteq known, sends
  PROVE  commands' = commands \o <<Sent(r, j)>>
<1> DEFINE new == {[request |-> q, kind |-> job'[q].kind, call |-> job'[q].call,
                    role |-> job'[q].role] : q \in outstanding' \ outstanding}
<1>1. outstanding' \ outstanding = {r} /\ job'[r] = j
  BY DEF CP!Made
<1>2. new = {Sent(r, j)}
  BY <1>1 DEF Sent
<1>3. SetToSeq(new) = <<Sent(r, j)>>
  BY <1>2, Listed, FS_Singleton
<1>4. commands' = commands \o SetToSeq(new)
  BY DEF sends
<1> QED BY <1>3, <1>4

LEMMA SendsNone ==
  ASSUME CP!Ending, ChannelsTyped, sends
  PROVE  commands' = commands
<1> DEFINE new == {[request |-> q, kind |-> job'[q].kind, call |-> job'[q].call,
                    role |-> job'[q].role] : q \in outstanding' \ outstanding}
<1>1. new = {}
  BY DEF CP!Ending
<1>2. SetToSeq(new) = <<>>
  BY <1>1, Listed, FS_EmptySet
<1>3. commands' = commands \o SetToSeq(new)
  BY DEF sends
<1> QED BY <1>2, <1>3, ConcatEmptySeq DEF ChannelsTyped

LEMMA ChannelsSend ==
  ASSUME CP!TypeOK, CP!TypeOK', ChannelsTyped, NEW r, NEW j \in CP!Jobs,
         CP!Made(r, j), sends, UNCHANGED <<answers, indications>>
  PROVE  /\ ChannelsTyped'
         /\ Len(commands') = Len(commands) + 1
         /\ \A i \in DOMAIN commands : i \in DOMAIN commands' /\ commands'[i] = commands[i]
         /\ \A i \in DOMAIN commands' :
               i \in DOMAIN commands \/ (i = Len(commands') /\ commands'[i] = Sent(r, j))
<1>1. outstanding \subseteq known /\ known' \subseteq CP!Requests
  BY DEF CP!TypeOK
<1>2. commands' = commands \o <<Sent(r, j)>>
  BY <1>1, SendsOne
<1>3. r \in known' /\ known \subseteq known' /\ r \notin known
      /\ outstanding' = outstanding \cup {r} /\ job'[r] = j
      /\ \A q \in known : job'[q] = job[q]
  BY DEF CP!Made
<1>4. Sent(r, j) \in Commands
  BY <1>1, <1>3 DEF Sent, Commands, CP!Jobs
<1>5. PICK m \in Commands : m = Sent(r, j)
  BY <1>4
<1>6. commands \in Seq(Commands) /\ <<m>> \in Seq(Commands) /\ Len(<<m>>) = 1
      /\ <<m>>[1] = m
  BY DEF ChannelsTyped
<1>7. PICK k \in Nat : k = Len(commands) /\ DOMAIN commands = 1..k
  BY <1>6, LenProperties
<1>8. /\ commands' \in Seq(Commands) /\ Len(commands') = k + 1
      /\ DOMAIN commands' = 1..(k + 1)
      /\ \A i \in 1..k : commands'[i] = commands[i]
      /\ commands'[k + 1] = m
  <2>1. commands' = commands \o <<m>>
    BY <1>2, <1>5
  <2>2. /\ commands' \in Seq(Commands) /\ Len(commands') = k + 1
        /\ \A i \in 1..(k + 1) :
              commands'[i] = IF i <= k THEN commands[i] ELSE <<m>>[i - k]
    BY <1>6, <1>7, <2>1, ConcatProperties
  <2>3. DOMAIN commands' = 1..(k + 1)
    BY <2>2, LenProperties
  <2>4. commands'[k + 1] = m
    <3>1. k + 1 \in 1..(k + 1) /\ ~ (k + 1 <= k) /\ k + 1 - k = 1
      OBVIOUS
    <3> QED BY <1>6, <2>2, <3>1
  <2>5. \A i \in 1..k : commands'[i] = commands[i]
    BY <2>2
  <2> QED BY <2>2, <2>3, <2>4, <2>5
<1>9. /\ \A i \in DOMAIN commands : i \in DOMAIN commands' /\ commands'[i] = commands[i]
      /\ \A i \in DOMAIN commands' :
            i \in DOMAIN commands \/ (i = Len(commands') /\ commands'[i] = Sent(r, j))
  BY <1>5, <1>7, <1>8
<1>10. ASSUME NEW i \in DOMAIN commands'
       PROVE  /\ commands'[i].request \in known'
              /\ commands'[i].request \in outstanding' =>
                    commands'[i].role = job'[commands'[i].request].role
  <2>1. CASE i \in DOMAIN commands
    <3>1. /\ commands'[i] = commands[i] /\ commands[i].request \in known
          /\ commands[i].request \in outstanding =>
                commands[i].role = job[commands[i].request].role
      BY <1>9, <2>1 DEF ChannelsTyped
    <3>2. PICK q : q = commands[i].request
      OBVIOUS
    <3>3. q \in known' /\ job'[q] = job[q] /\ (q \in outstanding' => q \in outstanding)
      BY <1>3, <3>1, <3>2
    <3>4. commands'[i].request = q /\ commands'[i].role = commands[i].role
      BY <3>1, <3>2
    <3> QED BY <3>1, <3>2, <3>3, <3>4
  <2>2. CASE commands'[i] = Sent(r, j)
    BY <1>3, <2>2 DEF Sent
  <2> QED BY <1>9, <2>1, <2>2
<1>11. ChannelsTyped'
  BY <1>3, <1>8, <1>10 DEF ChannelsTyped
<1> QED BY <1>7, <1>8, <1>9, <1>11

(* Nothing on its way changes its meaning when requests end. *)
LEMMA ChannelsEnd ==
  ASSUME ChannelsTyped, CP!Ending, UNCHANGED <<commands, answers, indications>>
  PROVE  ChannelsTyped'
BY DEF ChannelsTyped, CP!Ending

------------------------------------------------------------------------------
(* The list and the modem *)

LEMMA SameSets == \A s : CP!ToSet(s) = ToSet(s)
BY DEF CP!ToSet, ToSet

(* No state of a call is taken for the absence of one. *)
LEMMA CallStates ==
  /\ States = {"ACTIVE", "HOLDING", "INCOMING", "WAITING", "OTHER"}
  /\ NoCall \notin States /\ Call!END \notin States /\ NoCall # Call!END
  /\ CP!None = 0 /\ Call!None = 0 /\ \A c \in CallIds : c \in Nat /\ c # 0
BY CallAssumption DEF Call!AllStates, NoCall, Call!END, CP!None, Call!None

LEMMA InEntries ==
  ASSUME ModemTyped
  PROVE  \A c, s : [id |-> c, state |-> s] \in Entries
                      <=> c \in CallIds /\ s \in States /\ modem[c] = s
BY DEF Entries, Present, InState, Info

(* When nothing is on its way, the list has the calls of the modem. *)
LEMMA ListUpToDate ==
  ASSUME CP!IInv, ModemTyped, Copied, mishaps \subseteq {"raced"},
         indications = <<>>
  PROVE  ToSet(calls) = Entries
<1>1. PICK on \in BOOLEAN : Leads(<<>>, ToSet(calls), voice_enabled, Entries, on)
  BY DEF Copied
<1>2. voice_enabled \in BOOLEAN
  BY DEF CP!IInv, CP!TypeOK
<1> QED BY <1>1, <1>2, LeadsOnlyHere

LEMMA ListedActive ==
  ASSUME CP!IInv, ModemTyped, Copied, mishaps = {}, indications = <<>>
  PROVE  /\ CP!id_find_by_state("ACTIVE") # CP!None =>
               CP!id_find_by_state("ACTIVE") \in Active
         /\ CP!id_find_by_state("ACTIVE") = CP!None => Active = {}
<1>1. ToSet(calls) = Entries
  BY ListUpToDate
<1>2. PICK a : a = CP!id_find_by_state("ACTIVE")
  OBVIOUS
<1>3. /\ a # CP!None => [id |-> a, state |-> "ACTIVE"] \in Entries
      /\ a = CP!None => \A e \in Entries : e.state # "ACTIVE"
  BY <1>1, <1>2, InterfaceAssumptions, SameSets, CP!FoundState DEF CP!IInv
<1>4. a # CP!None => a \in Active
  BY <1>3, InEntries DEF Active, InState
<1>5. ASSUME a = CP!None, NEW c \in Active PROVE FALSE
  <2>1. [id |-> c, state |-> "ACTIVE"] \in Entries
    BY CallStates, InEntries DEF Active, InState
  <2> QED BY <1>3, <1>5, <2>1
<1> QED BY <1>2, <1>4, <1>5

------------------------------------------------------------------------------
(* The steps of the interface *)

(* They leave the modem alone, and most of them the list and the indications. *)
LEMMA ModemKept ==
  ASSUME ModemTyped, UnchangedModem, remote' = remote,
         mishaps' \subseteq {"raced", "unread", "unannounced"}
  PROVE  ModemTyped' /\ Entries' = Entries /\ Active' = Active
BY DEF ModemTyped, UnchangedModem, Entries, Present, Active, InState, Info

LEMMA CopiedKept ==
  ASSUME Copied, ModemTyped, UnchangedModem, remote' = remote,
         mishaps \subseteq mishaps', UNCHANGED <<calls, voice_enabled>>,
         mishaps' \subseteq {"raced", "unread", "unannounced"}
  PROVE  Copied'
<1>1. Entries' = Entries
  BY ModemKept
<1>2. indications' = indications /\ voice' = voice /\ announced' = announced
      /\ ToSet(calls)' = ToSet(calls)
  BY DEF UnchangedModem
<1> QED BY <1>1, <1>2 DEF Copied

(* ofono asks for an operation. *)
LEMMA AsksKeeps ==
  ASSUME IInv, ofono_asks
  PROVE  IInv'
<1>1. \/ CP!dial \/ CP!swap_inactive
      \/ CP!answer /\ CP!id_find_by_state("ACTIVE") = CP!None
      \/ \E c \in CallIds : CP!hangup(c)
      \/ \E flag \in {"NONE", "HANGUP"} : CP!swap_active(flag)
  BY SameOperations DEF ofono_asks, Call!id_find_by_state, CP!id_find_by_state,
     Call!None, CP!None, Call!Min, CP!Min
<1>2. /\ sends /\ UNCHANGED answers /\ UnchangedModem
      /\ mishaps' = mishaps \cup IF ~ InStep THEN {"raced"} ELSE {}
  BY DEF ofono_asks, mishap
<1>3. /\ CP!IInv /\ CP!TypeOK /\ remote = "alive"
      /\ mishaps \subseteq {"raced", "unread", "unannounced"}
  BY DEF IInv, ModemTyped, CP!IInv
<1>4. /\ CP!IInv' /\ control' = control /\ control \in {"loop", "ofono"}
      /\ \E j \in CP!Jobs : \E r :
               /\ CP!Made(r, j) /\ j.role \in {"whole", "step1"}
               /\ j.role = "step1" => /\ j.kind \in {"hold", "hangup"}
                                      /\ j.call = CP!id_find_by_state("ACTIVE")
                                      /\ j.call # CP!None
               /\ j.kind \in {"answer", "resume"} =>
                     CP!id_find_by_state("ACTIVE") = CP!None
  BY <1>1, <1>3, InterfaceAssumptions, CP!AskMakes
<1>5. PICK j \in CP!Jobs, r \in known' :
               /\ CP!Made(r, j) /\ j.role \in {"whole", "step1"}
               /\ j.role = "step1" => /\ j.kind \in {"hold", "hangup"}
                                      /\ j.call = CP!id_find_by_state("ACTIVE")
                                      /\ j.call # CP!None
               /\ j.kind \in {"answer", "resume"} =>
                     CP!id_find_by_state("ACTIVE") = CP!None
  BY <1>4 DEF CP!Made
<1>6. CP!TypeOK' /\ UNCHANGED <<calls, voice_enabled, completions, remote>>
  BY <1>4, <1>5 DEF CP!IInv, CP!Made
<1>7. ModemTyped' /\ Active' = Active /\ modem' = modem
  BY <1>2, <1>3, <1>6, ModemKept DEF IInv, UnchangedModem
<1>8. Copied'
  BY <1>2, <1>3, <1>6, CopiedKept DEF IInv
<1>9. /\ ChannelsTyped' /\ Len(commands') = Len(commands) + 1
      /\ \A i \in DOMAIN commands' :
               i \in DOMAIN commands \/ (i = Len(commands') /\ commands'[i] = Sent(r, j))
  <2>1. UNCHANGED <<answers, indications>>
    BY <1>2 DEF UnchangedModem
  <2> QED BY <1>2, <1>3, <1>5, <1>6, <2>1, ChannelsSend DEF IInv
<1>10. ASSUME mishaps' = {}
       PROVE  OneActive' /\ CommandsSafe' /\ StepAlone' /\ ActivateSafe' /\ HandoverSafe'
  <2>1. mishaps = {} /\ InStep
    BY <1>2, <1>10
  <2>2. indications = <<>> /\ commands = <<>> /\ outstanding = {}
    BY <2>1 DEF InStep
  <2>3. OneActive
    BY <2>1 DEF IInv, Activity
  <2>4. /\ CP!id_find_by_state("ACTIVE") # CP!None =>
               CP!id_find_by_state("ACTIVE") \in Active
        /\ CP!id_find_by_state("ACTIVE") = CP!None => Active = {}
    BY <2>1, <2>2, ListedActive DEF IInv
  <2>5. /\ Len(commands') = 1 /\ DOMAIN commands' = {1}
        /\ commands'[1] = Sent(r, j)
    <3>1. Len(commands') = 1 /\ DOMAIN commands = {}
      BY <1>9, <2>2
    <3>2. DOMAIN commands' = {1}
      BY <1>9, <3>1, LenProperties DEF ChannelsTyped
    <3> QED BY <1>9, <3>1, <3>2
  <2>6. /\ outstanding' = {r} /\ job'[r] = j /\ r \notin known
    BY <1>5, <2>2 DEF CP!Made
  <2>7. CommandsSafe'
    <3>1. j.role = "step1" => j.kind \in {"hold", "hangup"} /\ Active \subseteq {j.call}
      BY <1>5, <2>3, <2>4 DEF OneActive
    <3>2. j.kind \in {"answer", "resume"} => Active = {}
      BY <1>5, <2>4
    <3>3. j.role # "handover"
      BY <1>5
    <3> QED BY <1>7, <2>5, <3>1, <3>2, <3>3 DEF CommandsSafe, Sent
  <2>8. StepAlone'
    <3>1. \A i \in DOMAIN answers : answers[i].request # r
      BY <2>6 DEF IInv, ChannelsTyped
    <3>2. commands'[1].request = r /\ answers' = answers
      BY <1>2, <2>5 DEF Sent
    <3> QED BY <2>6, <3>1, <3>2 DEF StepAlone
  <2>9. OneActive'
    BY <1>7, <2>3 DEF OneActive
  <2>10. ActivateSafe' /\ HandoverSafe'
    BY <1>4 DEF ActivateSafe, HandoverSafe
  <2> QED BY <2>7, <2>8, <2>9, <2>10
<1> QED BY <1>4, <1>7, <1>8, <1>9, <1>10 DEF IInv, Activity

(* Requests end. *)
LEMMA EndsKeeps ==
  ASSUME IInv, CP!IInv', CP!Ending, control' \notin {"activate", "handover"},
         UNCHANGED <<commands, answers, mishaps>>, UnchangedModem
  PROVE  IInv'
<1>1. UNCHANGED <<calls, voice_enabled, completions, remote>>
  BY DEF CP!Ending
<1>2. ModemTyped' /\ Active' = Active /\ modem' = modem /\ indications' = indications
  BY <1>1, ModemKept DEF IInv, UnchangedModem, ModemTyped
<1>3. Copied'
  BY <1>1, CopiedKept DEF IInv, ModemTyped
<1>4. ChannelsTyped'
  BY <1>2, ChannelsEnd DEF IInv
<1>5. ASSUME mishaps = {}
      PROVE  OneActive' /\ CommandsSafe' /\ StepAlone' /\ ActivateSafe' /\ HandoverSafe'
  <2>1. OneActive /\ CommandsSafe /\ StepAlone
    BY <1>5 DEF IInv, Activity
  <2>2. OneActive' /\ CommandsSafe'
    BY <1>2, <2>1 DEF OneActive, CommandsSafe, Idle
  <2>3. StepAlone'
    BY <1>1, <1>2, <2>1 DEF StepAlone, CP!Ending
  <2>4. ActivateSafe' /\ HandoverSafe'
    BY DEF ActivateSafe, HandoverSafe
  <2> QED BY <2>2, <2>3, <2>4
<1> QED BY <1>2, <1>3, <1>4, <1>5 DEF IInv, Activity

LEMMA CancelsKeeps ==
  ASSUME IInv, ofono_cancels
  PROVE  IInv'
<1>1. PICK o \in CP!Ops : CP!cancel(o)
  BY SameOperations DEF ofono_cancels, Call!Ops, CP!Ops
<1>2. CP!IInv' /\ CP!Ending /\ control' \in {"loop", "ofono"}
  BY <1>1, InterfaceAssumptions, CP!CancelEnds DEF IInv
<1> QED BY <1>2, EndsKeeps DEF ofono_cancels

LEMMA ReturnKeeps ==
  ASSUME IInv, runs_on, CP!response_return
  PROVE  IInv'
<1>1. CP!IInv' /\ CP!Ending /\ control' = "loop"
  BY InterfaceAssumptions, CP!ReturnEnds DEF IInv
<1>2. commands' = commands
  BY <1>1, SendsNone DEF runs_on, IInv
<1> QED BY <1>1, <1>2, EndsKeeps DEF runs_on

(* Step 2 of a swap is made: no call is active, and nothing else on its way. *)
LEMMA ActivateKeeps ==
  ASSUME IInv, runs_on, CP!swap_step_activate
  PROVE  IInv'
<1>1. /\ sends /\ UNCHANGED <<answers, mishaps>> /\ UnchangedModem
  BY DEF runs_on
<1>2. /\ CP!IInv /\ CP!TypeOK /\ remote = "alive"
      /\ mishaps \subseteq {"raced", "unread", "unannounced"}
  BY DEF IInv, ModemTyped, CP!IInv
<1>3. /\ CP!IInv' /\ control = "activate" /\ control' = "return"
      /\ \E j \in CP!Jobs : \E r :
            /\ CP!Made(r, j)
            /\ j.role = "step2" /\ j.kind \in {"answer", "resume"}
  BY <1>2, InterfaceAssumptions, CP!ActivateMakes
<1>4. PICK j \in CP!Jobs, r \in known' :
            /\ CP!Made(r, j)
            /\ j.role = "step2" /\ j.kind \in {"answer", "resume"}
  BY <1>3 DEF CP!Made
<1>5. CP!TypeOK' /\ UNCHANGED <<calls, voice_enabled, completions, remote>>
  BY <1>3, <1>4 DEF CP!IInv, CP!Made
<1>6. ModemTyped' /\ Active' = Active /\ modem' = modem
  BY <1>1, <1>2, <1>5, ModemKept DEF IInv, UnchangedModem
<1>7. Copied'
  BY <1>1, <1>2, <1>5, CopiedKept DEF IInv
<1>8. /\ ChannelsTyped' /\ Len(commands') = Len(commands) + 1
      /\ \A i \in DOMAIN commands' :
            i \in DOMAIN commands \/ (i = Len(commands') /\ commands'[i] = Sent(r, j))
  <2>1. UNCHANGED <<answers, indications>>
    BY <1>1 DEF UnchangedModem
  <2> QED BY <1>1, <1>2, <1>4, <1>5, <2>1, ChannelsSend DEF IInv
<1>9. ASSUME mishaps = {}
      PROVE  OneActive' /\ CommandsSafe' /\ StepAlone' /\ ActivateSafe' /\ HandoverSafe'
  <2>1. OneActive /\ StepAlone /\ Active = {} /\ commands = <<>>
    BY <1>3, <1>9 DEF IInv, Activity, ActivateSafe
  <2>2. \A i \in DOMAIN commands' : Len(commands') = 1 /\ commands'[i] = Sent(r, j)
    BY <1>8, <2>1
  <2>3. CommandsSafe'
    BY <1>4, <1>6, <2>1, <2>2 DEF CommandsSafe, Sent
  <2>4. /\ dispatching \in outstanding /\ job[dispatching].role = "step1"
        /\ completions[dispatching] > 0
    BY <1>2, <1>3, InterfaceAssumptions, CP!ActivateInDispatch
  <2>5. /\ outstanding' = outstanding \cup {r} /\ job'[r] = j
        /\ \A q \in outstanding : job'[q] = job[q] /\ q # r
    BY <1>2, <1>4 DEF CP!Made, CP!TypeOK
  <2>6. ASSUME NEW s \in outstanding', job'[s].role = "step1"
        PROVE  /\ \A q \in outstanding' : q # s => job'[q].role = "step2"
               /\ completions'[s] # 0
    <3>1. s \in outstanding /\ job[s].role = "step1"
      BY <1>4, <2>5, <2>6
    <3>2. s = dispatching
      BY <2>1, <2>4, <3>1 DEF StepAlone
    <3>3. completions[s] # 0
      BY <2>4, <3>2
    <3>4. \A q \in outstanding : q # s => job[q].role = "step2"
      BY <2>1, <3>1 DEF StepAlone
    <3> QED BY <1>4, <1>5, <2>5, <3>3, <3>4
  <2>7. StepAlone'
    BY <2>6 DEF StepAlone
  <2>8. OneActive' /\ ActivateSafe' /\ HandoverSafe'
    BY <1>3, <1>6, <2>1 DEF OneActive, ActivateSafe, HandoverSafe
  <2> QED BY <2>3, <2>7, <2>8
<1> QED BY <1>1, <1>3, <1>6, <1>7, <1>8, <1>9 DEF IInv, Activity

(* A call on hold is hung up after a handover. *)
LEMMA HangupKeeps ==
  ASSUME IInv, runs_on, CP!hangup_held
  PROVE  IInv'
<1>1. /\ sends /\ UNCHANGED <<answers, mishaps>> /\ UnchangedModem
  BY DEF runs_on
<1>2. /\ CP!IInv /\ CP!TypeOK /\ remote = "alive"
      /\ mishaps \subseteq {"raced", "unread", "unannounced"}
  BY DEF IInv, ModemTyped, CP!IInv
<1>3. /\ CP!IInv' /\ control = "handover" /\ control' \in {"loop", "handover"}
      /\ hangups' \subseteq hangups
      /\ \E j \in CP!Jobs : \E r :
            /\ CP!Made(r, j) /\ j.role = "handover" /\ j.kind = "hangup"
            /\ \E i \in hangups : j.call = calls[i].id
  BY <1>2, InterfaceAssumptions, CP!HangupMakes
<1>4. PICK j \in CP!Jobs, r \in known' :
            /\ CP!Made(r, j) /\ j.role = "handover" /\ j.kind = "hangup"
            /\ \E i \in hangups : j.call = calls[i].id
  BY <1>3 DEF CP!Made
<1>5. CP!TypeOK' /\ UNCHANGED <<calls, voice_enabled, completions, remote>>
  BY <1>3, <1>4 DEF CP!IInv, CP!Made
<1>6. ModemTyped' /\ Active' = Active /\ modem' = modem
  BY <1>1, <1>2, <1>5, ModemKept DEF IInv, UnchangedModem
<1>7. Copied'
  BY <1>1, <1>2, <1>5, CopiedKept DEF IInv
<1>8. /\ ChannelsTyped'
      /\ \A i \in DOMAIN commands : commands'[i] = commands[i]
      /\ \A i \in DOMAIN commands' :
            i \in DOMAIN commands \/ (i = Len(commands') /\ commands'[i] = Sent(r, j))
  <2>1. UNCHANGED <<answers, indications>>
    BY <1>1 DEF UnchangedModem
  <2> QED BY <1>1, <1>2, <1>4, <1>5, <2>1, ChannelsSend DEF IInv
<1>9. ASSUME mishaps = {}
      PROVE  OneActive' /\ CommandsSafe' /\ StepAlone' /\ ActivateSafe' /\ HandoverSafe'
  <2>1. /\ OneActive /\ CommandsSafe
        /\ \A q \in outstanding : job[q].role # "step1"
        /\ \A i \in hangups : Idle(calls[i].id)
        /\ \A i \in DOMAIN commands : commands[i].role = "handover"
    BY <1>3, <1>9 DEF IInv, Activity, HandoverSafe
  <2>2. \A i \in DOMAIN commands' :
            commands'[i].role = "handover" /\ commands'[i].kind = "hangup"
            /\ Idle(commands'[i].call)
    <3>1. \A i \in DOMAIN commands :
              commands[i].kind = "hangup" /\ Idle(commands[i].call)
      BY <2>1 DEF CommandsSafe
    <3>2. Idle(j.call)
      BY <1>4, <2>1
    <3> QED BY <1>4, <1>8, <2>1, <3>1, <3>2 DEF Sent
  <2>3. CommandsSafe'
    BY <1>6, <2>2 DEF CommandsSafe, Idle
  <2>4. \A q \in outstanding' : job'[q].role # "step1"
    BY <1>2, <1>4, <2>1 DEF CP!Made, CP!TypeOK
  <2>5. StepAlone'
    BY <2>4 DEF StepAlone
  <2>6. HandoverSafe'
    BY <1>3, <1>5, <1>6, <2>1, <2>2, <2>4 DEF HandoverSafe, Idle
  <2>7. OneActive' /\ ActivateSafe'
    BY <1>3, <1>6, <2>1 DEF OneActive, ActivateSafe
  <2> QED BY <2>3, <2>5, <2>6, <2>7
<1> QED BY <1>1, <1>3, <1>6, <1>7, <1>8, <1>9 DEF IInv, Activity

LEMMA RunsKeeps ==
  ASSUME IInv, runs_on
  PROVE  IInv'
<1>1. CP!swap_step_activate \/ CP!response_return \/ CP!hangup_held
  BY SameHandlers DEF runs_on
<1> QED BY <1>1, ActivateKeeps, ReturnKeeps, HangupKeeps

LEMMA InterfaceKept ==
  ASSUME CP!IInv, UNCHANGED interface
  PROVE  CP!IInv'
<1>1. UNCHANGED CP!vars
  BY DEF interface, CP!vars, CP!list, CP!contract, CP!loop, CP!ops
<1> QED BY <1>1, InterfaceAssumptions, CP!Inductive

(* A response is handled, or comes too late. *)
LEMMA ResponseKeeps ==
  ASSUME IInv, response
  PROVE  IInv'
<1> DEFINE m == Head(answers)
<1>1. /\ answers # <<>> /\ control = "loop" /\ answers' = Tail(answers)
      /\ UNCHANGED <<commands, mishaps>> /\ UnchangedModem
  BY DEF response
<1>2. /\ CP!IInv /\ CP!TypeOK /\ remote = "alive"
      /\ mishaps \subseteq {"raced", "unread", "unannounced"}
  BY DEF IInv, ModemTyped, CP!IInv
<1>3. PICK k \in Nat :
          /\ Len(answers) = k + 1 /\ DOMAIN answers = 1..(k + 1) /\ m = answers[1]
          /\ answers' \in Seq(Answers) /\ DOMAIN answers' = 1..k
          /\ \A i \in 1..k : answers'[i] = answers[i + 1]
  <2>1. answers \in Seq(Answers)
    BY DEF IInv, ChannelsTyped
  <2>2. PICK k \in Nat : k + 1 = Len(answers) /\ k = Len(answers) - 1
    BY <1>1, <2>1, EmptySeq
  <2>3. /\ answers' \in Seq(Answers) /\ Len(answers') = k
        /\ \A i \in 1..k : answers'[i] = answers[i + 1]
    BY <1>1, <2>1, <2>2, HeadTailProperties
  <2>4. DOMAIN answers = 1..(k + 1)
    BY <2>1, <2>2, LenProperties
  <2>5. DOMAIN answers' = 1..k
    BY <2>3, LenProperties
  <2>6. m = answers[1]
    BY <1>1, <2>1
  <2> QED BY <2>2, <2>3, <2>4, <2>5, <2>6
<1>4. m \in Answers
  BY <1>1, HeadTailProperties DEF IInv, ChannelsTyped
<1> HIDE DEF m
<1>r. PICK r : r = m.request
  OBVIOUS
<1>5. PICK result \in {"SUCCESS", "FAILURE"} : r = m.request /\ result = m.result
  BY <1>r, <1>4 DEF Answers
<1>6. /\ CP!IInv'
      /\ UNCHANGED <<calls, voice_enabled, known, outstanding, job, remote>>
      /\ \A q \in outstanding : completions'[q] = 0 =>
            completions[q] = 0 /\ q # r
      /\ control' \in {"loop", "activate", "ofono", "return"}
      /\ control' = "activate" =>
            /\ r \in outstanding /\ completions[r] = 0
            /\ job[r].role = "step1" /\ result = "SUCCESS"
  <2>1. CASE r \in outstanding
    <3>1. CP!response(r, result)
      <4>1. Call!response(r, result)
        <5>1. Call!response(m.request, m.result)
          BY <1>5, <2>1 DEF response, m
        <5> QED BY <1>5, <5>1 DEF Call!response, Call!proceeds, Call!reports
      <4> QED BY <4>1, SameHandlers
    <3>2. /\ CP!IInv'
          /\ UNCHANGED <<calls, voice_enabled, known, outstanding, job, remote>>
          /\ completions[r] = 0 /\ completions'[r] = 1
          /\ \A q \in outstanding : q # r => completions'[q] = completions[q]
          /\ control' \in {"activate", "ofono", "return"}
          /\ control' = "activate" => job[r].role = "step1" /\ result = "SUCCESS"
      BY <1>2, <2>1, <3>1, InterfaceAssumptions, CP!ResponseRuns
    <3> QED BY <2>1, <3>2
  <2>2. CASE r \notin outstanding
    <3>1. UNCHANGED interface
      BY <1>5, <2>2 DEF response, m
    <3>2. CP!IInv'
      BY <1>2, <3>1, InterfaceKept
    <3>3. UNCHANGED <<calls, voice_enabled, known, outstanding, job, remote,
                      completions, control>>
      BY <3>1 DEF interface
    <3> QED BY <1>1, <2>2, <3>2, <3>3
  <2> QED BY <2>1, <2>2
<1>7. ModemTyped' /\ Active' = Active /\ modem' = modem /\ indications' = indications
  BY <1>1, <1>2, <1>6, ModemKept DEF IInv, UnchangedModem
<1>8. Copied'
  BY <1>1, <1>2, <1>6, CopiedKept DEF IInv
<1>9. ChannelsTyped'
  <2>1. ASSUME NEW i \in DOMAIN answers'
        PROVE  answers'[i].request \in known'
    <3>1. i + 1 \in DOMAIN answers /\ answers'[i] = answers[i + 1]
      BY <1>3
    <3>2. answers[i + 1].request \in known
      BY <3>1 DEF IInv, ChannelsTyped
    <3> QED BY <1>6, <3>1, <3>2
  <2> QED BY <1>1, <1>3, <1>6, <1>7, <2>1 DEF IInv, ChannelsTyped
<1>10. ASSUME mishaps = {}
       PROVE  OneActive' /\ CommandsSafe' /\ StepAlone' /\ ActivateSafe' /\ HandoverSafe'
  <2>1. OneActive /\ CommandsSafe /\ StepAlone
    BY <1>10 DEF IInv, Activity
  <2>2. OneActive' /\ CommandsSafe'
    BY <1>1, <1>7, <2>1 DEF OneActive, CommandsSafe, Idle
  <2>3. StepAlone'
    <3>1. ASSUME NEW q \in outstanding', job'[q].role = "step1"
          PROVE  /\ \A p \in outstanding' : p # q => job'[p].role = "step2"
                 /\ completions'[q] = 0 =>
                       /\ commands' # <<>> =>
                             /\ commands'[1].request = q
                             /\ \A i \in DOMAIN answers' : answers'[i].request # q
                       /\ \A i \in DOMAIN answers' :
                             answers'[i].request = q /\ answers'[i].result = "SUCCESS"
                                => Active' = {}
      <4>1. q \in outstanding /\ job[q].role = "step1"
        BY <1>6, <3>1
      <4>2. \A p \in outstanding' : p # q => job'[p].role = "step2"
        BY <1>6, <2>1, <4>1 DEF StepAlone
      <4>3. ASSUME completions'[q] = 0
            PROVE  /\ commands # <<>> =>
                         /\ commands[1].request = q
                         /\ \A i \in DOMAIN answers : answers[i].request # q
                   /\ \A i \in DOMAIN answers :
                         answers[i].request = q /\ answers[i].result = "SUCCESS"
                            => Active = {}
        BY <1>6, <2>1, <4>1, <4>3 DEF StepAlone
      <4>4. \A i \in DOMAIN answers' : i + 1 \in DOMAIN answers
                                       /\ answers'[i] = answers[i + 1]
        BY <1>3
      <4> QED BY <1>1, <1>7, <4>2, <4>3, <4>4
    <3> QED BY <3>1 DEF StepAlone
  <2>4. ActivateSafe'
    <3>1. ASSUME control' = "activate"
          PROVE  Active = {} /\ commands = <<>>
      <4>1. /\ r \in outstanding /\ completions[r] = 0
            /\ job[r].role = "step1" /\ result = "SUCCESS"
        BY <1>6, <3>1
      <4>2. 1 \in DOMAIN answers /\ answers[1].request = r
            /\ answers[1].result = "SUCCESS"
        BY <1>3, <1>5, <4>1
      <4> QED BY <2>1, <4>1, <4>2 DEF StepAlone
    <3> QED BY <1>1, <1>7, <3>1 DEF ActivateSafe
  <2>5. HandoverSafe'
    BY <1>6 DEF HandoverSafe
  <2> QED BY <2>2, <2>3, <2>4, <2>5
<1> QED BY <1>1, <1>6, <1>7, <1>8, <1>9, <1>10 DEF IInv, Activity

(* The first indication is handled: the list is now what the others start from,
   and only a handover is a matter for the requests. *)
LEMMA HandledKeeps ==
  ASSUME IInv, CP!IInv', indications # <<>>, indications' = Tail(indications),
         UNCHANGED <<modem, voice, announced, events, commands, answers, known,
                     outstanding, job, completions, remote>>,
         mishaps \subseteq mishaps',
         mishaps' \subseteq {"raced", "unread", "unannounced"},
         mishaps' \subseteq {"raced"} =>
            /\ ToSet(calls') = Heard(ToSet(calls), voice_enabled, Head(indications))
            /\ voice_enabled' = On(voice_enabled, Head(indications)),
         control' \in {"loop", "handover"},
         control' = "handover" /\ mishaps' = {} =>
            /\ outstanding = {} /\ commands = <<>>
            /\ \A i \in hangups' : Idle(calls'[i].id)
  PROVE  IInv'
<1>1. ModemTyped' /\ Active' = Active /\ Entries' = Entries
  BY DEF IInv, ModemTyped, Active, Entries, Present, InState, Info
<1>2. indications' \in Seq(Messages)
  BY HeadTailProperties DEF IInv, ChannelsTyped
<1>3. ChannelsTyped'
  BY <1>2 DEF IInv, ChannelsTyped
<1>4. ASSUME mishaps' \subseteq {"raced"}
      PROVE  \E on \in BOOLEAN :
                /\ Leads(indications', ToSet(calls'), voice_enabled', Entries, on)
                /\ voice /\ announced => on
  <2>1. PICK on \in BOOLEAN :
            /\ Leads(indications, ToSet(calls), voice_enabled, Entries, on)
            /\ voice /\ announced => on
    BY <1>4 DEF IInv, Copied
  <2>2. voice_enabled \in BOOLEAN /\ indications \in Seq(Messages)
    BY DEF IInv, ChannelsTyped, CP!IInv, CP!TypeOK
  <2>3. Leads(Tail(indications), Heard(ToSet(calls), voice_enabled, Head(indications)),
              On(voice_enabled, Head(indications)), Entries, on)
    BY <2>1, <2>2, LeadsFromNext
  <2> QED BY <1>4, <2>1, <2>3
<1>5. Copied'
  <2>1. ToSet(calls)' = ToSet(calls')
    BY DEF ToSet
  <2> QED BY <1>1, <1>4, <2>1 DEF Copied
<1>6. ASSUME mishaps' = {}
      PROVE  OneActive' /\ CommandsSafe' /\ StepAlone' /\ ActivateSafe' /\ HandoverSafe'
  <2>1. OneActive /\ CommandsSafe /\ StepAlone
    BY <1>6 DEF IInv, Activity
  <2>2. OneActive' /\ CommandsSafe'
    BY <1>1, <2>1 DEF OneActive, CommandsSafe, Idle
  <2>3. StepAlone'
    BY <1>1, <2>1 DEF StepAlone
  <2>4. ActivateSafe'
    BY DEF ActivateSafe
  <2>5. HandoverSafe'
    BY <1>6 DEF HandoverSafe, Idle
  <2> QED BY <2>2, <2>3, <2>4, <2>5
<1> QED BY <1>1, <1>3, <1>5, <1>6 DEF IInv, Activity

LEMMA IndicationKeeps ==
  ASSUME IInv, indication
  PROVE  IInv'
<1> DEFINE m == Head(indications)
<1>1. /\ indications # <<>> /\ indications' = Tail(indications)
      /\ UNCHANGED <<modem, voice, announced, events, commands, answers>>
  BY DEF indication
<1>2. CP!IInv /\ CP!TypeOK /\ mishaps \subseteq {"raced", "unread", "unannounced"}
  BY DEF IInv, ModemTyped, CP!IInv
<1>3. m \in Messages
  BY <1>1, HeadTailProperties DEF IInv, ChannelsTyped
<1>4. PICK u : u = m.update
  OBVIOUS
<1>5. CASE /\ m.kind = "calls"
           /\ Call!call_state_indication(m.update)
           /\ mishap("unread", calls' # Call!calls_after(m.update))
  <2>1. u \in Updates /\ u \in Seq(CP!Infos)
    BY <1>3, <1>4, <1>5 DEF Messages, Updates, Infos, CP!Infos, CP!END, Call!END
  <2>2. CP!call_state_indication(u)
    <3>1. CP!call_state_indication(m.update)
      BY <1>5, SameHandlers
    <3> QED BY <1>4, <3>1 DEF CP!call_state_indication, CP!handle_call_info,
                              CP!calls_after, CP!signal_state_changed
  <2>3. /\ control = "loop"
        /\ UNCHANGED <<voice_enabled, known, outstanding, completions, remote, job,
                       control>>
    BY <2>2 DEF CP!call_state_indication, CP!contract, CP!loop
  <2>4. CP!IInv'
    BY <1>2, <2>1, <2>2, InterfaceAssumptions, CP!CallStateIndication
  <2>5. /\ mishaps \subseteq mishaps'
        /\ mishaps' \subseteq {"raced", "unread", "unannounced"}
        /\ mishaps' \subseteq {"raced"} => calls' = CP!calls_after(u)
    <3>1. Call!calls_after(m.update) = CP!calls_after(u)
      <4>1. Call!calls_after(m.update) = CP!calls_after(m.update)
        BY SameList
      <4> QED BY <1>4, <4>1 DEF CP!calls_after
    <3> QED BY <1>2, <1>5, <3>1 DEF mishap
  <2>6. ToSet(CP!calls_after(u)) = Updated(ToSet(calls), u)
    <3>1. \A i, j \in DOMAIN u : u[i].id = u[j].id => i = j
      BY <2>1 DEF Updates
    <3>2. calls \in Seq(CP!Entries) /\ CP!CallsDistinct
      BY <1>2 DEF CP!IInv, CP!TypeOK, CP!Entries
    <3>3. CP!ToSet(CP!calls_after(u))
             = {e \in CP!ToSet(calls) : \A i \in DOMAIN u : u[i].id # e.id}
                  \cup {info \in CP!ToSet(u) : info.state # CP!END}
      BY <2>1, <3>1, <3>2, InterfaceAssumptions, CP!EntriesAfter
    <3> QED BY <3>3, SameSets DEF Updated, CP!END, Call!END
  <2>7. Heard(ToSet(calls), voice_enabled, m) = Updated(ToSet(calls), u)
        /\ On(voice_enabled, m) = voice_enabled
    BY <1>4, <1>5 DEF Heard, On
  <2> QED BY <1>1, <2>3, <2>4, <2>5, <2>6, <2>7, HandledKeeps
<1>6. CASE /\ m.kind = "voice"
           /\ Call!handle_service_status(m.update)
           /\ UNCHANGED mishaps
  <2>1. u \in Seq(BOOLEAN) /\ u # <<>>
    BY <1>3, <1>4, <1>6 DEF Messages
  <2>2. CP!handle_service_status(u)
    <3>1. CP!handle_service_status(m.update)
      BY <1>6, SameHandlers
    <3> QED BY <1>4, <3>1 DEF CP!handle_service_status, CP!voice_lost
  <2>3. /\ control = "loop"
        /\ voice_enabled' = CP!Last(u)
        /\ calls' = IF CP!voice_lost(u) THEN <<>> ELSE calls
        /\ UNCHANGED <<known, outstanding, completions, remote, job, control>>
    BY <2>2 DEF CP!handle_service_status, CP!contract, CP!loop
  <2>4. CP!IInv'
    BY <1>2, <2>1, <2>2, InterfaceAssumptions, CP!ServiceStatus
  <2>5. On(voice_enabled, m) = Last(u) /\ CP!Last(u) = Last(u)
    BY <1>4, <1>6 DEF On, Last, CP!Last
  <2>6. Heard(ToSet(calls), voice_enabled, m)
           = IF CP!voice_lost(u) THEN {} ELSE ToSet(calls)
    BY <1>4, <1>6 DEF Heard, Lost, CP!voice_lost
  <2>7. ToSet(<<>>) = {}
    BY DEF ToSet
  <2> QED BY <1>1, <1>2, <1>6, <2>3, <2>4, <2>5, <2>6, <2>7, HandledKeeps
<1>7. CASE /\ m.kind = "handover"
           /\ Call!handover_indication("COMPLETE_SUCCESS")
           /\ mishap("raced", Tail(indications) # <<>> \/ commands # <<>>
                              \/ outstanding # {})
  <2>1. CP!handover_indication("COMPLETE_SUCCESS")
    BY <1>7, SameHandlers
  <2>2. /\ control = "loop"
        /\ control' = "loop" \/ (control' = "handover" /\ hangups' = CP!held_calls)
        /\ UNCHANGED <<calls, voice_enabled, known, outstanding, completions, remote, job>>
    BY <2>1 DEF CP!handover_indication, CP!handle_handover, CP!contract, CP!list
  <2>3. CP!IInv'
    BY <1>2, <2>1, InterfaceAssumptions, CP!HandoverIndication DEF CP!HandoverTypes
  <2>4. Heard(ToSet(calls), voice_enabled, m) = ToSet(calls)
        /\ On(voice_enabled, m) = voice_enabled
    BY <1>7 DEF Heard, On
  <2>5. /\ mishaps \subseteq mishaps'
        /\ mishaps' \subseteq {"raced", "unread", "unannounced"}
        /\ mishaps' = {} => /\ Tail(indications) = <<>> /\ mishaps = {}
                            /\ commands = <<>> /\ outstanding = {}
    BY <1>2, <1>7 DEF mishap
  <2>6. ASSUME control' = "handover", mishaps' = {}, NEW i \in hangups'
        PROVE  Idle(calls'[i].id)
    <3>1. PICK on \in BOOLEAN :
              Leads(indications, ToSet(calls), voice_enabled, Entries, on)
      BY <2>5, <2>6 DEF IInv, Copied
    <3>2. voice_enabled \in BOOLEAN /\ indications \in Seq(Messages)
      BY DEF IInv, ChannelsTyped, CP!IInv, CP!TypeOK
    <3>3. Leads(Tail(indications), ToSet(calls), voice_enabled, Entries, on)
      BY <1>1, <2>4, <3>1, <3>2, LeadsFromNext
    <3>4. Leads(<<>>, ToSet(calls), voice_enabled, Entries, on)
      BY <2>5, <2>6, <3>3
    <3>5. ToSet(calls) = Entries
      BY <3>2, <3>4, LeadsOnlyHere
    <3>6. i \in DOMAIN calls /\ calls[i].state = "HOLDING"
      BY <2>2, <2>6 DEF CP!held_calls
    <3>7. calls[i] \in Entries
      BY <3>5, <3>6 DEF ToSet
    <3>8. calls[i].id \in CallIds /\ modem[calls[i].id] = "HOLDING"
      BY <3>6, <3>7 DEF Entries, Info, Present, InState
    <3> QED BY <2>2, <3>8 DEF Idle
  <2> QED BY <1>1, <2>2, <2>3, <2>4, <2>5, <2>6, HandledKeeps
<1> QED BY <1>5, <1>6, <1>7 DEF indication

------------------------------------------------------------------------------
(* The steps of the modem *)

Others(c) == {Info(d, modem[d]) : d \in Present \ {c}}

(* The calls of the modem after one has changed, or ended *)
LEMMA EntriesBecome ==
  ASSUME ModemTyped, NEW c \in CallIds, NEW state \in States \cup {NoCall},
         modem' = [modem EXCEPT ![c] = state]
  PROVE  /\ Entries' = Others(c) \cup IF state = NoCall THEN {} ELSE {Info(c, state)}
         /\ {e \in Entries : c # e.id} = Others(c)
         /\ \A e \in Entries : e \in Others(c) \/ e.id = c
         /\ \A e \in Others(c) : e.id # c
<1>1. /\ modem \in [CallIds -> States \cup {NoCall}] /\ modem'[c] = state
      /\ \A d \in CallIds : d # c => modem'[d] = modem[d]
  BY DEF ModemTyped
<1>2. /\ \A d \in CallIds \ {c} : d \in Present' <=> d \in Present
      /\ c \in Present' <=> state # NoCall
      /\ Present \subseteq CallIds /\ Present' \subseteq CallIds
  BY <1>1, CallStates DEF Present, InState
<1>3. Entries' = {Info(d, modem'[d]) : d \in Present'}
  BY DEF Entries, Info
<1>4. Entries' = Others(c) \cup IF state = NoCall THEN {} ELSE {Info(c, state)}
  <2>1. ASSUME NEW e \in Entries'
        PROVE  e \in Others(c) \cup IF state = NoCall THEN {} ELSE {Info(c, state)}
    BY <1>1, <1>2, <1>3, <2>1 DEF Others
  <2>2. \A e \in Others(c) : e \in Entries'
    BY <1>1, <1>2, <1>3 DEF Others
  <2>3. state # NoCall => Info(c, state) \in Entries'
    BY <1>1, <1>2, <1>3
  <2> QED BY <2>1, <2>2, <2>3
<1>5. \A e \in Others(c) : e.id # c
  BY DEF Others, Info
<1>6. \A e \in Entries : e \in Others(c) \/ e.id = c
  BY DEF Entries, Others, Info
<1>7. Others(c) \subseteq Entries
  BY DEF Entries, Others
<1> QED BY <1>4, <1>5, <1>6, <1>7

LEMMA OthersListed ==
  ASSUME ModemTyped, NEW c \in CallIds
  PROVE  /\ IsFiniteSet(Others(c)) /\ Others(c) \subseteq Infos
         /\ \A e, f \in Others(c) : e.id = f.id => e = f
<1>1. Present \ {c} \subseteq CallIds /\ IsFiniteSet(Present \ {c})
  BY CallAssumption, FS_Subset DEF Present, InState
<1>2. PICK f : f = [d \in Present \ {c} |-> Info(d, modem[d])]
  OBVIOUS
<1>3. f \in Surjection(Present \ {c}, Others(c))
  BY <1>2 DEF Surjection, Others
<1>4. IsFiniteSet(Others(c))
  BY <1>1, <1>3, FS_Surjection
<1>5. Others(c) \subseteq Infos
  BY DEF Others, Infos, Info, Present, InState
<1>6. \A e, g \in Others(c) : e.id = g.id => e = g
  BY DEF Others, Info
<1> QED BY <1>4, <1>5, <1>6

(* Both forms of the indication say what has become of the calls. *)
LEMMA BecomeTold ==
  ASSUME ModemTyped, NEW c \in CallIds, NEW state \in States \cup {NoCall},
         Become(c, state)
  PROVE  /\ modem' = [modem EXCEPT ![c] = state]
         /\ \E u \in Updates :
               /\ indications' = Append(indications, [kind |-> "calls", update |-> u])
               /\ Updated(Entries, u) = Entries'
<1>1. PICK info : info = Info(c, IF state = NoCall THEN Call!END ELSE state)
  OBVIOUS
<1>2. PICK others : others = SetToSeq(Others(c))
  OBVIOUS
<1>3. /\ modem' = [modem EXCEPT ![c] = state]
      /\ \/ Indicate("calls", <<info>>)
         \/ Indicate("calls", others \o <<info>>)
  BY <1>1, <1>2 DEF Become, Others
<1>4. /\ Entries' = Others(c) \cup IF state = NoCall THEN {} ELSE {Info(c, state)}
      /\ {e \in Entries : c # e.id} = Others(c)
      /\ \A e \in Entries : e \in Others(c) \/ e.id = c
      /\ \A e \in Others(c) : e.id # c
  BY <1>3, EntriesBecome
<1>5. /\ others \in Seq(Others(c)) /\ ToSet(others) = Others(c)
      /\ \A i, j \in DOMAIN others : others[i] = others[j] => i = j
      /\ Others(c) \subseteq Infos
      /\ \A e, f \in Others(c) : e.id = f.id => e = f
  BY <1>2, Listed, OthersListed
<1>6. /\ info \in Infos /\ info.id = c
      /\ state = NoCall => info.state = Call!END
      /\ state # NoCall => info = Info(c, state) /\ info.state # Call!END
  <2>1. CASE state = NoCall
    BY <1>1, <2>1 DEF Infos, Info
  <2>2. CASE state # NoCall
    <3>1. state \in States /\ info = [id |-> c, state |-> state]
      BY <1>1, <2>2 DEF Info
    <3> QED BY <2>2, <3>1, CallStates DEF Infos, Info
  <2> QED BY <2>1, <2>2
<1>7. \A e \in Others(c) : e.state # Call!END
  BY CallStates DEF Others, Info, Present, InState
<1>8. ASSUME NEW u, u = <<info>>
      PROVE  u \in Updates /\ Updated(Entries, u) = Entries'
  <2>1. u \in Updates
    BY <1>6, <1>8 DEF Updates
  <2>2. DOMAIN u = {1} /\ u[1] = info /\ ToSet(u) = {info}
    BY <1>8 DEF ToSet
  <2>3. {e \in Entries : \A i \in DOMAIN u : u[i].id # e.id} = Others(c)
    BY <1>4, <1>6, <2>2
  <2>4. {e \in ToSet(u) : e.state # Call!END}
           = IF state = NoCall THEN {} ELSE {Info(c, state)}
    BY <1>6, <2>2
  <2> QED BY <1>4, <2>1, <2>3, <2>4 DEF Updated
<1>9. ASSUME NEW u, u = others \o <<info>>
      PROVE  u \in Updates /\ Updated(Entries, u) = Entries'
  <2>1. others \in Seq(Infos) /\ <<info>> \in Seq(Infos) /\ Len(<<info>>) = 1
        /\ <<info>>[1] = info
    BY <1>5, <1>6
  <2>2. PICK k \in Nat : k = Len(others) /\ DOMAIN others = 1..k
    BY <2>1, LenProperties
  <2>3. /\ u \in Seq(Infos) /\ Len(u) = k + 1
        /\ \A i \in 1..(k + 1) : u[i] = IF i <= k THEN others[i] ELSE <<info>>[i - k]
    BY <1>9, <2>1, <2>2, ConcatProperties
  <2>4. /\ DOMAIN u = 1..(k + 1) /\ u[k + 1] = info
        /\ \A i \in 1..k : u[i] = others[i] /\ others[i] \in Others(c)
    <3>1. DOMAIN u = 1..(k + 1)
      BY <2>3, LenProperties
    <3>2. k + 1 \in 1..(k + 1) /\ ~ (k + 1 <= k) /\ k + 1 - k = 1
      OBVIOUS
    <3>3. \A i \in 1..k : u[i] = others[i]
      BY <2>3
    <3>4. \A i \in 1..k : others[i] \in Others(c)
      BY <1>5, <2>2 DEF ToSet
    <3> QED BY <2>1, <2>3, <3>1, <3>2, <3>3, <3>4
  <2>5. ASSUME NEW i \in DOMAIN u, NEW n \in DOMAIN u, u[i].id = u[n].id
        PROVE  i = n
    <3>1. i \in 1..k \/ i = k + 1
      BY <2>4
    <3>2. n \in 1..k \/ n = k + 1
      BY <2>4
    <3>3. CASE i \in 1..k /\ n \in 1..k
      <4>1. others[i].id = others[n].id /\ others[i] \in Others(c)
            /\ others[n] \in Others(c)
        BY <2>4, <2>5, <3>3
      <4>2. others[i] = others[n]
        BY <1>5, <4>1
      <4> QED BY <1>5, <2>2, <3>3, <4>2
    <3>4. i \in 1..k => u[i].id # c
      BY <1>4, <2>4
    <3>5. n \in 1..k => u[n].id # c
      BY <1>4, <2>4
    <3> QED BY <1>6, <2>4, <2>5, <3>1, <3>2, <3>3, <3>4, <3>5
  <2>6. u \in Updates
    BY <2>3, <2>5 DEF Updates
  <2>7. ToSet(u) = Others(c) \cup {info}
    <3>1. \A e \in Others(c) : \E i \in 1..k : e = u[i]
      BY <1>5, <2>2, <2>4 DEF ToSet
    <3>2. \A i \in 1..(k + 1) : u[i] \in Others(c) \cup {info}
      <4> TAKE i \in 1..(k + 1)
      <4>1. i \in 1..k \/ i = k + 1
        OBVIOUS
      <4> QED BY <2>4, <4>1
    <3>3. 1..k \subseteq 1..(k + 1) /\ k + 1 \in 1..(k + 1)
      OBVIOUS
    <3> QED BY <2>4, <3>1, <3>2, <3>3 DEF ToSet
  <2>8. {e \in ToSet(u) : e.state # Call!END}
           = Others(c) \cup IF state = NoCall THEN {} ELSE {Info(c, state)}
    BY <1>6, <1>7, <2>7
  <2>9. {e \in Entries : \A i \in DOMAIN u : u[i].id # e.id} \subseteq Others(c)
    <3>1. k + 1 \in DOMAIN u /\ u[k + 1].id = c
      BY <1>6, <2>4
    <3> QED BY <1>4, <3>1
  <2> QED BY <1>4, <2>6, <2>8, <2>9 DEF Updated
<1> QED BY <1>3, <1>8, <1>9 DEF Indicate

(* What is sent leads on to the calls as they have become. *)
LEMMA SentCopied ==
  ASSUME IInv, NEW m \in Messages, indications' = Append(indications, m),
         UNCHANGED <<calls, voice_enabled>>, mishaps \subseteq mishaps',
         mishaps' \subseteq {"raced"} =>
            \A on \in BOOLEAN :
               (voice /\ announced => on) =>
                  /\ Heard(Entries, on, m) = Entries' /\ On(on, m) \in BOOLEAN
                  /\ voice' /\ announced' => On(on, m)
  PROVE  indications' \in Seq(Messages) /\ Copied'
<1>1. indications \in Seq(Messages) /\ voice_enabled \in BOOLEAN
  BY DEF IInv, ChannelsTyped, CP!IInv, CP!TypeOK
<1>2. indications' \in Seq(Messages)
  BY <1>1, AppendProperties
<1>3. ASSUME mishaps' \subseteq {"raced"}
      PROVE  \E on \in BOOLEAN :
                /\ Leads(indications', ToSet(calls), voice_enabled, Entries', on)
                /\ voice' /\ announced' => on
  <2>1. PICK on \in BOOLEAN :
            /\ Leads(indications, ToSet(calls), voice_enabled, Entries, on)
            /\ voice /\ announced => on
    BY <1>3 DEF IInv, Copied
  <2>2. Leads(indications', ToSet(calls), voice_enabled, Heard(Entries, on, m), On(on, m))
    BY <1>1, <2>1, LeadsOn
  <2> QED BY <1>3, <2>1, <2>2
<1>4. ToSet(calls)' = ToSet(calls) /\ voice_enabled' = voice_enabled
  OBVIOUS
<1> QED BY <1>2, <1>3, <1>4 DEF Copied

LEMMA BecomeCopied ==
  ASSUME IInv, NEW c \in CallIds, NEW state \in States \cup {NoCall},
         Become(c, state), mishaps \subseteq mishaps',
         UNCHANGED <<calls, voice_enabled, voice, announced>>
  PROVE  /\ indications' \in Seq(Messages) /\ Copied'
         /\ modem' \in [CallIds -> States \cup {NoCall}]
         /\ modem'[c] = state
         /\ \A d \in CallIds : d # c => modem'[d] = modem[d]
<1>1. /\ modem' = [modem EXCEPT ![c] = state]
      /\ \E u \in Updates :
            /\ indications' = Append(indications, [kind |-> "calls", update |-> u])
            /\ Updated(Entries, u) = Entries'
  BY BecomeTold DEF IInv
<1>2. PICK u \in Updates :
            /\ indications' = Append(indications, [kind |-> "calls", update |-> u])
            /\ Updated(Entries, u) = Entries'
  BY <1>1
<1>3. PICK m : m = [kind |-> "calls", update |-> u]
  OBVIOUS
<1>4. m \in Messages
  BY <1>3 DEF Messages
<1>5. \A on \in BOOLEAN : Heard(Entries, on, m) = Entries' /\ On(on, m) = on
  BY <1>2, <1>3 DEF Heard, On
<1>6. indications' \in Seq(Messages) /\ Copied'
  <2>1. indications' = Append(indications, m)
    BY <1>2, <1>3
  <2>2. \A on \in BOOLEAN :
               (voice /\ announced => on) =>
                  /\ Heard(Entries, on, m) = Entries' /\ On(on, m) \in BOOLEAN
                  /\ voice' /\ announced' => On(on, m)
    BY <1>5
  <2> QED BY <1>4, <2>1, <2>2, SentCopied
<1>7. modem \in [CallIds -> States \cup {NoCall}]
  BY DEF IInv, ModemTyped
<1> QED BY <1>1, <1>6, <1>7

(* What happens in the modem by itself does not disturb the requests as long as
   no call becomes active by it. *)
LEMMA QuietKeeps ==
  ASSUME IInv, UNCHANGED <<interface, commands, answers>>, ModemTyped', Copied',
         indications' \in Seq(Messages), mishaps \subseteq mishaps',
         mishaps' = {} =>
            /\ \A c \in CallIds : modem'[c] = "ACTIVE" => modem[c] = "ACTIVE"
            /\ \A c \in CallIds : Idle(c) => modem'[c] \notin {"ACTIVE", "OTHER"}
  PROVE  IInv'
<1>1. CP!IInv'
  BY InterfaceKept DEF IInv
<1>2. UNCHANGED <<known, outstanding, job, completions, control, hangups, calls>>
  BY DEF interface
<1>3. ChannelsTyped'
  BY <1>2 DEF IInv, ChannelsTyped
<1>4. ASSUME mishaps' = {}
      PROVE  OneActive' /\ CommandsSafe' /\ StepAlone' /\ ActivateSafe' /\ HandoverSafe'
  <2>1. OneActive /\ CommandsSafe /\ StepAlone /\ ActivateSafe /\ HandoverSafe
    BY <1>4 DEF IInv, Activity
  <2>2. Active' \subseteq Active /\ \A c \in CallIds : Idle(c) => Idle(c)'
    BY <1>4 DEF Active, InState, Idle
  <2>3. OneActive'
    BY <2>1, <2>2 DEF OneActive
  <2>4. CommandsSafe'
    <3>1. \A i \in DOMAIN commands : Idle(commands[i].call) => Idle(commands[i].call)'
      BY <2>2 DEF Idle
    <3>2. ASSUME NEW i \in DOMAIN commands'
          PROVE  /\ commands'[i].role = "handover" \/ Len(commands') = 1
                 /\ commands'[i].role = "handover" =>
                       commands'[i].kind = "hangup" /\ Idle(commands[i].call)'
                 /\ commands'[i].role = "step1" =>
                       /\ commands'[i].kind \in {"hold", "hangup"}
                       /\ Active' \subseteq {commands'[i].call}
                 /\ commands'[i].kind \in {"answer", "resume"} => Active' = {}
      BY <2>1, <2>2, <3>1 DEF CommandsSafe
    <3> QED BY <3>2 DEF CommandsSafe, Idle
  <2>5. StepAlone'
    BY <1>2, <2>1, <2>2 DEF StepAlone
  <2>6. ActivateSafe'
    BY <1>2, <2>1, <2>2 DEF ActivateSafe
  <2>7. HandoverSafe'
    BY <1>2, <2>1, <2>2 DEF HandoverSafe, Idle
  <2> QED BY <2>3, <2>4, <2>5, <2>6, <2>7
<1> QED BY <1>1, <1>3, <1>4 DEF IInv, Activity

(* A call other than one that rings or is active appears, or a call ends. *)
LEMMA BecomesQuietly ==
  ASSUME IInv, Happens, NEW c \in CallIds,
         NEW state \in {"INCOMING", "WAITING", NoCall}, Become(c, state),
         UNCHANGED <<voice, announced, mishaps>>
  PROVE  IInv'
<1>1. UNCHANGED <<interface, commands, answers>> /\ events' \in 0..MaxEvents
  BY MaxEventsAssumption DEF Happens, IInv, ModemTyped
<1>2. UNCHANGED <<calls, voice_enabled, remote>>
  BY <1>1 DEF interface
<1>3. state \in States \cup {NoCall} /\ state \notin {"ACTIVE", "OTHER"}
  BY CallStates DEF NoCall
<1>4. /\ indications' \in Seq(Messages) /\ Copied'
      /\ modem' \in [CallIds -> States \cup {NoCall}]
      /\ modem'[c] = state
      /\ \A d \in CallIds : d # c => modem'[d] = modem[d]
  BY <1>2, <1>3, BecomeCopied
<1>5. ModemTyped'
  BY <1>1, <1>2, <1>4 DEF IInv, ModemTyped
<1>6. /\ \A d \in CallIds : modem'[d] = "ACTIVE" => modem[d] = "ACTIVE"
      /\ \A d \in CallIds : Idle(d) => modem'[d] \notin {"ACTIVE", "OTHER"}
  BY <1>3, <1>4 DEF Idle
<1> QED BY <1>1, <1>4, <1>5, <1>6, QuietKeeps

LEMMA ArrivesKeeps ==
  ASSUME IInv, call_arrives
  PROVE  IInv'
<1>1. PICK c \in CallIds : Become(c, IF Present = {} THEN "INCOMING" ELSE "WAITING")
  BY DEF call_arrives
<1>2. CASE Present = {}
  <2>1. Become(c, "INCOMING")
    BY <1>1, <1>2 DEF Become
  <2> QED BY <2>1, BecomesQuietly DEF call_arrives
<1>3. CASE Present # {}
  <2>1. Become(c, "WAITING")
    BY <1>1, <1>3 DEF Become
  <2> QED BY <2>1, BecomesQuietly DEF call_arrives
<1> QED BY <1>2, <1>3

LEMMA EndsInModemKeeps ==
  ASSUME IInv, call_ends
  PROVE  IInv'
<1>1. PICK c \in CallIds : Become(c, NoCall)
  BY DEF call_ends, Present, InState
<1> QED BY <1>1, BecomesQuietly DEF call_ends

LEMMA VoiceLostKeeps ==
  ASSUME IInv, voice_lost
  PROVE  IInv'
<1>1. PICK back \in BOOLEAN :
          /\ voice' = back
          /\ Indicate("voice", IF back THEN <<FALSE, TRUE>> ELSE <<FALSE>>)
          /\ announced' = (announced \/ back)
  BY DEF voice_lost
<1>2. /\ UNCHANGED <<interface, commands, answers>> /\ events' \in 0..MaxEvents
      /\ voice /\ modem' = [c \in CallIds |-> NoCall]
      /\ mishaps \subseteq mishaps'
      /\ mishaps' \subseteq {"raced", "unread", "unannounced"}
      /\ mishaps' \subseteq {"raced"} => announced
  BY MaxEventsAssumption DEF voice_lost, Happens, IInv, ModemTyped, mishap
<1>3. UNCHANGED <<calls, voice_enabled, remote>>
  BY <1>2 DEF interface
<1>4. ModemTyped'
  <2>1. modem' \in [CallIds -> States \cup {NoCall}]
    BY <1>2
  <2>2. announced' \in BOOLEAN
    BY <1>1
  <2> QED BY <1>1, <1>2, <1>3, <2>1, <2>2 DEF IInv, ModemTyped
<1>5. Entries' = {}
  BY <1>2, CallStates DEF Entries, Present, InState
<1>6. PICK f \in BOOLEAN, t \in BOOLEAN : f = FALSE /\ t = TRUE
  OBVIOUS
<1>u. PICK u : u = (IF back THEN <<f, t>> ELSE <<f>>)
  OBVIOUS
<1>7. u \in Seq(BOOLEAN) /\ u # <<>> /\ 1 \in DOMAIN u /\ u[1] = f /\ Last(u) = back
  <2>1. CASE back
    <3>1. u = <<f, t>> /\ t = back
      BY <1>6, <1>u, <2>1
    <3> QED BY <3>1 DEF Last
  <2>2. CASE ~ back
    <3>1. u = <<f>> /\ f = back
      BY <1>6, <1>u, <2>2
    <3> QED BY <3>1 DEF Last
  <2> QED BY <2>1, <2>2
<1>8. PICK m : m = [kind |-> "voice", update |-> u]
  OBVIOUS
<1>9. m \in Messages /\ m.kind = "voice" /\ m.update = u
  BY <1>7, <1>8 DEF Messages
<1>10. indications' = Append(indications, m)
  BY <1>1, <1>6, <1>u, <1>8 DEF Indicate
<1>11. Lost(TRUE, u)
  BY <1>6, <1>7 DEF Lost
<1>12. Heard(Entries, TRUE, m) = {} /\ \A on \in BOOLEAN : On(on, m) = back
  BY <1>7, <1>9, <1>11 DEF Heard, On
<1>13. mishaps' \subseteq {"raced"} =>
            \A on \in BOOLEAN :
               (voice /\ announced => on) =>
                  /\ Heard(Entries, on, m) = Entries' /\ On(on, m) \in BOOLEAN
                  /\ voice' /\ announced' => On(on, m)
  <2> SUFFICES ASSUME mishaps' \subseteq {"raced"}, NEW on \in BOOLEAN,
                      voice /\ announced => on
               PROVE  /\ Heard(Entries, on, m) = Entries' /\ On(on, m) \in BOOLEAN
                      /\ voice' /\ announced' => On(on, m)
    OBVIOUS
  <2>1. on = TRUE
    BY <1>2
  <2> QED BY <1>1, <1>5, <1>12, <2>1
<1>14. indications' \in Seq(Messages) /\ Copied'
  BY <1>2, <1>3, <1>9, <1>10, <1>13, SentCopied
<1>15. \A d \in CallIds : modem'[d] \notin {"ACTIVE", "OTHER"}
  BY <1>2 DEF NoCall
<1> QED BY <1>2, <1>4, <1>14, <1>15, QuietKeeps

LEMMA VoiceReportedKeeps ==
  ASSUME IInv, voice_enabled_reported
  PROVE  IInv'
<1>1. /\ UNCHANGED <<interface, commands, answers, modem, mishaps>>
      /\ events' \in 0..MaxEvents /\ voice' = TRUE /\ announced' = TRUE
  BY MaxEventsAssumption DEF voice_enabled_reported, Happens, IInv, ModemTyped
<1>2. UNCHANGED <<calls, voice_enabled, remote>>
  BY <1>1 DEF interface
<1>3. ModemTyped' /\ Entries' = Entries
  BY <1>1, <1>2 DEF IInv, ModemTyped, Entries, Present, InState, Info
<1>t. PICK t \in BOOLEAN : t = TRUE
  OBVIOUS
<1>s. <<t>> \in Seq(BOOLEAN)
  OBVIOUS
<1>4. PICK u \in Seq(BOOLEAN) : u = <<t>>
  BY <1>s, Zenon
<1>5. u # <<>> /\ Last(u) = TRUE /\ DOMAIN u = {1} /\ u[1] = TRUE
  BY <1>t, <1>4 DEF Last
<1>6. PICK m : m = [kind |-> "voice", update |-> u]
  OBVIOUS
<1>7. m \in Messages /\ m.kind = "voice" /\ m.update = u
  BY <1>5, <1>6 DEF Messages
<1>8. indications' = Append(indications, m)
  BY <1>t, <1>4, <1>6 DEF voice_enabled_reported, Indicate
<1>9. \A on \in BOOLEAN : ~ Lost(on, u)
  BY <1>5 DEF Lost
<1>10. \A on \in BOOLEAN : Heard(Entries, on, m) = Entries' /\ On(on, m) = TRUE
  BY <1>3, <1>5, <1>7, <1>9 DEF Heard, On
<1>11. indications' \in Seq(Messages) /\ Copied'
  <2>1. \A on \in BOOLEAN :
               (voice /\ announced => on) =>
                  /\ Heard(Entries, on, m) = Entries' /\ On(on, m) \in BOOLEAN
                  /\ voice' /\ announced' => On(on, m)
    BY <1>10
  <2> QED BY <1>1, <1>2, <1>7, <1>8, <2>1, SentCopied
<1> QED BY <1>1, <1>3, <1>11, QuietKeeps DEF Idle

LEMMA HandoverCompletedKeeps ==
  ASSUME IInv, handover_completed
  PROVE  IInv'
<1>1. /\ UNCHANGED <<interface, commands, answers, modem, voice, announced, mishaps>>
      /\ events' \in 0..MaxEvents
  BY MaxEventsAssumption DEF handover_completed, Happens, IInv, ModemTyped
<1>2. UNCHANGED <<calls, voice_enabled, remote>>
  BY <1>1 DEF interface
<1>3. ModemTyped' /\ Entries' = Entries
  BY <1>1, <1>2 DEF IInv, ModemTyped, Entries, Present, InState, Info
<1>4. PICK m : m = [kind |-> "handover", update |-> <<>>]
  OBVIOUS
<1>5. m \in Messages /\ m.kind = "handover"
  BY <1>4 DEF Messages
<1>6. indications' = Append(indications, m)
  BY <1>4 DEF handover_completed, Indicate
<1>7. \A on \in BOOLEAN : Heard(Entries, on, m) = Entries' /\ On(on, m) = on
  BY <1>3, <1>5 DEF Heard, On
<1>8. indications' \in Seq(Messages) /\ Copied'
  <2>1. \A on \in BOOLEAN :
               (voice /\ announced => on) =>
                  /\ Heard(Entries, on, m) = Entries' /\ On(on, m) \in BOOLEAN
                  /\ voice' /\ announced' => On(on, m)
    BY <1>1, <1>7
  <2> QED BY <1>1, <1>2, <1>5, <1>6, <2>1, SentCopied
<1> QED BY <1>1, <1>3, <1>8, QuietKeeps DEF Idle

(* The call that was dialled becomes active: no request is on its way or pending,
   and no swap or handover depends on that call. *)
LEMMA ConnectsKeeps ==
  ASSUME IInv, call_connects
  PROVE  IInv'
<1>1. PICK c \in CallIds : modem[c] = "OTHER" /\ Become(c, "ACTIVE")
  BY DEF call_connects, InState
<1>2. /\ UNCHANGED <<interface, commands, answers, voice, announced>> /\ Active = {}
      /\ events' \in 0..MaxEvents /\ mishaps \subseteq mishaps'
      /\ mishaps' \subseteq {"raced", "unread", "unannounced"}
      /\ mishaps' = {} => mishaps = {} /\ commands = <<>> /\ outstanding = {}
  BY MaxEventsAssumption DEF call_connects, Happens, IInv, ModemTyped, mishap
<1>3. UNCHANGED <<calls, voice_enabled, known, outstanding, job, completions, remote,
                  control, hangups>>
  BY <1>2 DEF interface
<1>4. "ACTIVE" \in States \cup {NoCall}
  BY CallStates
<1>5. /\ indications' \in Seq(Messages) /\ Copied'
      /\ modem' \in [CallIds -> States \cup {NoCall}]
      /\ modem'[c] = "ACTIVE"
      /\ \A d \in CallIds : d # c => modem'[d] = modem[d]
  BY <1>1, <1>2, <1>3, <1>4, BecomeCopied
<1>6. ModemTyped'
  BY <1>2, <1>3, <1>5 DEF IInv, ModemTyped
<1>7. ChannelsTyped'
  BY <1>2, <1>3, <1>5 DEF IInv, ChannelsTyped
<1>8. CP!IInv'
  BY <1>2, InterfaceKept DEF IInv
<1>9. ASSUME mishaps' = {}
      PROVE  OneActive' /\ CommandsSafe' /\ StepAlone' /\ ActivateSafe' /\ HandoverSafe'
  <2>1. mishaps = {} /\ commands = <<>> /\ outstanding = {} /\ HandoverSafe
    BY <1>2, <1>9 DEF IInv, Activity
  <2>2. OneActive'
    BY <1>2, <1>5 DEF OneActive, Active, InState
  <2>3. CommandsSafe' /\ StepAlone'
    BY <1>2, <1>3, <2>1 DEF CommandsSafe, StepAlone
  <2>4. ActivateSafe'
    <3>1. control # "activate"
      BY <2>1, InterfaceAssumptions, CP!ActivateInDispatch DEF IInv
    <3> QED BY <1>3, <3>1 DEF ActivateSafe
  <2>5. \A d : Idle(d) => d \in CallIds /\ modem'[d] \notin {"ACTIVE", "OTHER"}
    BY <1>1, <1>5 DEF Idle
  <2>6. HandoverSafe'
    <3>1. ASSUME control = "handover"
          PROVE  \A i \in hangups :
                    calls[i].id \in CallIds
                    /\ modem'[calls[i].id] \notin {"ACTIVE", "OTHER"}
      BY <2>1, <2>5, <3>1 DEF HandoverSafe
    <3> QED BY <1>2, <1>3, <2>1, <3>1 DEF HandoverSafe, Idle
  <2> QED BY <2>2, <2>3, <2>4, <2>6
<1> QED BY <1>6, <1>7, <1>5, <1>8, <1>9 DEF IInv, Activity

(* What a request can make of a call *)
LEMMA Effected ==
  ASSUME NEW h \in Commands, NEW info \in Effects(h)
  PROVE  /\ info.id \in CallIds /\ info.state \in States \cup {NoCall}
         /\ h.kind \in {"hold", "hangup"} =>
               info.id = h.call /\ info.state \in {"HOLDING", NoCall}
         /\ h.kind = "hangup" => info.state = NoCall
         /\ info.state = "ACTIVE" => h.kind \in {"answer", "resume"}
<1>1. CASE h.kind = "hold" /\ h.call \in Active
  BY <1>1, CallStates DEF Effects, Info, Active, InState, NoCall
<1>2. CASE h.kind = "resume" /\ h.call \in InState({"HOLDING"})
  BY <1>2, CallStates DEF Effects, Info, InState, NoCall
<1>3. CASE h.kind = "hangup" /\ h.call \in Present
  BY <1>3, CallStates DEF Effects, Info, Present, InState, NoCall
<1>4. CASE h.kind = "answer"
  BY <1>4, CallStates DEF Effects, Info, Ringing, InState, NoCall
<1>5. CASE h.kind = "dial" /\ Active = {} /\ voice
  BY <1>5, CallStates DEF Effects, Info, NoCall
<1> QED BY <1>1, <1>2, <1>3, <1>4, <1>5 DEF Effects

LEMMA ExecuteInModem ==
  ASSUME IInv, execute, NEW h \in Commands, h = Head(commands)
  PROVE  /\ ModemTyped' /\ Copied' /\ indications' \in Seq(Messages)
         /\ \E e : \A c \in CallIds : c # e => modem'[c] = modem[c]
         /\ h.kind = "hangup" =>
               \A c \in CallIds : modem'[c] # modem[c] => c = h.call /\ modem'[c] = NoCall
         /\ h.kind \notin {"answer", "resume"} =>
               \A c \in CallIds : modem'[c] = "ACTIVE" => modem[c] = "ACTIVE"
         /\ \E result \in {"SUCCESS", "FAILURE"} :
               /\ answers' = Append(answers, [request |-> h.request, result |-> result])
               /\ h.kind \in {"hold", "hangup"} /\ result = "SUCCESS" =>
                     modem'[h.call] # "ACTIVE"
<1>1. UNCHANGED <<interface, voice, announced, events, mishaps>>
  BY DEF execute
<1>2. UNCHANGED <<calls, voice_enabled, remote>>
  BY <1>1 DEF interface
<1>3. ASSUME NEW info \in Effects(h), Become(info.id, info.state)
      PROVE  /\ ModemTyped' /\ Copied' /\ indications' \in Seq(Messages)
             /\ \E e : \A c \in CallIds : c # e => modem'[c] = modem[c]
             /\ h.kind = "hangup" =>
                   \A c \in CallIds : modem'[c] # modem[c] => c = h.call /\ modem'[c] = NoCall
             /\ h.kind \notin {"answer", "resume"} =>
                   \A c \in CallIds : modem'[c] = "ACTIVE" => modem[c] = "ACTIVE"
             /\ h.kind \in {"hold", "hangup"} => modem'[h.call] # "ACTIVE"
  <2>1. /\ info.id \in CallIds /\ info.state \in States \cup {NoCall}
        /\ h.kind \in {"hold", "hangup"} =>
               info.id = h.call /\ info.state \in {"HOLDING", NoCall}
        /\ h.kind = "hangup" => info.state = NoCall
        /\ info.state = "ACTIVE" => h.kind \in {"answer", "resume"}
    BY Effected
  <2>2. PICK e \in CallIds, s \in States \cup {NoCall} : e = info.id /\ s = info.state
    BY <2>1
  <2>3. Become(e, s)
    BY <1>3, <2>2 DEF Become
  <2>4. /\ indications' \in Seq(Messages) /\ Copied'
        /\ modem' \in [CallIds -> States \cup {NoCall}]
        /\ modem'[e] = s
        /\ \A d \in CallIds : d # e => modem'[d] = modem[d]
    BY <1>1, <1>2, <2>3, BecomeCopied
  <2>5. ModemTyped'
    BY <1>1, <1>2, <2>4 DEF IInv, ModemTyped
  <2>6. h.kind \in {"hold", "hangup"} => modem'[h.call] # "ACTIVE"
    BY <2>1, <2>2, <2>4 DEF NoCall
  <2>7. h.kind = "hangup" =>
            \A c \in CallIds : modem'[c] # modem[c] => c = h.call /\ modem'[c] = NoCall
    BY <2>1, <2>2, <2>4
  <2>8. h.kind \notin {"answer", "resume"} =>
            \A c \in CallIds : modem'[c] = "ACTIVE" => modem[c] = "ACTIVE"
    BY <2>1, <2>2, <2>4
  <2> QED BY <2>4, <2>5, <2>6, <2>7, <2>8
<1>4. ASSUME UNCHANGED <<modem, indications>>
      PROVE  ModemTyped' /\ Copied' /\ indications' \in Seq(Messages)
  <2>1. ModemTyped' /\ Entries' = Entries
    BY <1>1, <1>2, <1>4 DEF IInv, ModemTyped, Entries, Present, InState, Info
  <2>2. ToSet(calls)' = ToSet(calls)
    BY <1>2
  <2>3. Copied'
    BY <1>1, <1>2, <1>4, <2>1, <2>2 DEF IInv, Copied
  <2> QED BY <1>4, <2>1, <2>3 DEF IInv, ChannelsTyped
<1>5. \/ /\ \E info \in Effects(h) : Become(info.id, info.state)
         /\ answers' = Append(answers, [request |-> h.request, result |-> "SUCCESS"])
      \/ /\ UNCHANGED <<modem, indications>>
         /\ answers' = Append(answers, [request |-> h.request, result |-> "FAILURE"])
  BY DEF execute
<1> QED BY <1>3, <1>4, <1>5

(* A request is executed.  It is alone, or the hang-up of a call that is idle. *)
LEMMA ExecuteKeeps ==
  ASSUME IInv, execute
  PROVE  IInv'
<1>1. /\ commands # <<>> /\ commands' = Tail(commands)
      /\ UNCHANGED <<interface, mishaps>>
  BY DEF execute
<1>2. UNCHANGED <<calls, known, outstanding, job, completions, control, hangups>>
  BY <1>1 DEF interface
<1>3. commands \in Seq(Commands) /\ answers \in Seq(Answers)
  BY DEF IInv, ChannelsTyped
<1>4. PICK k \in Nat :
          /\ Len(commands) = k + 1 /\ DOMAIN commands = 1..(k + 1)
          /\ commands' \in Seq(Commands) /\ Len(commands') = k /\ DOMAIN commands' = 1..k
          /\ \A i \in 1..k : commands'[i] = commands[i + 1]
  <2>1. PICK k \in Nat : k + 1 = Len(commands) /\ k = Len(commands) - 1
    BY <1>1, <1>3, EmptySeq
  <2>2. /\ commands' \in Seq(Commands) /\ Len(commands') = k
        /\ \A i \in 1..k : commands'[i] = commands[i + 1]
    BY <1>1, <1>3, <2>1, HeadTailProperties
  <2>3. DOMAIN commands = 1..(k + 1)
    BY <1>3, <2>1, LenProperties
  <2>4. DOMAIN commands' = 1..k
    BY <2>2, LenProperties
  <2> QED BY <2>1, <2>2, <2>3, <2>4
<1>5. PICK h \in Commands : h = Head(commands) /\ h = commands[1] /\ 1 \in DOMAIN commands
  <2>1. Head(commands) = commands[1] /\ 1 \in DOMAIN commands
    BY <1>4
  <2>2. commands[1] \in Commands
    BY <1>3, <2>1
  <2> QED BY <2>1, <2>2
<1>6. /\ ModemTyped' /\ Copied' /\ indications' \in Seq(Messages)
      /\ \E e : \A c \in CallIds : c # e => modem'[c] = modem[c]
      /\ h.kind = "hangup" =>
            \A c \in CallIds : modem'[c] # modem[c] => c = h.call /\ modem'[c] = NoCall
      /\ h.kind \notin {"answer", "resume"} =>
            \A c \in CallIds : modem'[c] = "ACTIVE" => modem[c] = "ACTIVE"
      /\ \E result \in {"SUCCESS", "FAILURE"} :
            /\ answers' = Append(answers, [request |-> h.request, result |-> result])
            /\ h.kind \in {"hold", "hangup"} /\ result = "SUCCESS" =>
                  modem'[h.call] # "ACTIVE"
  BY <1>5, ExecuteInModem
<1>7. PICK result \in {"SUCCESS", "FAILURE"} :
          /\ answers' = Append(answers, [request |-> h.request, result |-> result])
          /\ h.kind \in {"hold", "hangup"} /\ result = "SUCCESS" =>
                modem'[h.call] # "ACTIVE"
  BY <1>6
<1>8. PICK m \in Answers : m = [request |-> h.request, result |-> result]
  BY DEF Commands, Answers
<1>9. PICK n \in Nat :
          /\ DOMAIN answers = 1..n /\ DOMAIN answers' = 1..(n + 1)
          /\ answers' \in Seq(Answers)
          /\ \A i \in 1..n : answers'[i] = answers[i]
          /\ answers'[n + 1] = m
  <2>1. PICK n \in Nat : n = Len(answers) /\ DOMAIN answers = 1..n
    BY <1>3, LenProperties
  <2>2. /\ answers' \in Seq(Answers) /\ Len(answers') = n + 1
        /\ \A i \in 1..n : answers'[i] = answers[i]
        /\ answers'[n + 1] = m
    BY <1>3, <1>7, <1>8, <2>1, AppendProperties
  <2>3. DOMAIN answers' = 1..(n + 1)
    BY <2>2, LenProperties
  <2> QED BY <2>1, <2>2, <2>3
<1>10. ChannelsTyped'
  <2>1. ASSUME NEW i \in DOMAIN commands'
        PROVE  /\ commands'[i].request \in known'
               /\ commands'[i].request \in outstanding' =>
                     commands'[i].role = job'[commands'[i].request].role
    <3>1. i + 1 \in DOMAIN commands /\ commands'[i] = commands[i + 1]
      BY <1>4
    <3>2. /\ commands[i + 1].request \in known
          /\ commands[i + 1].request \in outstanding =>
                commands[i + 1].role = job[commands[i + 1].request].role
      BY <3>1 DEF IInv, ChannelsTyped
    <3> QED BY <1>2, <3>1, <3>2
  <2>2. ASSUME NEW i \in DOMAIN answers'
        PROVE  answers'[i].request \in known'
    <3>1. CASE i \in 1..n
      BY <1>2, <1>9, <3>1 DEF IInv, ChannelsTyped
    <3>2. CASE i = n + 1
      BY <1>2, <1>5, <1>8, <1>9, <3>2 DEF IInv, ChannelsTyped
    <3>3. i \in 1..n \/ i = n + 1
      BY <1>9
    <3> QED BY <3>1, <3>2, <3>3
  <2> QED BY <1>4, <1>6, <1>9, <2>1, <2>2 DEF ChannelsTyped
<1>11. ASSUME mishaps = {}
       PROVE  OneActive' /\ CommandsSafe' /\ StepAlone' /\ ActivateSafe' /\ HandoverSafe'
  <2>1. OneActive /\ CommandsSafe /\ StepAlone /\ ActivateSafe /\ HandoverSafe
    BY <1>11 DEF IInv, Activity
  <2>2. /\ h.role = "handover" \/ k = 0
        /\ h.role = "handover" => h.kind = "hangup" /\ Idle(h.call)
        /\ h.role = "step1" =>
              h.kind \in {"hold", "hangup"} /\ Active \subseteq {h.call}
        /\ h.kind \in {"answer", "resume"} => Active = {}
    BY <1>4, <1>5, <2>1 DEF CommandsSafe
  <2>3. ASSUME NEW i \in 1..k
        PROVE  /\ commands'[i].role = "handover" /\ commands'[i].kind = "hangup"
               /\ Idle(commands'[i].call)
    <3>1. i + 1 \in DOMAIN commands /\ commands'[i] = commands[i + 1] /\ k + 1 # 1
      BY <1>4
    <3>2. commands[i + 1].role = "handover"
      BY <1>4, <2>1, <3>1 DEF CommandsSafe
    <3>3. commands[i + 1].kind = "hangup" /\ Idle(commands[i + 1].call)
      BY <2>1, <3>1, <3>2 DEF CommandsSafe
    <3> QED BY <3>1, <3>2, <3>3 DEF Idle
  <2>4. h.role = "handover" =>
            \A c \in CallIds : modem[c] \notin {"ACTIVE", "OTHER"}
                                  => modem'[c] \notin {"ACTIVE", "OTHER"}
    BY <1>6, <2>2 DEF NoCall
  <2>5. OneActive'
    <3>1. CASE h.kind \in {"answer", "resume"}
      <4>1. \A c \in CallIds : modem[c] # "ACTIVE"
        BY <2>2, <3>1 DEF Active, InState
      <4> QED BY <1>6, <4>1 DEF OneActive, Active, InState
    <3>2. CASE h.kind \notin {"answer", "resume"}
      BY <1>6, <2>1, <3>2 DEF OneActive, Active, InState
    <3> QED BY <3>1, <3>2
  <2>6. CommandsSafe'
    <3>1. ASSUME NEW i \in 1..k
          PROVE  commands'[i].call \in CallIds
                 /\ modem'[commands'[i].call] \notin {"ACTIVE", "OTHER"}
      <4>1. h.role = "handover"
        BY <2>2
      <4> QED BY <2>3, <2>4, <4>1 DEF Idle
    <3> QED BY <1>4, <2>3, <3>1 DEF CommandsSafe, Idle
  <2>7. StepAlone'
    <3>1. ASSUME NEW r \in outstanding, job[r].role = "step1"
          PROVE  /\ \A q \in outstanding : q # r => job[q].role = "step2"
                 /\ completions[r] = 0 =>
                       /\ commands' # <<>> =>
                             /\ commands'[1].request = r
                             /\ \A i \in DOMAIN answers' : answers'[i].request # r
                       /\ \A i \in DOMAIN answers' :
                             answers'[i].request = r /\ answers'[i].result = "SUCCESS"
                                => Active' = {}
      <4>1. \A q \in outstanding : q # r => job[q].role = "step2"
        BY <2>1, <3>1 DEF StepAlone
      <4>2. ASSUME completions[r] = 0
            PROVE  /\ commands' = <<>>
                   /\ \A i \in DOMAIN answers' :
                         answers'[i].request = r /\ answers'[i].result = "SUCCESS"
                            => Active' = {}
        <5>1. /\ commands[1].request = r
              /\ \A i \in DOMAIN answers : answers[i].request # r
          BY <1>1, <2>1, <3>1, <4>2 DEF StepAlone
        <5>2. h.role = "step1"
          BY <1>5, <3>1, <5>1 DEF IInv, ChannelsTyped
        <5>3. k = 0 /\ h.kind \in {"hold", "hangup"} /\ Active \subseteq {h.call}
          BY <2>2, <5>2
        <5>4. commands' = <<>>
          BY <1>4, <5>3, EmptySeq
        <5>5. result = "SUCCESS" => Active' = {}
          <6>1. \A c \in CallIds : modem'[c] = "ACTIVE" => c = h.call
            BY <1>6, <5>3 DEF Active, InState
          <6> QED BY <1>7, <5>3, <6>1 DEF Active, InState
        <5>6. ASSUME NEW i \in DOMAIN answers', answers'[i].request = r,
                     answers'[i].result = "SUCCESS"
              PROVE  Active' = {}
          <6>1. i \in 1..n \/ i = n + 1
            BY <1>9
          <6>2. i \notin 1..n
            BY <1>9, <5>1, <5>6
          <6>3. result = "SUCCESS"
            BY <1>8, <1>9, <5>6, <6>1, <6>2
          <6> QED BY <5>5, <6>3
        <5> QED BY <5>4, <5>6
      <4> QED BY <4>1, <4>2
    <3> QED BY <1>2, <3>1 DEF StepAlone
  <2>8. ActivateSafe'
    BY <1>1, <1>2, <2>1 DEF ActivateSafe
  <2>9. HandoverSafe'
    <3>1. ASSUME control = "handover"
          PROVE  /\ \A r \in outstanding : job[r].role # "step1"
                 /\ \A i \in hangups :
                       calls[i].id \in CallIds
                       /\ modem'[calls[i].id] \notin {"ACTIVE", "OTHER"}
                 /\ \A i \in DOMAIN commands' : commands'[i].role = "handover"
      <4>1. h.role = "handover"
        BY <1>5, <2>1, <3>1 DEF HandoverSafe
      <4>2. \A i \in hangups : Idle(calls[i].id)
        BY <2>1, <3>1 DEF HandoverSafe
      <4> QED BY <1>4, <2>1, <2>3, <2>4, <3>1, <4>1, <4>2 DEF HandoverSafe, Idle
    <3> QED BY <1>2, <3>1 DEF HandoverSafe, Idle
  <2> QED BY <2>5, <2>6, <2>7, <2>8, <2>9
<1>12. CP!IInv'
  BY <1>1, InterfaceKept DEF IInv
<1> QED BY <1>1, <1>6, <1>10, <1>11, <1>12 DEF IInv, Activity

(* The list is a copy of the calls to begin with, and each call in a state of its
   own. *)
LEMMA Initial ==
  ASSUME Init
  PROVE  IInv
<1>1. /\ modem \in [CallIds -> States \cup {NoCall}]
      /\ \A c, d \in Present : c # d => modem[c] # modem[d]
      /\ calls \in SetToSeqs(Entries) /\ seen = calls /\ cleared = FALSE
      /\ voice = TRUE /\ announced \in BOOLEAN /\ voice_enabled = announced
      /\ Call!InitOperations /\ events = 0 /\ commands = <<>> /\ answers = <<>>
      /\ indications = <<>> /\ mishaps = {}
  BY DEF Init, Entries
<1>2. /\ IsFiniteSet(Entries) /\ Entries \subseteq CP!Entries
      /\ \A e, f \in Entries : e.id = f.id => e = f
  <2>1. Present \subseteq CallIds /\ IsFiniteSet(Present)
    BY CallAssumption, FS_Subset DEF Present, InState
  <2>2. PICK f : f = [d \in Present |-> Info(d, modem[d])]
    OBVIOUS
  <2>3. f \in Surjection(Present, Entries)
    BY <2>2 DEF Surjection, Entries
  <2>4. IsFiniteSet(Entries)
    BY <2>1, <2>3, FS_Surjection
  <2>5. Entries \subseteq CP!Entries
    BY DEF Entries, CP!Entries, Info, Present, InState
  <2>6. \A e, g \in Entries : e.id = g.id => e = g
    BY DEF Entries, Info
  <2> QED BY <2>4, <2>5, <2>6
<1>3. /\ calls \in Seq(Entries) /\ ToSet(calls) = Entries
      /\ \A i, j \in DOMAIN calls : calls[i] = calls[j] => i = j
  BY <1>1, <1>2, Listings
<1>4. calls \in Seq(CP!Entries) /\ CP!CallsDistinct
  <2>1. calls \in Seq(CP!Entries)
    BY <1>2, <1>3
  <2>2. \A i \in DOMAIN calls : calls[i] \in Entries
    BY <1>3 DEF ToSet
  <2> QED BY <1>2, <1>3, <2>1, <2>2 DEF CP!CallsDistinct
<1>5. CP!InitOperations
  BY <1>1, Zenon
     DEF Call!InitOperations, CP!InitOperations, Call!Req!Init, CP!Req!Init,
         Call!Requests, CP!Requests, Call!Ops, CP!Ops, Call!None, CP!None,
         Call!NoJob, CP!NoJob
<1>6. CP!IInv
  BY <1>1, <1>4, <1>5, InterfaceAssumptions, CP!InitialOperations
<1>7. remote = "alive" /\ outstanding = {} /\ control = "loop"
  BY <1>5 DEF CP!InitOperations, CP!Req!Init
<1>8. ModemTyped
  BY <1>1, <1>7, MaxEventsAssumption DEF ModemTyped
<1>9. ChannelsTyped
  BY <1>1 DEF ChannelsTyped
<1>10. Copied
  <2>1. Leads(<<>>, Entries, announced, Entries, announced)
    BY <1>1, LeadsNowhere
  <2>2. Leads(indications, ToSet(calls), voice_enabled, Entries, announced)
    BY <1>1, <1>3, <2>1
  <2> QED BY <1>1, <2>2 DEF Copied
<1>11. OneActive
  <2>1. Active \subseteq Present /\ \A c \in Active : modem[c] = "ACTIVE"
    BY CallStates DEF Active, Present, InState
  <2> QED BY <1>1, <2>1 DEF OneActive
<1>12. CommandsSafe /\ StepAlone /\ ActivateSafe /\ HandoverSafe
  BY <1>1, <1>7 DEF CommandsSafe, StepAlone, ActivateSafe, HandoverSafe
<1> QED BY <1>6, <1>8, <1>9, <1>10, <1>11, <1>12 DEF IInv, Activity

LEMMA Stutters ==
  ASSUME IInv, UNCHANGED vars
  PROVE  IInv'
<1>1. UNCHANGED <<interface, modem, voice, announced, events, commands, answers,
                  indications, mishaps>>
  BY DEF vars
<1>2. UNCHANGED <<calls, voice_enabled, remote, known, outstanding, job, completions,
                  control, hangups>>
  BY <1>1 DEF interface
<1>3. CP!IInv'
  BY <1>1, InterfaceKept DEF IInv
<1>4. ModemTyped' /\ Entries' = Entries /\ Active' = Active
  BY <1>1, <1>2 DEF IInv, ModemTyped, Entries, Active, Present, InState, Info
<1>5. ChannelsTyped'
  BY <1>1, <1>2 DEF IInv, ChannelsTyped
<1>6. Copied'
  <2>1. ToSet(calls)' = ToSet(calls)
    BY <1>2
  <2> QED BY <1>1, <1>2, <1>4, <2>1 DEF IInv, Copied
<1> QED BY <1>1, <1>3, <1>4, <1>5, <1>6, QuietKeeps DEF IInv, ChannelsTyped, Idle

LEMMA Inductive ==
  ASSUME IInv, [Next]_vars
  PROVE  IInv'
<1>1. CASE ofono_asks \/ ofono_cancels \/ runs_on \/ response \/ indication
  BY <1>1, AsksKeeps, CancelsKeeps, RunsKeeps, ResponseKeeps, IndicationKeeps
<1>2. CASE call_arrives \/ call_ends \/ call_connects
  BY <1>2, ArrivesKeeps, EndsInModemKeeps, ConnectsKeeps
<1>3. CASE voice_lost \/ voice_enabled_reported \/ handover_completed
  BY <1>3, VoiceLostKeeps, VoiceReportedKeeps, HandoverCompletedKeeps
<1>4. CASE execute
  BY <1>4, ExecuteKeeps
<1>5. CASE UNCHANGED vars
  BY <1>5, Stutters
<1> QED BY <1>1, <1>2, <1>3, <1>4, <1>5 DEF Next

THEOREM Invariance == Spec => []IInv
<1>1. Init => IInv
  BY Initial
<1>2. IInv /\ [Next]_vars => IInv'
  BY Inductive
<1> QED BY <1>1, <1>2, PTL DEF Spec

------------------------------------------------------------------------------
(* The theorems *)

(* The interface keeps its types also in this composition, the modem has calls
   only in the states there are, and what is on its way to or from it concerns
   requests that were made. *)
THEOREM TypeCorrect == Spec => []TypeOK
<1>1. IInv => TypeOK
  <2> SUFFICES ASSUME IInv PROVE TypeOK
    OBVIOUS
  <2>1. Call!TypeOK
    <3>1. CP!TypeOK
      BY DEF IInv, CP!IInv
    <3> QED BY <3>1, Zenon
            DEF Call!TypeOK, CP!TypeOK, Call!Requests, CP!Requests, Call!Ops, CP!Ops,
                Call!None, CP!None, Call!NoJob, CP!NoJob, Call!Jobs, CP!Jobs,
                Call!HandoverTypes, CP!HandoverTypes
  <2>2. \A i \in DOMAIN indications :
            indications[i].kind \in {"calls", "voice", "handover"}
    <3>1. \A m \in Messages : m.kind \in {"calls", "voice", "handover"}
      BY DEF Messages
    <3>2. \A i \in DOMAIN indications : indications[i] \in Messages
      BY DEF IInv, ChannelsTyped
    <3> QED BY <3>1, <3>2
  <2> QED BY <2>1, <2>2 DEF TypeOK, IInv, ModemTyped, ChannelsTyped
<1> QED BY <1>1, Invariance, PTL

(* Once every indication has been handled, the list has exactly the calls of the
   modem, in their states, whatever was indicated one by one or all at once, and
   also after voice was lost in between. *)
THEOREM ListIsCopy == Spec => []ListMatchesModem
<1>1. IInv => ListMatchesModem
  BY ListUpToDate DEF IInv, ListMatchesModem, Entries
<1> QED BY <1>1, Invariance, PTL

(* Steps 1 and 2 of a swap never leave two calls active, whichever request fails,
   is cancelled, or answered late. *)
THEOREM NeverTwo == Spec => []NeverTwoActive
<1>1. IInv => NeverTwoActive
  <2> SUFFICES ASSUME IInv, mishaps = {} PROVE Cardinality(Active) <= 1
    BY DEF NeverTwoActive
  <2>1. OneActive
    BY DEF IInv, Activity
  <2>2. CASE Active = {}
    BY <2>2, FS_EmptySet
  <2>3. CASE Active # {}
    <3>1. PICK c : c \in Active
      BY <2>3
    <3>2. Active = {c}
      BY <2>1, <3>1 DEF OneActive
    <3>3. Cardinality({c}) = 1
      BY FS_Singleton
    <3> QED BY <3>2, <3>3
  <2> QED BY <2>2, <2>3
<1> QED BY <1>1, Invariance, PTL

(* A hang-up made because of a handover never ends the active call. *)
THEOREM ActiveKept == Spec => HandoverKeepsActive
<1>1. IInv /\ [Next]_vars =>
         [mishaps = {} /\ commands # <<>> /\ Head(commands).role = "handover"
            /\ commands' = Tail(commands) =>
               \A c \in Active : modem'[c] = "ACTIVE"]_vars
  <2> SUFFICES ASSUME IInv, Next, mishaps = {}, commands # <<>>,
                      Head(commands).role = "handover",
                      commands' = Tail(commands), NEW c \in Active
               PROVE  modem'[c] = "ACTIVE"
    BY DEF vars
  <2>1. modem[c] = "ACTIVE" /\ c \in CallIds
    BY DEF Active, InState
  <2>2. CASE execute
    <3>1. /\ commands \in Seq(Commands) /\ 1 \in DOMAIN commands
          /\ Head(commands) = commands[1]
      BY EmptySeq, LenProperties DEF IInv, ChannelsTyped
    <3>2. PICK h \in Commands : h = Head(commands)
      BY <3>1
    <3>3. h.kind = "hangup" /\ Idle(h.call)
      BY <3>1, <3>2 DEF IInv, Activity, CommandsSafe
    <3>4. \A d \in CallIds : modem'[d] # modem[d] => d = h.call /\ modem'[d] = NoCall
      BY <2>2, <3>2, <3>3, ExecuteInModem
    <3> QED BY <2>1, <3>3, <3>4 DEF Idle
  <2>3. CASE ~ execute
    <3>1. CASE UNCHANGED modem
      BY <2>1, <3>1
    <3>2. CASE UNCHANGED commands
      <4>1. Len(commands') = Len(commands) - 1 /\ Len(commands) \in Nat
        BY HeadTailProperties, LenProperties DEF IInv, ChannelsTyped
      <4> QED BY <3>2, <4>1
    <3> QED BY <2>3, <3>1, <3>2
            DEF Next, ofono_asks, ofono_cancels, runs_on, response, indication,
                UnchangedModem, call_arrives, call_ends, call_connects, voice_lost,
                voice_enabled_reported, handover_completed, Happens
  <2> QED BY <2>2, <2>3
<1> QED BY <1>1, Invariance, PTL DEF Spec, HandoverKeepsActive
==============================================================================
