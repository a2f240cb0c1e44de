--------------------------- MODULE QtiImsCallProofs ---------------------------
(***************************************************************************)
(* Proofs about the call interface, for any number of requests and of      *)
(* operations, any set of calls and of states, and indications of any      *)
(* length.                                                                 *)
(***************************************************************************)
EXTENDS QtiImsCall, FiniteSetTheorems, SequenceTheorems, WellFoundedInduction,
        TLAPS

Entries == [id : CallIds, state : States]

Distinct(list_of_calls) ==
    \A i, j \in DOMAIN list_of_calls :
        list_of_calls[i].id = list_of_calls[j].id => i = j

(* The pending requests that carry their operation on: not the step 1 that a
   step 2 has followed, or was refused to follow. *)
Current == {r \in outstanding : r \in activated => control = "activate"}

(* Those a step 2 may follow *)
Reserved == {r \in Current : job[r].role = "step1"}

Owned(o) == \E r \in Current : job[r].owner = o

(* Operations are numbered in the order ofono asks for them. *)
Numbered == started = 1..Cardinality(started)

(* There is room for every request that code that has begun may make. *)
RoomLeft ==
    Cardinality(known) + Cardinality(Reserved) + Cardinality(hangups)
        <= MaxRequests

(* A pending request is of an operation, unless it is of a handover. *)
JobsKnown ==
    \A r \in outstanding :
        /\ job[r] \in Jobs
        /\ job[r].role = "handover" <=> job[r].owner = None
        /\ job[r].owner \in started \cup {None}

(* Step 2 is only ever due, or just made, in the handler of step 1. *)
ControlTracked ==
    /\ activated \subseteq {dispatching}
    /\ activated # {} => control \in {"activate", "return"}
    /\ control = "activate" => dispatching \in activated
    /\ \A r \in activated : completions[r] > 0 /\ job[r].role = "step1"
    /\ control = "handover" <=> hangups # {}

(* One pending request carries an operation. *)
OneOwner ==
    \A r, s \in Current :
        job[r].owner = job[s].owner /\ job[r].owner # None => r = s

(* Step 2 has taken over from step 1, or was refused. *)
TakenOver ==
    \A r \in activated :
        control = "return" =>
            job[r].owner \in op_refused \/ Owned(job[r].owner)

(* What ofono has heard the end of goes no further. *)
CompletedPast ==
    \A o \in Ops :
        op_completed[o] > 0 =>
            \A r \in outstanding :
                job[r].owner = o => completions[r] > 0 /\ r \notin activated

(* An operation is destroyed when no request carries it any more. *)
DestroyedLast ==
    \A o \in Ops :
        /\ Owned(o) => op_destroyed[o] = 0
        /\ op_id[o] # None /\ o \notin op_refused /\ ~ Owned(o)
              => op_destroyed[o] = 1
        /\ o \in op_refused => ~ Owned(o) /\ op_destroyed[o] \in {1, 2}

(* What was not asked for has no history. *)
NotStarted ==
    \A o \in Ops \ started :
        op_id[o] = None /\ op_completed[o] = 0 /\ op_destroyed[o] = 0

(* The id ofono has is of a request of the operation. *)
IdsOwn == \A o \in Ops : op_id[o] \in outstanding => job[op_id[o]].owner = o

(* A failure has been reported, and nothing is a result before a report. *)
ResultsTracked ==
    \A o \in Ops : /\ op_completed[o] = 0 => op_result[o] = "none"
                   /\ o \in op_failed => op_completed[o] > 0

CancelledGone == \A o \in cancelled : \A r \in outstanding : job[r].owner # o

Operations ==
    /\ Numbered /\ RoomLeft /\ JobsKnown /\ ControlTracked /\ OneOwner
    /\ TakenOver /\ CompletedPast /\ DestroyedLast /\ NotStarted /\ IdsOwn
    /\ ResultsTracked /\ CancelledGone
    /\ OpCompletedOnce /\ OkMeansEveryRequestSucceeded /\ RefsExact

IInv == TypeOK /\ Operations /\ CallsDistinct /\ OfonoUpToDate

------------------------------------------------------------------------------
(* Numbers and sequences *)

(* A set of numbers that is not empty has a least one. *)
LEMMA Least ==
  ASSUME NEW S \in SUBSET Nat, S # {}
  PROVE  \E n \in S : \A m \in S : n <= m
<1>1. PICK n \in S : \A m \in S : ~ (<<m, n>> \in OpToRel(<, Nat))
  BY NatLessThanWellFounded, WFMin
<1>2. \A m \in S : (m < n) => <<m, n>> \in OpToRel(<, Nat)
  BY DEF OpToRel
<1>3. \A m \in S : ~ (m < n)
  BY <1>1, <1>2, Zenon
<1> QED BY <1>3

LEMMA MinLeast ==
  ASSUME NEW S \in SUBSET Nat, S # {}
  PROVE  Min(S) \in S /\ \A m \in S : Min(S) <= m
BY Least DEF Min

(* What RemoveAt leaves: the others, in order. *)
LEMMA Remaining ==
  ASSUME NEW S, NEW s \in Seq(S), NEW i \in 1..Len(s)
  PROVE  /\ RemoveAt(s, i) \in Seq(S)
         /\ Len(RemoveAt(s, i)) = Len(s) - 1
         /\ \A j \in 1..(Len(s) - 1) :
               RemoveAt(s, i)[j] = IF j < i THEN s[j] ELSE s[j + 1]
<1> DEFINE before == SubSeq(s, 1, i - 1)
           after == SubSeq(s, i + 1, Len(s))
<1>1. /\ before \in Seq(S) /\ Len(before) = i - 1
      /\ \A j \in 1..(i - 1) : before[j] = s[j]
  BY SubSeqProperties
<1>2. /\ after \in Seq(S) /\ Len(after) = Len(s) - i
      /\ \A j \in 1..(Len(s) - i) : after[j] = s[j + i]
  BY SubSeqProperties
<1>3. RemoveAt(s, i) = before \o after
  BY DEF RemoveAt
<1> HIDE DEF before, after
<1>4. /\ before \o after \in Seq(S)
      /\ Len(before \o after) = Len(s) - 1
      /\ \A j \in 1..(Len(s) - 1) :
            (before \o after)[j] = IF j <= i - 1 THEN before[j]
                                                 ELSE after[j - (i - 1)]
  BY <1>1, <1>2, ConcatProperties
<1>5. ASSUME NEW j \in 1..(Len(s) - 1)
      PROVE  (before \o after)[j] = IF j < i THEN s[j] ELSE s[j + 1]
  <2>1. CASE j < i
    BY <1>1, <1>4, <2>1
  <2>2. CASE ~ (j < i)
    <3>1. j - (i - 1) \in 1..(Len(s) - i) /\ j - (i - 1) + i = j + 1
      BY <2>2
    <3> QED BY <1>2, <1>4, <2>2, <3>1
  <2> QED BY <2>1, <2>2
<1> QED BY <1>3, <1>4, <1>5

------------------------------------------------------------------------------
(* The list of calls *)

(* An entry of an indication leaves a list of calls without duplicates. *)
LEMMA UpdateCall ==
  ASSUME NEW l \in Seq(Entries), Distinct(l), NEW info \in Infos
  PROVE  update_call(l, info) \in Seq(Entries) /\ Distinct(update_call(l, info))
<1> DEFINE found == info_find(l, info.id)
<1>1. found \subseteq 1..Len(l) /\ \A i \in found : l[i].id = info.id
  BY DEF info_find
<1>2. info.id \in CallIds /\ (info.state # END => info \in Entries)
  BY DEF Infos, Entries
<1>3. CASE found = {}
  <2>1. \A i \in DOMAIN l : l[i].id # info.id
    BY <1>3 DEF info_find
  <2>2. CASE info.state = END
    BY <1>3, <2>2 DEF update_call
  <2>3. CASE info.state # END
    <3> DEFINE new == Append(l, info)
    <3>1. update_call(l, info) = new
      BY <1>3, <2>3 DEF update_call
    <3>2. /\ new \in Seq(Entries) /\ DOMAIN new = 1..(Len(l) + 1)
          /\ new[Len(l) + 1] = info /\ Len(l) \in Nat
          /\ \A i \in 1..Len(l) : new[i] = l[i]
      BY <1>2, <2>3, AppendProperties
    <3> HIDE DEF new
    <3>3. Distinct(new)
      <4> SUFFICES ASSUME NEW i \in DOMAIN new, NEW j \in DOMAIN new,
                          new[i].id = new[j].id
                   PROVE  i = j
        BY DEF Distinct
      <4>1. \A k \in DOMAIN new : k \in DOMAIN l \/ k = Len(l) + 1
        BY <3>2
      <4> QED BY <2>1, <3>2, <4>1 DEF Distinct
    <3> QED BY <3>1, <3>2, <3>3
  <2> QED BY <2>2, <2>3
<1>4. CASE found # {}
  <2> DEFINE k == Min(found)
  <2>1. k \in found
    <3>1. found \in SUBSET Nat
      BY <1>1
    <3> HIDE DEF found
    <3> QED BY <1>4, <3>1, MinLeast
  <2>2. k \in 1..Len(l) /\ l[k].id = info.id
    BY <1>1, <2>1
  <2>3. CASE info.state = END
    <3> DEFINE new == RemoveAt(l, k)
    <3>1. update_call(l, info) = new
      BY <1>4, <2>3 DEF update_call
    <3> HIDE DEF k
    <3>2. /\ new \in Seq(Entries) /\ Len(new) = Len(l) - 1
          /\ \A j \in 1..(Len(l) - 1) :
                new[j] = IF j < k THEN l[j] ELSE l[j + 1]
          /\ DOMAIN new = 1..(Len(l) - 1) /\ Len(l) \in Nat
      BY <2>2, Remaining
    <3> HIDE DEF new
    <3>3. Distinct(new)
      <4> SUFFICES ASSUME NEW i \in DOMAIN new, NEW j \in DOMAIN new,
                          new[i].id = new[j].id
                   PROVE  i = j
        BY DEF Distinct
      <4> DEFINE at(n) == IF n < k THEN n ELSE n + 1
      <4>1. \A n \in DOMAIN new : at(n) \in DOMAIN l /\ new[n] = l[at(n)]
        BY <3>2
      <4>2. at(i) = at(j)
        BY <4>1 DEF Distinct
      <4> QED BY <2>2, <3>2, <4>2
    <3> QED BY <3>1, <3>2, <3>3
  <2>4. CASE info.state # END
    <3> DEFINE new == [l EXCEPT ![k] = info]
    <3>1. update_call(l, info) = new
      BY <1>4, <2>4 DEF update_call
    <3> HIDE DEF k
    <3>2. /\ new \in Seq(Entries) /\ DOMAIN new = DOMAIN l
          /\ \A j \in DOMAIN l : new[j].id = l[j].id
      BY <1>2, <2>2, <2>4, ExceptSeq
    <3> QED BY <3>1, <3>2 DEF Distinct
  <2> QED BY <2>3, <2>4
<1> QED BY <1>3, <1>4

(* f has the lists after each of the first n entries. *)
Lists(f, update, n) ==
    f = [i \in 0..n |-> IF i = 0 THEN calls
                                 ELSE update_call(f[i - 1], update[i])]

LEMMA ListsExist ==
  ASSUME NEW update, NEW N \in Nat
  PROVE  \E f : Lists(f, update, N)
<1> DEFINE Bad == {n \in Nat : \A f : ~ Lists(f, update, n)}
<1> SUFFICES ASSUME Bad # {} PROVE FALSE
  OBVIOUS
<1>1. PICK n \in Bad : \A m \in Bad : n <= m
  <2>1. Bad \in SUBSET Nat
    OBVIOUS
  <2> HIDE DEF Bad
  <2> QED BY <2>1, Least
<1>2. CASE n = 0
  <2>1. Lists([i \in 0..0 |-> calls], update, 0)
    BY DEF Lists
  <2> QED BY <1>2, <2>1
<1>3. CASE n # 0
  <2>1. n - 1 \in Nat /\ n - 1 \notin Bad
    BY <1>1, <1>3
  <2>2. PICK f : Lists(f, update, n - 1)
    BY <2>1
  <2> DEFINE g == [i \in 0..n |-> IF i <= n - 1 THEN f[i]
                                  ELSE update_call(f[n - 1], update[n])]
  <2>3. Lists(g, update, n)
    BY <2>1, <2>2, <1>3 DEF Lists
  <2> QED BY <2>3
<1> QED BY <1>2, <1>3

LEMMA Batches ==
  ASSUME NEW S
  PROVE  \A s \in Batch(S) : s \in Seq(S) /\ s # <<>>
BY MaxBatchAssumption DEF Batch

LEMMA ListsAfter ==
  ASSUME NEW update \in Seq(Infos)
  PROVE  \E f : /\ f[Len(update)] = calls_after(update) /\ f[0] = calls
                /\ \A n \in 1..Len(update) :
                      f[n] = update_call(f[n - 1], update[n])
<1> DEFINE N == Len(update)
<1>1. N \in Nat
  OBVIOUS
<1> DEFINE after == CHOOSE f : Lists(f, update, N)
<1>2. calls_after(update) = after[N]
  BY DEF calls_after, Lists
<1> HIDE DEF N
<1>3. Lists(after, update, N)
  BY <1>1, ListsExist
<1> HIDE DEF after
<1>4. after[0] = calls
  BY <1>1, <1>3 DEF Lists
<1>5. \A n \in 1..N : after[n] = update_call(after[n - 1], update[n])
  BY <1>1, <1>3 DEF Lists
<1> QED BY <1>2, <1>4, <1>5 DEF N

(* So does an indication as a whole, of any length. *)
LEMMA CallsAfter ==
  ASSUME calls \in Seq(Entries), CallsDistinct, NEW update \in Seq(Infos)
  PROVE  calls_after(update) \in Seq(Entries) /\ Distinct(calls_after(update))
<1> DEFINE N == Len(update)
<1>1. N \in Nat /\ \A i \in 1..N : update[i] \in Infos
  OBVIOUS
<1>2. PICK after : /\ after[N] = calls_after(update) /\ after[0] = calls
                   /\ \A n \in 1..N :
                         after[n] = update_call(after[n - 1], update[n])
  BY ListsAfter
<1> HIDE DEF N
<1> DEFINE Good(n) == after[n] \in Seq(Entries) /\ Distinct(after[n])
           Bad == {n \in 0..N : ~ Good(n)}
<1>3. Good(N) => calls_after(update) \in Seq(Entries) /\ Distinct(calls_after(update))
  BY <1>2
<1>g. Bad = {} => Good(N)
  <2>1. N \in 0..N
    BY <1>1
  <2> HIDE DEF Good
  <2> QED BY <2>1
<1> SUFFICES ASSUME Bad # {} PROVE FALSE
  <2> HIDE DEF Bad, Good
  <2> QED BY <1>3, <1>g
<1>4. PICK n \in Bad : \A m \in Bad : n <= m
  <2>1. Bad \in SUBSET Nat
    BY <1>1
  <2> HIDE DEF Bad
  <2> QED BY <2>1, Least
<1>5. CASE n = 0
  BY <1>2, <1>4, <1>5 DEF CallsDistinct, Distinct
<1>6. CASE n # 0
  <2>1. n - 1 \in 0..N /\ n \in 1..N /\ Good(n - 1)
    BY <1>1, <1>4, <1>6
  <2>2. Good(n)
    BY <1>1, <1>2, <2>1, UpdateCall
  <2> QED BY <1>4, <2>2
<1> QED BY <1>5, <1>6

(* The calls listed after an entry: those it is not about, and the one it is
   about if that goes on. *)
LEMMA UpdateEntries ==
  ASSUME NEW l \in Seq(Entries), Distinct(l), NEW info \in Infos
  PROVE  ToSet(update_call(l, info))
            = {e \in ToSet(l) : e.id # info.id}
                 \cup (IF info.state = END THEN {} ELSE {info})
<1> DEFINE found == info_find(l, info.id)
<1>1. found \subseteq 1..Len(l) /\ \A i \in DOMAIN l : i \in found <=> l[i].id = info.id
  BY DEF info_find
<1>2. Len(l) \in Nat /\ DOMAIN l = 1..Len(l)
  OBVIOUS
<1>3. CASE found = {}
  <2>1. {e \in ToSet(l) : e.id # info.id} = ToSet(l)
    BY <1>1, <1>3 DEF ToSet
  <2>2. CASE info.state = END
    BY <1>3, <2>1, <2>2 DEF update_call
  <2>3. CASE info.state # END
    <3>1. update_call(l, info) = Append(l, info)
      BY <1>3, <2>3 DEF update_call
    <3>2. info \in Entries
      BY <2>3 DEF Infos, Entries
    <3> DEFINE new == Append(l, info)
    <3>3. /\ DOMAIN new = 1..(Len(l) + 1) /\ new[Len(l) + 1] = info
          /\ \A i \in 1..Len(l) : new[i] = l[i]
      BY <3>2, AppendProperties
    <3> HIDE DEF new
    <3>4. ToSet(new) = ToSet(l) \cup {info}
      BY <1>2, <3>3 DEF ToSet
    <3> QED BY <2>1, <2>3, <3>1, <3>4 DEF new
  <2> QED BY <2>2, <2>3
<1>4. CASE found # {}
  <2> DEFINE k == Min(found)
  <2>1. k \in found
    <3>1. found \in SUBSET Nat
      BY <1>1, <1>2
    <3> HIDE DEF found
    <3> QED BY <1>4, <3>1, MinLeast
  <2>2. k \in 1..Len(l) /\ l[k].id = info.id
    BY <1>1, <1>2, <2>1
  <2>3. \A i \in DOMAIN l : l[i].id = info.id <=> i = k
    BY <1>2, <2>2 DEF Distinct
  <2>4. CASE info.state = END
    <3> DEFINE new == RemoveAt(l, k)
    <3>1. update_call(l, info) = new
      BY <1>4, <2>4 DEF update_call
    <3> HIDE DEF k, found
    <3>2. /\ Len(new) = Len(l) - 1
          /\ \A j \in 1..(Len(l) - 1) :
                new[j] = IF j < k THEN l[j] ELSE l[j + 1]
          /\ DOMAIN new = 1..(Len(l) - 1)
      BY <2>2, Remaining
    <3> HIDE DEF new
    <3>3. ToSet(new) \subseteq {e \in ToSet(l) : e.id # info.id}
      <4> SUFFICES ASSUME NEW j \in DOMAIN new
                   PROVE  new[j] \in ToSet(l) /\ new[j].id # info.id
        BY DEF ToSet
      <4>1. PICK i \in DOMAIN l : new[j] = l[i] /\ i # k
        BY <1>2, <2>2, <3>2
      <4> QED BY <2>3, <4>1 DEF ToSet
    <3>4. {e \in ToSet(l) : e.id # info.id} \subseteq ToSet(new)
      <4> SUFFICES ASSUME NEW i \in DOMAIN l, l[i].id # info.id
                   PROVE  l[i] \in ToSet(new)
        BY DEF ToSet
      <4>1. i # k
        BY <2>3
      <4>2. CASE i < k
        <5>1. i \in DOMAIN new /\ new[i] = l[i]
          BY <1>2, <2>2, <3>2, <4>2
        <5> QED BY <5>1 DEF ToSet
      <4>3. CASE ~ (i < k)
        <5>1. i - 1 \in DOMAIN new /\ ~ (i - 1 < k) /\ i - 1 + 1 = i
          BY <1>2, <2>2, <3>2, <4>1, <4>3
        <5>2. new[i - 1] = l[i]
          BY <3>2, <5>1
        <5> QED BY <5>1, <5>2 DEF ToSet
      <4> QED BY <4>2, <4>3
    <3> QED BY <2>4, <3>1, <3>3, <3>4
  <2>5. CASE info.state # END
    <3> DEFINE new == [l EXCEPT ![k] = info]
    <3>1. update_call(l, info) = new
      BY <1>4, <2>5 DEF update_call
    <3> HIDE DEF k, found
    <3>2. /\ DOMAIN new = DOMAIN l /\ new[k] = info
          /\ \A j \in DOMAIN l : j # k => new[j] = l[j]
      BY <1>2, <2>2
    <3> HIDE DEF new
    <3>3. ToSet(new) = {e \in ToSet(l) : e.id # info.id} \cup {info}
      BY <1>2, <2>2, <2>3, <3>2 DEF ToSet
    <3> QED BY <2>5, <3>1, <3>3
  <2> QED BY <2>4, <2>5
<1> QED BY <1>3, <1>4

(* After an indication with one entry for each call it is about, the calls
   listed are those it is not about and those it reports, but for the ended. *)
LEMMA EntriesAfter ==
  ASSUME calls \in Seq(Entries), CallsDistinct, NEW update \in Seq(Infos),
         \A i, j \in DOMAIN update : update[i].id = update[j].id => i = j
  PROVE  ToSet(calls_after(update))
            = {e \in ToSet(calls) : \A i \in DOMAIN update : update[i].id # e.id}
                 \cup {info \in ToSet(update) : info.state # END}
<1> DEFINE N == Len(update)
<1>1. N \in Nat /\ DOMAIN update = 1..N /\ \A i \in 1..N : update[i] \in Infos
  OBVIOUS
<1>2. PICK after : /\ after[N] = calls_after(update) /\ after[0] = calls
                   /\ \A n \in 1..N :
                         after[n] = update_call(after[n - 1], update[n])
  BY ListsAfter
<1> HIDE DEF N
<1> DEFINE Kept(n) == {e \in ToSet(calls) : \A i \in 1..n : update[i].id # e.id}
           Told(n) == {info \in {update[i] : i \in 1..n} : info.state # END}
           Good(n) == /\ after[n] \in Seq(Entries) /\ Distinct(after[n])
                      /\ ToSet(after[n]) = Kept(n) \cup Told(n)
           Bad == {n \in 0..N : ~ Good(n)}
<1>3. Bad = {}
  <2> SUFFICES ASSUME Bad # {} PROVE FALSE
    OBVIOUS
  <2>1. PICK n \in Bad : \A m \in Bad : n <= m
    <3>1. Bad \in SUBSET Nat
      BY <1>1
    <3> HIDE DEF Bad
    <3> QED BY <3>1, Least
  <2>2. CASE n = 0
    <3>1. Kept(0) = ToSet(calls) /\ Told(0) = {}
      OBVIOUS
    <3> QED BY <1>2, <2>1, <2>2, <3>1 DEF CallsDistinct, Distinct
  <2>3. CASE n # 0
    <3>1. n - 1 \in 0..N /\ n \in 1..N /\ Good(n - 1)
      BY <1>1, <2>1, <2>3
    <3>2. after[n] = update_call(after[n - 1], update[n])
      BY <1>2, <3>1
    <3>3. after[n] \in Seq(Entries) /\ Distinct(after[n])
      BY <1>1, <3>1, <3>2, UpdateCall
    <3>4. ToSet(after[n])
             = {e \in Kept(n - 1) \cup Told(n - 1) : e.id # update[n].id}
                  \cup (IF update[n].state = END THEN {} ELSE {update[n]})
      BY <1>1, <3>1, <3>2, UpdateEntries
    <3>5. \A i \in 1..n : i \in 1..(n - 1) \/ i = n
      BY <3>1
    <3>6. {e \in Kept(n - 1) : e.id # update[n].id} = Kept(n)
      BY <1>1, <3>1, <3>5
    <3>7. {e \in Told(n - 1) : e.id # update[n].id} = Told(n - 1)
      BY <1>1, <3>1
    <3>8. Told(n - 1) \cup (IF update[n].state = END THEN {} ELSE {update[n]})
             = Told(n)
      BY <1>1, <3>1, <3>5
    <3> HIDE DEF Kept, Told
    <3> QED BY <2>1, <3>3, <3>4, <3>6, <3>7, <3>8
  <2> QED BY <2>2, <2>3
<1>4. ToSet(after[N]) = Kept(N) \cup Told(N)
  BY <1>1, <1>3
<1>5. {update[i] : i \in 1..N} = ToSet(update)
  BY <1>1 DEF ToSet
<1> QED BY <1>1, <1>2, <1>4, <1>5

(* When voice was enabled and is not in the end, some report said that it had
   been lost. *)
LEMMA VoiceLost ==
  ASSUME NEW enabled \in Seq(BOOLEAN), enabled # <<>>, voice_enabled,
         ~ Last(enabled)
  PROVE  voice_lost(enabled)
<1> DEFINE Off == {i \in DOMAIN enabled : ~ enabled[i]}
<1>1. PICK n \in Nat \ {0} : n = Len(enabled) /\ enabled \in [1..n -> BOOLEAN]
  OBVIOUS
<1>2. Len(enabled) = n /\ n \in Off
  BY <1>1 DEF Last
<1>3. PICK i \in Off : \A j \in Off : i <= j
  <2>1. Off \in SUBSET Nat /\ Off # {}
    BY <1>1, <1>2
  <2> HIDE DEF Off
  <2> QED BY <2>1, Least
<1>4. i # 1 => enabled[i - 1]
  BY <1>1, <1>3
<1> QED BY <1>3, <1>4 DEF voice_lost

------------------------------------------------------------------------------
(* Requests *)

LEMMA Counting ==
  ASSUME TypeOK
  PROVE  /\ IsFiniteSet(known) /\ IsFiniteSet(started) /\ IsFiniteSet(hangups)
         /\ IsFiniteSet(outstanding)
         /\ \A S : IsFiniteSet(S) =>
               /\ Cardinality(S) \in Nat
               /\ \A x : x \notin S => /\ IsFiniteSet(S \cup {x})
                                       /\ Cardinality(S \cup {x})
                                             = Cardinality(S) + 1
               /\ \A x \in S : /\ IsFiniteSet(S \ {x})
                               /\ Cardinality(S \ {x}) = Cardinality(S) - 1
               /\ \A T : T \subseteq S =>
                     IsFiniteSet(T) /\ Cardinality(T) <= Cardinality(S)
<1>1. IsFiniteSet(Requests) /\ IsFiniteSet(Ops)
  BY FS_Interval, BoundsAssumption DEF Requests, Ops
<1>2. IsFiniteSet(known) /\ IsFiniteSet(outstanding) /\ IsFiniteSet(started)
  BY <1>1, FS_Subset DEF TypeOK
<1>3. IsFiniteSet(hangups)
  <2>1. calls \in Seq([id : CallIds, state : States])
        /\ hangups \subseteq DOMAIN calls
    BY DEF TypeOK
  <2>2. DOMAIN calls = 1..Len(calls) /\ Len(calls) \in Int
    BY <2>1, LenProperties
  <2> QED BY <2>1, <2>2, FS_Interval, FS_Subset
<1>4. ASSUME NEW S, IsFiniteSet(S)
      PROVE  /\ Cardinality(S) \in Nat
             /\ \A x : x \notin S => /\ IsFiniteSet(S \cup {x})
                                     /\ Cardinality(S \cup {x})
                                           = Cardinality(S) + 1
             /\ \A x \in S : /\ IsFiniteSet(S \ {x})
                             /\ Cardinality(S \ {x}) = Cardinality(S) - 1
             /\ \A T : T \subseteq S =>
                   IsFiniteSet(T) /\ Cardinality(T) <= Cardinality(S)
  BY <1>4, FS_CardinalityType, FS_AddElement, FS_RemoveElement, FS_Subset
<1> QED BY <1>2, <1>3, <1>4

(* The effect of freeing a request n times: on its operation alone, and on
   references and failed swaps as it ends a swap or not. *)
LEMMA Freed ==
  ASSUME TypeOK, NEW r, NEW j, NEW n \in Nat, NEW count \in Int,
         request_free(r, j, n, count)
  PROVE  /\ op_destroyed' \in [Ops -> Nat] /\ refs' \in Int
         /\ failed_swaps' \in Nat /\ activated' = activated \ {r}
         /\ \A o \in Ops :
               op_destroyed'[o] = IF destroys(r, j) /\ o = j.owner
                                    THEN op_destroyed[o] + n ELSE op_destroyed[o]
         /\ refs' = count - n * unrefs(r, j)
         /\ failed_swaps' = failed_swaps + IF fails_swap(r, j) THEN 1 ELSE 0
<1>1. op_destroyed \in [Ops -> Nat] /\ failed_swaps \in Nat
  BY DEF TypeOK
<1>2. /\ op_destroyed' = [o \in Ops |->
             IF destroys(r, j) /\ o = j.owner THEN op_destroyed[o] + n
                                              ELSE op_destroyed[o]]
      /\ refs' = count - n * unrefs(r, j)
      /\ failed_swaps' = failed_swaps + IF fails_swap(r, j) THEN 1 ELSE 0
      /\ activated' = activated \ {r}
  BY DEF request_free
<1>3. unrefs(r, j) \in {1, 2}
  BY DEF unrefs
<1>4. n * unrefs(r, j) \in Nat
  <2>1. CASE unrefs(r, j) = 1
    BY <2>1
  <2>2. CASE unrefs(r, j) = 2
    BY <2>2
  <2> QED BY <1>3, <2>1, <2>2
<1>5. refs' \in Int
  BY <1>2, <1>4
<1>6. op_destroyed' \in [Ops -> Nat]
  BY <1>1, <1>2
<1>7. failed_swaps' \in Nat
  BY <1>1, <1>2
<1> QED BY <1>2, <1>5, <1>6, <1>7

(* A request that is made is new; it is pending, or is refused. *)
LEMMA Submitted ==
  ASSUME TypeOK, Cardinality(known) < MaxRequests,
         NEW j \in Jobs, submit(j), NEW r, r = next_request
  PROVE  /\ r \in Requests \ known /\ known' = known \cup {r}
         /\ completions' = completions /\ releases' \in [Requests -> Nat]
         /\ activated' = activated
         /\ op_destroyed' \in [Ops -> Nat] /\ refs' \in Int
         /\ failed_swaps' \in Nat
         /\ \A o \in Ops : o # j.owner => op_destroyed'[o] = op_destroyed[o]
         /\ \/ /\ remote = "alive" /\ outstanding' = outstanding \cup {r}
               /\ job' \in [Requests -> Jobs \cup {NoJob}] /\ job'[r] = j
               /\ \A q \in Requests \ {r} : job'[q] = job[q]
               /\ id_map' = id_map \cup {r} /\ refs' = refs + 1
               /\ UNCHANGED <<op_destroyed, op_refused, failed_swaps>>
            \/ /\ remote = "dead"
               /\ op_refused' = op_refused \cup ({j.owner} \ {None})
               /\ j.role # "handover" =>
                     \A o \in Ops : o = j.owner =>
                        op_destroyed'[o] \in {op_destroyed[o] + 1, op_destroyed[o] + 2}
               /\ UNCHANGED <<outstanding, job, id_map>>
<1>1. r \in Requests
  BY Counting, BoundsAssumption DEF next_request, Requests
<1>t. /\ op_destroyed \in [Ops -> Nat] /\ refs \in Int /\ failed_swaps \in Nat
      /\ releases \in [Requests -> Nat] /\ activated \subseteq known
      /\ job \in [Requests -> Jobs \cup {NoJob}]
  BY DEF TypeOK
<1>2. CASE remote = "alive"
  <2>1. /\ Req!Accept(r) /\ job' = [job EXCEPT ![r] = j]
        /\ id_map' = id_map \cup {r} /\ refs' = refs + 1
        /\ UNCHANGED <<op_destroyed, op_refused, activated, failed_swaps>>
    BY <1>2 DEF submit
  <2>2. /\ r \notin known /\ known' = known \cup {r}
        /\ outstanding' = outstanding \cup {r}
        /\ UNCHANGED <<completions, releases>>
    BY <2>1 DEF Req!Accept
  <2>3. /\ job' \in [Requests -> Jobs \cup {NoJob}] /\ job'[r] = j
        /\ \A q \in Requests \ {r} : job'[q] = job[q]
    BY <1>1, <1>t, <2>1
  <2> QED BY <1>1, <1>2, <1>t, <2>1, <2>2, <2>3
<1>3. CASE remote # "alive"
  <2>1. /\ remote = "dead" /\ Req!Refuse(r)
        /\ op_refused' = op_refused \cup ({j.owner} \ {None})
        /\ UNCHANGED <<job, id_map>>
    BY <1>3 DEF submit
  <2>2. PICK again \in {0, 1} : request_free(r, j, 1 + again, refs + 1)
    BY <1>3 DEF submit
  <2>3. /\ r \notin known /\ known' = known \cup {r}
        /\ releases' = [releases EXCEPT ![r] = @ + 1]
        /\ UNCHANGED <<outstanding, completions>>
    BY <2>1 DEF Req!Refuse
  <2>4. 1 + again \in Nat /\ refs + 1 \in Int
    BY <1>t, <2>2
  <2>n. PICK n \in Nat : n = 1 + again
    BY <2>4
  <2>c. PICK count \in Int : count = refs + 1
    BY <2>4
  <2>f. request_free(r, j, n, count)
    BY <2>2, <2>n, <2>c DEF request_free
  <2>5. /\ op_destroyed' \in [Ops -> Nat] /\ refs' \in Int
        /\ failed_swaps' \in Nat /\ activated' = activated \ {r}
        /\ \A o \in Ops :
              op_destroyed'[o] = IF destroys(r, j) /\ o = j.owner
                                   THEN op_destroyed[o] + n ELSE op_destroyed[o]
    BY <2>f, Freed DEF request_free
  <2>6. activated' = activated
    BY <1>t, <2>3, <2>5
  <2>7. releases' \in [Requests -> Nat]
    BY <1>1, <1>t, <2>3
  <2>8. \A o \in Ops : o # j.owner => op_destroyed'[o] = op_destroyed[o]
    BY <2>5
  <2>9. ASSUME j.role # "handover", NEW o \in Ops, o = j.owner
        PROVE  op_destroyed'[o] \in {op_destroyed[o] + 1, op_destroyed[o] + 2}
    <3>1. r \notin activated
      BY <1>t, <2>3
    <3>2. j.role \in {"whole", "step1", "step2"}
      BY <2>9 DEF Jobs
    <3>3. destroys(r, j)
      BY <3>1, <3>2 DEF destroys, fails_swap
    <3>4. n \in {1, 2}
      BY <2>2, <2>n
    <3> QED BY <1>t, <2>5, <2>9, <3>3, <3>4
  <2> QED BY <1>1, <2>1, <2>3, <2>5, <2>6, <2>7, <2>8, <2>9
<1> QED BY <1>2, <1>3

(* While no step 1 is being dealt with, all pending requests are current. *)
LEMMA AllCurrent ==
  ASSUME TypeOK, ControlTracked, control # "return"
  PROVE  /\ Current = outstanding /\ Reserved = Unfinished
         /\ control # "activate" => activated = {}
BY DEF Current, Reserved, Unfinished, ControlTracked
(* The types of what requests change *)
RequestsTyped ==
    /\ id_map \subseteq known /\ refs \in Int
    /\ known \subseteq Requests /\ outstanding \subseteq known
    /\ completions \in [Requests -> Nat] /\ releases \in [Requests -> Nat]
    /\ job \in [Requests -> Jobs \cup {NoJob}]
    /\ activated \subseteq outstanding /\ failed_swaps \in Nat
    /\ op_refused \subseteq started
    /\ op_destroyed \in [Ops -> Nat]

(* A request for an operation that has not ended, or for none, keeps the
   records of requests and the count of references. *)
LEMMA SubmitKeeps ==
  ASSUME TypeOK, Operations, Cardinality(known) < MaxRequests,
         NEW j \in Jobs, submit(j), j.role = "handover" <=> j.owner = None,
         started \subseteq started', j.owner \in started' \cup {None},
         j.owner \notin cancelled,
         \A o \in Ops : o = j.owner => op_completed[o] = 0,
         UNCHANGED <<op_completed, cancelled>>
  PROVE  RequestsTyped' /\ JobsKnown' /\ CompletedPast' /\ CancelledGone'
         /\ RefsExact'
<1>r. PICK r : r = next_request
  OBVIOUS
<1>1. /\ r \in Requests \ known /\ known' = known \cup {r}
      /\ completions' = completions /\ releases' \in [Requests -> Nat]
      /\ activated' = activated
      /\ op_destroyed' \in [Ops -> Nat] /\ refs' \in Int
      /\ failed_swaps' \in Nat
      /\ \A o \in Ops : o # j.owner => op_destroyed'[o] = op_destroyed[o]
      /\ \/ /\ remote = "alive" /\ outstanding' = outstanding \cup {r}
            /\ job' \in [Requests -> Jobs \cup {NoJob}] /\ job'[r] = j
            /\ \A q \in Requests \ {r} : job'[q] = job[q]
            /\ id_map' = id_map \cup {r} /\ refs' = refs + 1
            /\ UNCHANGED <<op_destroyed, op_refused, failed_swaps>>
         \/ /\ remote = "dead"
            /\ op_refused' = op_refused \cup ({j.owner} \ {None})
            /\ UNCHANGED <<outstanding, job, id_map>>
  BY <1>r, Submitted
<1>t. /\ id_map \subseteq known /\ outstanding \subseteq known
      /\ known \subseteq Requests
      /\ completions \in [Requests -> Nat] /\ activated \subseteq outstanding
      /\ job \in [Requests -> Jobs \cup {NoJob}]
      /\ op_refused \subseteq started /\ cancelled \subseteq Ops
      /\ refs \in Int /\ failed_swaps \in Nat
  BY DEF TypeOK
<1>2. /\ RequestsTyped'
      /\ \A q \in outstanding' : q = r \/ (q \in outstanding /\ q # r)
      /\ \A q \in outstanding : job'[q] = job[q]
      /\ r \in outstanding' => job'[r] = j
  <2>1. CASE remote = "alive"
    <3>1. /\ outstanding' = outstanding \cup {r} /\ job'[r] = j
          /\ job' \in [Requests -> Jobs \cup {NoJob}]
          /\ \A q \in Requests \ {r} : job'[q] = job[q]
          /\ id_map' = id_map \cup {r} /\ op_refused' = op_refused
      BY <1>1, <2>1
    <3>2. RequestsTyped'
      BY <1>1, <1>t, <3>1 DEF RequestsTyped
    <3> QED BY <1>1, <1>t, <3>1, <3>2
  <2>2. CASE remote # "alive"
    BY <1>1, <1>t, <2>2 DEF RequestsTyped
  <2> QED BY <2>1, <2>2
<1>3. JobsKnown'
  BY <1>2 DEF Operations, JobsKnown
<1>4. CompletedPast'
  BY <1>1, <1>2, <1>t DEF Operations, CompletedPast
<1>5. CancelledGone'
  <2>1. \A q \in outstanding' : q = r \/ q \in outstanding
    BY <1>2
  <2>2. ASSUME NEW o \in cancelled', NEW q \in outstanding'
        PROVE  job'[q].owner # o
    <3>1. CASE q = r
      BY <1>2, <2>2, <3>1
    <3>2. CASE q # r
      BY <1>2, <2>2, <3>2 DEF Operations, CancelledGone
    <3> QED BY <3>1, <3>2
  <2> QED BY <2>2 DEF CancelledGone
<1>6. RefsExact'
  <2>1. CASE remote = "alive"
    <3>1. known' = id_map' => known = id_map
      BY <1>1, <1>t, <2>1
    <3>2. Cardinality(outstanding') = Cardinality(outstanding) + 1
          /\ Cardinality(outstanding) \in Nat
      BY <1>1, <1>t, <2>1, Counting
    <3> QED BY <1>1, <1>t, <2>1, <3>1, <3>2, BaseRefsAssumption
            DEF Operations, RefsExact, NoRefusal
  <2>2. CASE remote # "alive"
    BY <1>1, <1>t, <2>2 DEF RefsExact, NoRefusal
  <2> QED BY <2>1, <2>2
<1> QED BY <1>2, <1>3, <1>4, <1>5, <1>6

(* A request that begins an operation carries it. *)
LEMMA Begin ==
  ASSUME TypeOK, Operations, NEW j \in Jobs, begin(j),
         j.owner = next_op, j.role \in {"whole", "step1"}
  PROVE  TypeOK' /\ Operations'
<1>r. PICK r : r = next_request
  OBVIOUS
<1>o. PICK o : o = next_op
  OBVIOUS
<1>b. /\ control \in {"loop", "ofono"} /\ o \in Ops
      /\ Room(IF j.role = "step1" THEN 2 ELSE 1)
      /\ started' = started \cup {o} /\ submit(j) /\ j.owner = o
      /\ op_id' = [op_id EXCEPT ![o] = IF remote = "alive" THEN r ELSE None]
      /\ UNCHANGED <<calls, seen, cleared, voice_enabled, remote, control, dispatching,
                     hangups, handover, op_completed, op_result, op_failed,
                     cancelled>>
  BY <1>r, <1>o DEF begin, ofono_asks, list, loop
<1>w. None \notin Requests /\ None \notin Ops
  BY DEF None, Requests, Ops
<1>t. /\ outstanding \subseteq known /\ known \subseteq Requests
      /\ activated \subseteq outstanding
      /\ job \in [Requests -> Jobs \cup {NoJob}]
      /\ started \subseteq Ops /\ cancelled \subseteq started
      /\ op_id \in [Ops -> known \cup {None}] /\ None \notin Ops
      /\ op_completed \in [Ops -> Nat] /\ op_destroyed \in [Ops -> Nat]
  BY <1>w DEF TypeOK
<1>c. /\ activated = {} /\ Current = outstanding /\ Reserved = Unfinished
      /\ hangups = {}
  BY <1>b, AllCurrent DEF Operations, ControlTracked
<1>n. /\ Cardinality(known) \in Nat /\ Cardinality(started) \in Nat
      /\ IsFiniteSet(started) /\ IsFiniteSet(known) /\ IsFiniteSet(Reserved)
      /\ Cardinality(Reserved) \in Nat
  BY <1>c, Counting DEF Unfinished
<1>m. /\ Cardinality(known) + Cardinality(Reserved)
            + (IF j.role = "step1" THEN 2 ELSE 1) <= MaxRequests
      /\ Cardinality(known) < MaxRequests
  BY <1>b, <1>c, <1>n, BoundsAssumption DEF Room
<1>f. o \notin started /\ o = Cardinality(started) + 1
  <2>1. o = Cardinality(started) + 1
    BY <1>o DEF next_op
  <2>2. started = 1..Cardinality(started)
    BY DEF Operations, Numbered
  <2> QED BY <1>n, <2>1, <2>2
<1>h. /\ op_id[o] = None /\ op_completed[o] = 0 /\ op_destroyed[o] = 0
      /\ o \notin op_refused
  BY <1>b, <1>f DEF TypeOK, Operations, NotStarted
<1>s. /\ r \in Requests \ known /\ known' = known \cup {r}
      /\ activated' = activated
      /\ \A p \in Ops : p # o => op_destroyed'[p] = op_destroyed[p]
      /\ \/ /\ remote = "alive" /\ outstanding' = outstanding \cup {r}
            /\ job' \in [Requests -> Jobs \cup {NoJob}] /\ job'[r] = j
            /\ \A q \in Requests \ {r} : job'[q] = job[q]
            /\ op_destroyed' = op_destroyed /\ op_refused' = op_refused
         \/ /\ remote # "alive" /\ op_refused' = op_refused \cup {o}
            /\ op_destroyed'[o] \in {op_destroyed[o] + 1, op_destroyed[o] + 2}
            /\ outstanding' = outstanding /\ job' = job
  BY <1>b, <1>m, <1>r, <1>t, Submitted
<1>k. RequestsTyped' /\ JobsKnown' /\ CompletedPast' /\ CancelledGone'
      /\ RefsExact'
  <2>1. /\ j.role = "handover" <=> j.owner = None
        /\ started \subseteq started' /\ j.owner \in started' \cup {None}
        /\ j.owner \notin cancelled
        /\ \A p \in Ops : p = j.owner => op_completed[p] = 0
        /\ UNCHANGED <<op_completed, cancelled>>
    BY <1>b, <1>f, <1>h, <1>t
  <2> QED BY <1>b, <1>m, <2>1, SubmitKeeps
<1>u. /\ Current' = outstanding' /\ activated' = {} /\ Current \subseteq Current'
      /\ \A q \in Current : q # r /\ job'[q] = job[q] /\ job[q].owner # o
      /\ \A q \in Current' : q \in Current \/ q = r
      /\ r \in Current' => job'[r] = j /\ op_destroyed'[o] = 0
  <2>1. activated' = {} /\ Current' = outstanding'
    BY <1>c, <1>s DEF Current
  <2>2. \A q \in outstanding : q # r /\ q \in Requests /\ job[q].owner # o
    BY <1>b, <1>f, <1>s, <1>t DEF Operations, JobsKnown
  <2>3. CASE remote = "alive"
    BY <1>c, <1>h, <1>s, <2>1, <2>2, <2>3
  <2>4. CASE remote # "alive"
    BY <1>c, <1>s, <2>1, <2>2, <2>4
  <2> QED BY <2>3, <2>4
<1>1. TypeOK'
  <2>1. op_id' \in [Ops -> known' \cup {None}]
    BY <1>b, <1>s, <1>t
  <2>2. dispatching' \in known' \cup {None} /\ started' \subseteq Ops
        /\ op_failed' \subseteq started' /\ cancelled' \subseteq started'
    BY <1>b, <1>s DEF TypeOK
  <2> QED BY <1>b, <1>k, <2>1, <2>2 DEF TypeOK, RequestsTyped
<1>2. Numbered'
  <2>1. started = 1..Cardinality(started)
    BY DEF Operations, Numbered
  <2>2. started' = 1..(Cardinality(started) + 1)
    BY <1>b, <1>f, <1>n, <2>1
  <2>3. Cardinality(started') = Cardinality(started) + 1
    BY <1>b, <1>f, <1>n, Counting
  <2> QED BY <2>2, <2>3 DEF Numbered
<1>3. RoomLeft'
  <2>1. Cardinality(known') = Cardinality(known) + 1 /\ Cardinality({}) = 0
    BY <1>n, <1>s, Counting, FS_EmptySet
  <2>2. CASE j.role = "step1"
    <3>1. Reserved' \subseteq Reserved \cup {r}
      BY <1>u DEF Reserved
    <3>2. Cardinality(Reserved') \in Nat
          /\ Cardinality(Reserved') <= Cardinality(Reserved) + 1
      <4>1. r \notin Reserved
        BY <1>c, <1>s, <1>t DEF Reserved
      <4> QED BY <1>n, <3>1, <4>1, Counting
    <3> QED BY <1>b, <1>c, <1>m, <1>n, <2>1, <2>2, <3>2, BoundsAssumption
            DEF RoomLeft
  <2>3. CASE j.role # "step1"
    <3>1. Reserved' \subseteq Reserved
      BY <1>u, <2>3 DEF Reserved
    <3>2. Cardinality(Reserved') \in Nat
          /\ Cardinality(Reserved') <= Cardinality(Reserved)
      BY <1>n, <3>1, Counting
    <3> QED BY <1>b, <1>c, <1>m, <1>n, <2>1, <2>3, <3>2, BoundsAssumption
            DEF RoomLeft
  <2> QED BY <2>2, <2>3
<1>4. ControlTracked'
  BY <1>b, <1>c, <1>u DEF ControlTracked
<1>5. OneOwner'
  BY <1>b, <1>u DEF Operations, OneOwner
<1>6. TakenOver'
  BY <1>u DEF TakenOver
<1>7. DestroyedLast'
  <2>1. ASSUME NEW p \in Ops, p # o
        PROVE  /\ Owned(p)' <=> Owned(p)
               /\ op_destroyed'[p] = op_destroyed[p] /\ op_id'[p] = op_id[p]
               /\ p \in op_refused <=> p \in op_refused'
    BY <1>b, <1>s, <1>t, <1>u, <2>1 DEF Owned
  <2>2. Owned(o)' => r \in Current'
    BY <1>u DEF Owned
  <2>3. r \in Current' => Owned(o)'
    BY <1>b, <1>u DEF Owned
  <2>4. /\ r \notin Current' => o \in op_refused'
        /\ o \in op_refused' => r \notin Current' /\ op_destroyed'[o] \in {1, 2}
    BY <1>c, <1>h, <1>s, <1>u
  <2> QED BY <1>u, <2>1, <2>2, <2>3, <2>4 DEF Operations, DestroyedLast
<1>8. NotStarted'
  BY <1>b, <1>s, <1>t DEF Operations, NotStarted
<1>9. IdsOwn'
  <2>1. ASSUME NEW p \in Ops, op_id'[p] \in outstanding'
        PROVE  job'[op_id'[p]].owner = p
    <3>1. CASE p = o
      <4>1. op_id'[o] = IF remote = "alive" THEN r ELSE None
        BY <1>b, <1>t
      <4>2. None \notin outstanding
        BY <1>t DEF None, Requests
      <4> QED BY <1>b, <1>s, <2>1, <3>1, <4>1, <4>2
    <3>2. CASE p # o
      <4>1. op_id'[p] = op_id[p] /\ op_id[p] # r
        BY <1>b, <1>s, <1>t, <3>2 DEF None, Requests
      <4> QED BY <1>c, <1>u, <2>1, <4>1 DEF Operations, IdsOwn
    <3> QED BY <3>1, <3>2
  <2> QED BY <2>1 DEF IdsOwn
<1>10. ResultsTracked' /\ OpCompletedOnce' /\ OkMeansEveryRequestSucceeded'
  BY <1>b DEF Operations, ResultsTracked, OpCompletedOnce,
              OkMeansEveryRequestSucceeded
<1> QED BY <1>k, <1>1, <1>2, <1>3, <1>4, <1>5, <1>6, <1>7, <1>8, <1>9, <1>10
        DEF Operations

(* Step 2 of a swap answers or resumes a call. *)
LEMMA SecondStep ==
  ASSUME TypeOK, Operations, swap_step_activate
  PROVE  \E j \in Jobs : /\ submit(j) /\ j.owner = job[dispatching].owner
                         /\ j.role = "step2" /\ j.kind \in {"answer", "resume"}
<1>d. PICK d : d = dispatching
  OBVIOUS
<1>1. job[d] \in Jobs
  BY <1>d DEF swap_step_activate, TypeOK, Operations, ControlTracked, JobsKnown
<1> DEFINE new == activation(job[d].owner, "step2", job[d].hold, job[d].incoming)
<1>2. /\ new \in Jobs /\ new.owner = job[d].owner /\ new.role = "step2"
      /\ new.kind \in {"answer", "resume"}
  BY <1>1 DEF Jobs, activation, radio_answer, radio_resume, Job, None
<1>3. PICK j : j = new
  OBVIOUS
<1>4. submit(j)
  BY <1>d, <1>3 DEF swap_step_activate, submit, request_free, destroys, unrefs,
                    fails_swap
<1> QED BY <1>d, <1>2, <1>3, <1>4

(* Step 2 of a swap takes over from step 1. *)
LEMMA StepActivate ==
  ASSUME TypeOK, Operations, swap_step_activate
  PROVE  TypeOK' /\ Operations'
<1>r. PICK r : r = next_request
  OBVIOUS
<1>d. PICK d : d = dispatching
  OBVIOUS
<1>w. None \notin Requests /\ None \notin Ops
  BY DEF None, Requests, Ops
<1>t. /\ outstanding \subseteq known /\ known \subseteq Requests
      /\ activated \subseteq outstanding /\ None \notin Requests
      /\ job \in [Requests -> Jobs \cup {NoJob}]
      /\ started \subseteq Ops /\ cancelled \subseteq started
      /\ op_id \in [Ops -> known \cup {None}] /\ None \notin Ops
      /\ op_completed \in [Ops -> Nat] /\ op_destroyed \in [Ops -> Nat]
  BY <1>w DEF TypeOK
<1>c. /\ control = "activate" /\ activated = {d} /\ d \in outstanding
      /\ Current = outstanding /\ hangups = {} /\ job[d].role = "step1"
  BY <1>d, <1>t DEF swap_step_activate, Operations, ControlTracked, Current
<1>g. /\ job[d] \in Jobs /\ job[d].owner \in started /\ job[d].owner # None
  BY <1>c DEF Operations, JobsKnown
<1>o. PICK o \in started : o = job[d].owner
  BY <1>g
<1>j. PICK j \in Jobs : /\ submit(j) /\ j.role = "step2" /\ j.owner = o
  BY <1>d, <1>o, SecondStep
<1>b. /\ control' = "return"
      /\ UNCHANGED <<calls, seen, cleared, voice_enabled, remote, dispatching, hangups,
                     handover, started, op_id, op_completed, op_result,
                     op_failed, cancelled>>
  BY DEF swap_step_activate, list
<1>n. /\ Cardinality(known) \in Nat /\ IsFiniteSet(known)
      /\ IsFiniteSet(Reserved) /\ Cardinality(Reserved) \in Nat
      /\ d \in Reserved /\ Cardinality({}) = 0
      /\ IsFiniteSet(Reserved \ {d})
      /\ Cardinality(Reserved \ {d}) = Cardinality(Reserved) - 1
      /\ Cardinality(Reserved \ {d}) \in Nat
  <2>1. IsFiniteSet(Reserved) /\ d \in Reserved
    BY <1>c, Counting DEF Reserved
  <2> QED BY <2>1, Counting, FS_EmptySet
<1>m. /\ Cardinality(known) + Cardinality(Reserved) <= MaxRequests
      /\ Cardinality(known) < MaxRequests
  BY <1>c, <1>n, BoundsAssumption DEF Operations, RoomLeft
<1>h. /\ op_completed[o] = 0 /\ op_destroyed[o] = 0 /\ o \notin cancelled
      /\ o \notin op_refused
  <2>1. Owned(o)
    BY <1>c, <1>o DEF Owned
  <2>2. op_destroyed[o] = 0 /\ o \notin op_refused
    BY <1>o, <1>t, <2>1 DEF Operations, DestroyedLast
  <2>3. ~ (op_completed[o] > 0)
    BY <1>c, <1>o, <1>t DEF Operations, CompletedPast
  <2>4. o \notin cancelled
    BY <1>c, <1>o DEF Operations, CancelledGone
  <2> QED BY <1>o, <1>t, <2>2, <2>3, <2>4
<1>s. /\ r \in Requests \ known /\ known' = known \cup {r}
      /\ activated' = activated /\ completions' = completions
      /\ \A p \in Ops : p # o => op_destroyed'[p] = op_destroyed[p]
      /\ \/ /\ remote = "alive" /\ outstanding' = outstanding \cup {r}
            /\ job' \in [Requests -> Jobs \cup {NoJob}] /\ job'[r] = j
            /\ \A q \in Requests \ {r} : job'[q] = job[q]
            /\ op_destroyed' = op_destroyed /\ op_refused' = op_refused
         \/ /\ remote # "alive" /\ op_refused' = op_refused \cup {o}
            /\ op_destroyed'[o] \in {op_destroyed[o] + 1, op_destroyed[o] + 2}
            /\ outstanding' = outstanding /\ job' = job
  BY <1>m, <1>r, <1>t, <1>j, Submitted
<1>k. RequestsTyped' /\ JobsKnown' /\ CompletedPast' /\ CancelledGone'
      /\ RefsExact'
  <2>1. /\ j.role = "handover" <=> j.owner = None
        /\ started \subseteq started' /\ j.owner \in started' \cup {None}
        /\ j.owner \notin cancelled
        /\ \A p \in Ops : p = j.owner => op_completed[p] = 0
        /\ UNCHANGED <<op_completed, cancelled>>
    BY <1>b, <1>j, <1>h, <1>t
  <2> QED BY <1>j, <1>m, <2>1, SubmitKeeps
<1>u. /\ Current' = outstanding' \ {d} /\ Current \ {d} \subseteq Current'
      /\ \A q \in Current : q # r /\ job'[q] = job[q]
      /\ \A q \in Current \ {d} : job[q].owner # o
      /\ \A q \in Current' : q \in Current \ {d} \/ q = r
      /\ r \in Current' => job'[r] = j /\ op_destroyed'[o] = 0
  <2>1. Current' = outstanding' \ {d}
    BY <1>b, <1>c, <1>s DEF Current
  <2>2. \A q \in outstanding : q # r /\ q \in Requests
    BY <1>s, <1>t
  <2>3. \A q \in Current \ {d} : job[q].owner # o
    BY <1>c, <1>o, <1>t DEF Operations, OneOwner
  <2>4. CASE remote = "alive"
    BY <1>c, <1>h, <1>s, <2>1, <2>2, <2>3, <2>4
  <2>5. CASE remote # "alive"
    BY <1>c, <1>s, <2>1, <2>2, <2>3, <2>5
  <2> QED BY <2>4, <2>5
<1>1. TypeOK'
  <2>1. op_id' \in [Ops -> known' \cup {None}]
    BY <1>b, <1>s, <1>t
  <2>2. dispatching' \in known' \cup {None} /\ started' \subseteq Ops
        /\ op_failed' \subseteq started' /\ cancelled' \subseteq started'
    BY <1>b, <1>s DEF TypeOK
  <2> QED BY <1>b, <1>k, <2>1, <2>2 DEF TypeOK, RequestsTyped
<1>2. Numbered'
  BY <1>b DEF Operations, Numbered
<1>3. RoomLeft'
  <2>1. Cardinality(known') = Cardinality(known) + 1
    BY <1>n, <1>s, Counting
  <2>2. Reserved' \subseteq Reserved \ {d}
    BY <1>j, <1>u DEF Reserved
  <2>3. Cardinality(Reserved') \in Nat
        /\ Cardinality(Reserved') <= Cardinality(Reserved) - 1
    BY <1>n, <2>2, Counting
  <2> QED BY <1>b, <1>c, <1>m, <1>n, <2>1, <2>3, BoundsAssumption DEF RoomLeft
<1>4. ControlTracked'
  BY <1>b, <1>c, <1>d, <1>s, <1>u DEF Operations, ControlTracked
<1>5. OneOwner'
  BY <1>j, <1>u DEF Operations, OneOwner
<1>6. Owned(o)' <=> r \in Current'
  BY <1>j, <1>u DEF Owned
<1>7. TakenOver'
  <2>1. r \notin Current' => o \in op_refused'
    BY <1>c, <1>s, <1>t, <1>u
  <2>2. \A q \in activated' : job'[q].owner = o
    BY <1>c, <1>o, <1>s, <1>u
  <2> QED BY <1>6, <2>1, <2>2 DEF TakenOver, Owned
<1>8. DestroyedLast'
  <2>1. ASSUME NEW p \in Ops, p # o
        PROVE  /\ Owned(p)' <=> Owned(p)
               /\ op_destroyed'[p] = op_destroyed[p] /\ op_id'[p] = op_id[p]
               /\ p \in op_refused <=> p \in op_refused'
    BY <1>b, <1>j, <1>o, <1>s, <1>t, <1>u, <2>1 DEF Owned
  <2>2. /\ r \notin Current' => o \in op_refused'
        /\ o \in op_refused' => r \notin Current' /\ op_destroyed'[o] \in {1, 2}
    BY <1>c, <1>h, <1>s, <1>t, <1>u
  <2> QED BY <1>u, <1>6, <2>1, <2>2 DEF Operations, DestroyedLast
<1>9. NotStarted'
  BY <1>b, <1>o, <1>s, <1>t DEF Operations, NotStarted
<1>10. IdsOwn'
  BY <1>b, <1>c, <1>s, <1>t, <1>u DEF Operations, IdsOwn
<1>11. ResultsTracked' /\ OpCompletedOnce' /\ OkMeansEveryRequestSucceeded'
  BY <1>b DEF Operations, ResultsTracked, OpCompletedOnce,
              OkMeansEveryRequestSucceeded
<1> QED BY <1>k, <1>1, <1>2, <1>3, <1>4, <1>5, <1>7, <1>8, <1>9, <1>10, <1>11
        DEF Operations

(* After a handover a call that was found on hold is hung up. *)
LEMMA HandoverStep ==
  ASSUME TypeOK, Operations, hangup_held
  PROVE  \E i \in hangups, j \in Jobs :
            /\ i = Min(hangups) /\ submit(j)
            /\ j.kind = "hangup" /\ j.call = calls[i].id
            /\ j.role = "handover" /\ j.owner = None
<1>1. calls \in Seq(Entries) /\ hangups \subseteq DOMAIN calls
  BY DEF TypeOK, Entries
<1>2. hangups # {}
  BY DEF hangup_held, Operations, ControlTracked
<1>3. PICK i \in hangups : i = Min(hangups)
  <2>1. DOMAIN calls = 1..Len(calls) /\ Len(calls) \in Nat
    BY <1>1, LenProperties
  <2>2. hangups \in SUBSET Nat
    BY <1>1, <2>1
  <2> QED BY <1>2, <2>2, MinLeast
<1> DEFINE new == radio_hangup(calls[i].id, None, "handover", None, None)
<1>4. calls[i] \in Entries
  BY <1>1, ElementOfSeq
<1>5. /\ new \in Jobs /\ new.kind = "hangup" /\ new.call = calls[i].id
      /\ new.role = "handover" /\ new.owner = None
  BY <1>4 DEF Jobs, Entries, radio_hangup, Job, None
<1>6. PICK j : j = new
  OBVIOUS
<1>7. submit(j)
  BY <1>3, <1>6 DEF hangup_held, submit, request_free, destroys, unrefs, fails_swap
<1> QED BY <1>3, <1>5, <1>6, <1>7

(* A request to hang up a call on hold is of no operation. *)
LEMMA HangupHeld ==
  ASSUME TypeOK, Operations, hangup_held
  PROVE  TypeOK' /\ Operations'
<1>r. PICK r : r = next_request
  OBVIOUS
<1>w. None \notin Requests /\ None \notin Ops
  BY DEF None, Requests, Ops
<1>t. /\ outstanding \subseteq known /\ known \subseteq Requests
      /\ activated \subseteq outstanding /\ None \notin Requests
      /\ job \in [Requests -> Jobs \cup {NoJob}]
      /\ started \subseteq Ops /\ cancelled \subseteq started
      /\ op_id \in [Ops -> known \cup {None}] /\ None \notin Ops
      /\ op_completed \in [Ops -> Nat] /\ op_destroyed \in [Ops -> Nat]
  BY <1>w DEF TypeOK
<1>c. /\ control = "handover" /\ activated = {} /\ hangups # {}
      /\ Current = outstanding
  BY AllCurrent DEF hangup_held, Operations, ControlTracked
<1>i. PICK i \in hangups, j \in Jobs :
              /\ i = Min(hangups) /\ submit(j)
              /\ j.role = "handover" /\ j.owner = None
  BY HandoverStep
<1>b. /\ hangups' = hangups \ {i}
      /\ \/ hangups' = {} /\ control' = "loop" /\ handover' = "none"
         \/ hangups' # {} /\ control' = "handover" /\ handover' = handover
      /\ UNCHANGED <<calls, seen, cleared, voice_enabled, remote, dispatching, started,
                     op_id, op_completed, op_result, op_failed, cancelled>>
  BY <1>c, <1>i DEF hangup_held, list
<1>n. /\ Cardinality(known) \in Nat /\ IsFiniteSet(known)
      /\ IsFiniteSet(Reserved) /\ Cardinality(Reserved) \in Nat
      /\ Cardinality(hangups) \in Nat /\ Cardinality(hangups') \in Nat
      /\ Cardinality(hangups') = Cardinality(hangups) - 1
  BY <1>b, <1>c, <1>i, Counting DEF Reserved
<1>m. /\ Cardinality(known) + Cardinality(Reserved) + Cardinality(hangups)
            <= MaxRequests
      /\ Cardinality(known) < MaxRequests
  BY <1>n, BoundsAssumption DEF Operations, RoomLeft
<1>s. /\ r \in Requests \ known /\ known' = known \cup {r}
      /\ activated' = activated /\ completions' = completions
      /\ \A p \in Ops : op_destroyed'[p] = op_destroyed[p]
      /\ op_refused' = op_refused
      /\ \/ /\ outstanding' = outstanding \cup {r}
            /\ job' \in [Requests -> Jobs \cup {NoJob}] /\ job'[r] = j
            /\ \A q \in Requests \ {r} : job'[q] = job[q]
         \/ outstanding' = outstanding /\ job' = job
  <2>1. \A p \in Ops : p # j.owner
    BY <1>i, <1>t
  <2>2. op_refused \cup ({j.owner} \ {None}) = op_refused
    BY <1>i
  <2> QED BY <1>m, <1>r, <1>t, <1>i, <2>1, <2>2, Submitted
<1>k. RequestsTyped' /\ JobsKnown' /\ CompletedPast' /\ CancelledGone'
      /\ RefsExact'
  <2>1. /\ j.role = "handover" <=> j.owner = None
        /\ started \subseteq started' /\ j.owner \in started' \cup {None}
        /\ j.owner \notin cancelled
        /\ \A p \in Ops : p = j.owner => op_completed[p] = 0
        /\ UNCHANGED <<op_completed, cancelled>>
    BY <1>b, <1>i, <1>t
  <2> QED BY <1>i, <1>m, <2>1, SubmitKeeps
<1>u. /\ Current' = outstanding' /\ activated' = {} /\ Current \subseteq Current'
      /\ \A q \in Current : q # r /\ job'[q] = job[q]
      /\ \A q \in Current' : q \in Current \/ q = r
      /\ r \in Current' => job'[r] = j
  <2>1. Current' = outstanding' /\ activated' = {}
    BY <1>c, <1>s DEF Current
  <2>2. \A q \in outstanding : q # r /\ q \in Requests
    BY <1>s, <1>t
  <2> QED BY <1>c, <1>s, <2>1, <2>2
<1>1. TypeOK'
  <2>1. op_id' \in [Ops -> known' \cup {None}]
    BY <1>b, <1>s, <1>t
  <2>2. dispatching' \in known' \cup {None} /\ started' \subseteq Ops
        /\ op_failed' \subseteq started' /\ cancelled' \subseteq started'
        /\ hangups' \subseteq DOMAIN calls'
        /\ handover' \in HandoverTypes \cup {"UNREADABLE", "none"}
    BY <1>b, <1>s DEF TypeOK
  <2> QED BY <1>b, <1>k, <2>1, <2>2 DEF TypeOK, RequestsTyped
<1>2. Numbered'
  BY <1>b DEF Operations, Numbered
<1>3. RoomLeft'
  <2>1. Cardinality(known') = Cardinality(known) + 1
    BY <1>n, <1>s, Counting
  <2>2. Reserved' \subseteq Reserved
    BY <1>i, <1>u DEF Reserved
  <2>3. Cardinality(Reserved') \in Nat
        /\ Cardinality(Reserved') <= Cardinality(Reserved)
    BY <1>n, <2>2, Counting
  <2> QED BY <1>m, <1>n, <2>1, <2>3, BoundsAssumption DEF RoomLeft
<1>4. ControlTracked'
  BY <1>b, <1>u DEF ControlTracked
<1>5. OneOwner'
  BY <1>i, <1>u DEF Operations, OneOwner
<1>6. TakenOver'
  BY <1>u DEF TakenOver
<1>7. DestroyedLast'
  <2>1. ASSUME NEW p \in Ops
        PROVE  /\ Owned(p)' <=> Owned(p)
               /\ op_destroyed'[p] = op_destroyed[p] /\ op_id'[p] = op_id[p]
               /\ p \in op_refused <=> p \in op_refused'
    BY <1>b, <1>i, <1>s, <1>t, <1>u DEF Owned
  <2> QED BY <2>1 DEF Operations, DestroyedLast
<1>8. NotStarted'
  BY <1>b, <1>s, <1>t DEF Operations, NotStarted
<1>9. IdsOwn'
  BY <1>b, <1>c, <1>s, <1>t, <1>u DEF Operations, IdsOwn
<1>10. ResultsTracked' /\ OpCompletedOnce' /\ OkMeansEveryRequestSucceeded'
  BY <1>b DEF Operations, ResultsTracked, OpCompletedOnce,
              OkMeansEveryRequestSucceeded
<1> QED BY <1>k, <1>1, <1>2, <1>3, <1>4, <1>5, <1>6, <1>7, <1>8, <1>9, <1>10
        DEF Operations

(* The end of a request, after which no step 1 is being dealt with: the one
   request that carried its operation, or the step 1 a step 2 followed. *)
LEMMA Released ==
  ASSUME TypeOK, Operations, NEW r, release(r), activated \subseteq {r},
         control \notin {"activate", "handover"}, control' \in {"loop", "ofono"},
         cancelled' \subseteq (cancelled \cup {job[r].owner}) \cap started,
         activated = {} \/ cancelled' = cancelled,
         UNCHANGED <<id_map, started, op_id, op_completed, op_result, op_failed,
                     op_refused, hangups>>
  PROVE  RequestsTyped' /\ Operations'
<1>j. PICK j : j = job[r]
  OBVIOUS
<1>n. PICK n \in Nat : n = 1
  OBVIOUS
<1>v. PICK count \in Int : count = refs
  BY DEF TypeOK
<1>t. /\ outstanding \subseteq known /\ known \subseteq Requests
      /\ activated \subseteq outstanding /\ id_map \subseteq known
      /\ job \in [Requests -> Jobs \cup {NoJob}]
      /\ releases \in [Requests -> Nat] /\ completions \in [Requests -> Nat]
      /\ op_refused \subseteq started
      /\ op_id \in [Ops -> known \cup {None}]
      /\ op_completed \in [Ops -> Nat] /\ op_destroyed \in [Ops -> Nat]
      /\ failed_swaps \in Nat /\ refs \in Int
  BY DEF TypeOK
<1>w. None \notin Requests /\ None \notin Ops
  BY DEF None, Requests, Ops
<1>a. /\ r \in outstanding /\ outstanding' = outstanding \ {r}
      /\ releases' = [releases EXCEPT ![r] = @ + 1]
      /\ known' = known /\ completions' = completions
      /\ job' = [job EXCEPT ![r] = NoJob]
      /\ request_free(r, j, n, count)
  BY <1>j, <1>n, <1>v DEF release, Req!Release, request_free
<1>f. /\ op_destroyed' \in [Ops -> Nat] /\ refs' \in Int
      /\ failed_swaps' \in Nat /\ activated' = activated \ {r}
      /\ \A o \in Ops :
            op_destroyed'[o] = IF destroys(r, j) /\ o = j.owner
                                 THEN op_destroyed[o] + n ELSE op_destroyed[o]
      /\ refs' = count - n * unrefs(r, j)
      /\ failed_swaps' = failed_swaps + IF fails_swap(r, j) THEN 1 ELSE 0
  BY <1>a, Freed DEF request_free
<1>g. /\ j \in Jobs /\ j.owner \in started \cup {None}
      /\ j.role = "handover" <=> j.owner = None
      /\ r \in activated => j.role = "step1"
  BY <1>a, <1>j DEF Operations, JobsKnown, ControlTracked
<1>h. hangups = {} /\ (activated # {} => control = "return")
  BY DEF Operations, ControlTracked
<1>u. /\ activated' = {} /\ Current' = outstanding'
      /\ Current \subseteq outstanding
      /\ \A q \in Current' : q \in Current /\ q # r /\ job'[q] = job[q]
      /\ \A q \in Current : q # r => q \in Current'
      /\ \A q \in outstanding' : q \in outstanding /\ q # r /\ job'[q] = job[q]
      /\ r \in Current <=> r \notin activated
  <2>1. activated' = {}
    BY <1>f
  <2>2. \A q \in outstanding' :
           q \in outstanding /\ q # r /\ q \in Requests /\ job'[q] = job[q]
    BY <1>a, <1>t
  <2>3. Current' = outstanding' /\ Current \subseteq outstanding
    BY <2>1 DEF Current
  <2>4. r \in Current <=> r \notin activated
    BY <1>a DEF Current
  <2>5. \A q \in outstanding : q # r => q \in Current
    BY DEF Current
  <2> QED BY <1>a, <2>1, <2>2, <2>3, <2>4, <2>5
<1>1. RequestsTyped'
  BY <1>a, <1>f, <1>t, <1>u DEF RequestsTyped
<1>2. Numbered'
  BY DEF Operations, Numbered
<1>3. RoomLeft'
  <2>1. Reserved' \subseteq Reserved
    BY <1>u DEF Reserved
  <2>2. /\ IsFiniteSet(Reserved) /\ Cardinality(Reserved) \in Nat
        /\ Cardinality(known) \in Nat /\ Cardinality(hangups) \in Nat
    BY <1>u, Counting DEF Reserved
  <2>3. Cardinality(Reserved') \in Nat
        /\ Cardinality(Reserved') <= Cardinality(Reserved)
    BY <2>1, <2>2, Counting
  <2> QED BY <1>a, <2>2, <2>3, BoundsAssumption DEF Operations, RoomLeft
<1>4. JobsKnown'
  BY <1>u DEF Operations, JobsKnown
<1>5. ControlTracked'
  BY <1>h, <1>u DEF ControlTracked
<1>6. OneOwner'
  BY <1>u DEF Operations, OneOwner
<1>7. TakenOver'
  BY <1>u DEF TakenOver
<1>8. CompletedPast'
  BY <1>a, <1>u DEF Operations, CompletedPast
<1>9. DestroyedLast'
  <2>1. ASSUME NEW p \in Ops, p # j.owner \/ r \in activated
        PROVE  /\ Owned(p)' <=> Owned(p)
               /\ op_destroyed'[p] = op_destroyed[p]
    <3>1. Owned(p)' <=> Owned(p)
      BY <1>j, <1>u, <2>1 DEF Owned
    <3>2. r \in activated => ~ destroys(r, j)
      BY <1>g DEF destroys, fails_swap
    <3> QED BY <1>f, <2>1, <3>1, <3>2
  <2>2. ASSUME NEW p \in Ops, p = j.owner, r \notin activated
        PROVE  ~ Owned(p)' /\ op_destroyed'[p] = 1
    <3>1. Owned(p) /\ ~ Owned(p)'
      <4>1. r \in Current /\ j.owner # None
        BY <1>u, <1>w, <2>2
      <4> QED BY <1>j, <1>u, <2>2, <4>1 DEF Owned, Operations, OneOwner
    <3>2. op_destroyed[p] = 0
      BY <3>1 DEF Operations, DestroyedLast
    <3>3. destroys(r, j)
      <4>1. j.role \in {"whole", "step1", "step2"}
        BY <1>g, <1>w, <2>2 DEF Jobs
      <4> QED BY <2>2, <4>1 DEF destroys, fails_swap
    <3> QED BY <1>f, <1>n, <2>2, <3>1, <3>2, <3>3
  <2> QED BY <2>1, <2>2 DEF Operations, DestroyedLast
<1>10. NotStarted'
  <2>1. \A o \in Ops \ started : o # j.owner
    BY <1>g, <1>w
  <2> QED BY <1>f, <2>1 DEF Operations, NotStarted
<1>11. IdsOwn'
  BY <1>u DEF Operations, IdsOwn
<1>12. CancelledGone'
  <2>1. ASSUME NEW q \in outstanding', NEW o \in cancelled'
        PROVE  job'[q].owner # o
    <3>1. CASE o \in cancelled
      BY <1>u, <2>1, <3>1 DEF Operations, CancelledGone
    <3>2. CASE o \notin cancelled
      <4>1. o = job[r].owner /\ activated = {}
        BY <2>1, <3>2
      <4>2. r \in Current /\ q \in Current /\ q # r
        BY <1>u, <2>1, <4>1
      <4>3. o # None
        BY <1>w, <2>1 DEF TypeOK
      <4> QED BY <1>u, <2>1, <4>1, <4>2, <4>3 DEF Operations, OneOwner
    <3> QED BY <3>1, <3>2
  <2> QED BY <2>1 DEF CancelledGone
<1>13. ResultsTracked' /\ OpCompletedOnce' /\ OkMeansEveryRequestSucceeded'
  BY DEF Operations, ResultsTracked, OpCompletedOnce,
              OkMeansEveryRequestSucceeded
<1>14. RefsExact'
  <2>1. /\ Cardinality(outstanding') = Cardinality(outstanding) - 1
        /\ Cardinality(outstanding) \in Nat
    BY <1>a, Counting
  <2>2. CASE fails_swap(r, j)
    <3>1. refs' = refs - 2 /\ failed_swaps' = failed_swaps + 1
      BY <1>f, <1>n, <1>v, <2>2 DEF unrefs
    <3> QED BY <1>a, <1>t, <2>1, <3>1, BaseRefsAssumption
            DEF Operations, RefsExact, NoRefusal
  <2>3. CASE ~ fails_swap(r, j)
    <3>1. refs' = refs - 1 /\ failed_swaps' = failed_swaps
      BY <1>f, <1>n, <1>v, <1>t, <2>3 DEF unrefs
    <3> QED BY <1>a, <1>t, <2>1, <3>1, BaseRefsAssumption
            DEF Operations, RefsExact, NoRefusal
  <2> QED BY <2>2, <2>3
<1> QED BY <1>1, <1>2, <1>3, <1>4, <1>5, <1>6, <1>7, <1>8, <1>9, <1>10, <1>11,
           <1>12, <1>13, <1>14
        DEF Operations

(* What does not touch requests and operations, while no step 1 is being
   dealt with *)
LEMMA Unaffected ==
  ASSUME TypeOK, Operations, activated = {}, RoomLeft', control' # "activate",
         control' = "handover" <=> hangups' # {},
         UNCHANGED <<id_map, refs, contract, job, activated, failed_swaps, ops>>
  PROVE  Operations'
<1>1. UNCHANGED <<id_map, refs, known, outstanding, completions, releases, job,
                  activated, failed_swaps, started, op_id, op_completed,
                  op_destroyed, op_result, op_failed, op_refused, cancelled>>
  BY DEF contract, ops
<1>2. /\ Current = outstanding /\ Current' = outstanding' /\ activated' = {}
      /\ Current' = Current
  BY <1>1 DEF Current
<1>3. \A o : Owned(o)' <=> Owned(o)
  BY <1>1, <1>2 DEF Owned
<1>4. Numbered' /\ JobsKnown'
  BY <1>1 DEF Operations, Numbered, JobsKnown
<1>5. ControlTracked' /\ TakenOver'
  BY <1>2 DEF ControlTracked, TakenOver
<1>6. OneOwner' /\ DestroyedLast'
  BY <1>1, <1>2, <1>3 DEF Operations, OneOwner, DestroyedLast
<1>7. CompletedPast' /\ NotStarted' /\ IdsOwn' /\ ResultsTracked'
      /\ CancelledGone'
  BY <1>1 DEF Operations, CompletedPast, NotStarted, IdsOwn, ResultsTracked,
              CancelledGone
<1>8. OpCompletedOnce' /\ OkMeansEveryRequestSucceeded' /\ RefsExact'
  BY <1>1 DEF Operations, OpCompletedOnce, OkMeansEveryRequestSucceeded,
              RefsExact, NoRefusal
<1> QED BY <1>4, <1>5, <1>6, <1>7, <1>8 DEF Operations

(* The pending requests, and so the room, are the same. *)
LEMMA SameRoom ==
  ASSUME TypeOK, Operations, activated = {},
         UNCHANGED <<known, outstanding, job, activated, hangups>>
  PROVE  RoomLeft'
<1>1. Current' = Current
  BY DEF Current
<1>2. Reserved' = Reserved
  BY <1>1 DEF Reserved
<1> QED BY <1>2 DEF Operations, RoomLeft

(* An operation that was asked for when there is nothing to swap has no id. *)
LEMMA SwapNothing ==
  ASSUME TypeOK, Operations, swap_nothing
  PROVE  TypeOK' /\ Operations'
<1>o. PICK o : o = next_op
  OBVIOUS
<1>b. /\ control \in {"loop", "ofono"} /\ o \in Ops
      /\ started' = started \cup {o}
      /\ UNCHANGED <<calls, voice_enabled, seen, cleared, id_map, refs, known, outstanding,
                     completions, releases, remote, job, activated,
                     failed_swaps, control, dispatching, hangups, handover,
                     op_id, op_completed, op_destroyed, op_result, op_failed,
                     op_refused, cancelled>>
  BY <1>o DEF swap_nothing, ofono_asks, list, contract, loop
<1>c. activated = {}
  BY <1>b, AllCurrent DEF Operations, ControlTracked
<1>n. Cardinality(started) \in Nat /\ IsFiniteSet(started)
  BY Counting
<1>f. o \notin started /\ o = Cardinality(started) + 1
  <2>1. o = Cardinality(started) + 1
    BY <1>o DEF next_op
  <2>2. started = 1..Cardinality(started)
    BY DEF Operations, Numbered
  <2> QED BY <1>n, <2>1, <2>2
<1>s. Current' = Current /\ \A p : Owned(p)' <=> Owned(p)
  BY <1>b DEF Current, Owned
<1>1. TypeOK'
  BY <1>b DEF TypeOK
<1>2. Numbered'
  <2>1. started = 1..Cardinality(started)
    BY DEF Operations, Numbered
  <2>2. started' = 1..(Cardinality(started) + 1)
    BY <1>b, <1>f, <1>n, <2>1
  <2>3. Cardinality(started') = Cardinality(started) + 1
    BY <1>b, <1>f, <1>n, Counting
  <2> QED BY <2>2, <2>3 DEF Numbered
<1>3. RoomLeft'
  BY <1>b, <1>c, SameRoom
<1>4. JobsKnown' /\ ControlTracked' /\ OneOwner' /\ NotStarted'
  BY <1>b, <1>s DEF Operations, JobsKnown, ControlTracked, OneOwner, NotStarted
<1>5. TakenOver' /\ CompletedPast' /\ DestroyedLast'
  BY <1>b, <1>s DEF Operations, TakenOver, CompletedPast, DestroyedLast
<1>6. IdsOwn' /\ ResultsTracked' /\ CancelledGone'
  BY <1>b DEF Operations, IdsOwn, ResultsTracked, CancelledGone
<1>7. OpCompletedOnce' /\ OkMeansEveryRequestSucceeded' /\ RefsExact'
  BY <1>b DEF Operations, OpCompletedOnce, OkMeansEveryRequestSucceeded,
              RefsExact, NoRefusal
<1> QED BY <1>1, <1>2, <1>3, <1>4, <1>5, <1>6, <1>7 DEF Operations

(* A pending request without a completion carries its operation, of which
   ofono has not heard the end and which has not been destroyed. *)
LEMMA Pending ==
  ASSUME TypeOK, Operations, control = "loop", NEW r \in outstanding,
         completions[r] = 0, NEW o \in Ops, job[r].owner = o
  PROVE  op_completed[o] = 0 /\ op_destroyed[o] = 0 /\ o \notin cancelled
         /\ o \in started /\ o \notin op_failed
<1>1. r \in Current
  BY AllCurrent DEF Operations
<1>2. op_destroyed[o] = 0
  BY <1>1 DEF Operations, DestroyedLast, Owned
<1>3. op_completed[o] = 0
  <2>1. op_completed[o] \in Nat
    BY DEF TypeOK
  <2> QED BY <2>1 DEF Operations, CompletedPast
<1>4. o \notin cancelled
  BY DEF Operations, CancelledGone
<1>5. o \in started
  BY DEF Operations, JobsKnown, Ops, None
<1>6. o \notin op_failed
  BY <1>3 DEF Operations, ResultsTracked
<1> QED BY <1>2, <1>3, <1>4, <1>5, <1>6

(* What a response does to an operation: nothing yet when a step 2 follows,
   else it ends it, the only request of which it is. *)
LEMMA Response ==
  ASSUME TypeOK, Operations, NEW r \in outstanding,
         NEW result \in {"SUCCESS", "FAILURE"}, response(r, result)
  PROVE  TypeOK' /\ Operations'
<1>o. PICK o : o = job[r].owner
  OBVIOUS
<1>t. /\ outstanding \subseteq known /\ known \subseteq Requests
      /\ completions \in [Requests -> Nat]
      /\ op_completed \in [Ops -> Nat]
      /\ op_result \in [Ops -> {"none", "OK", "ERROR"}]
      /\ op_failed \subseteq started /\ started \subseteq Ops
  BY DEF TypeOK
<1>w. None \notin Ops
  BY DEF None, Ops
<1>b. /\ control = "loop" /\ completions[r] = 0
      /\ completions' = [completions EXCEPT ![r] = @ + 1]
      /\ dispatching' = r
      /\ op_failed' = op_failed \cup IF result = "SUCCESS" THEN {} ELSE {o} \ {None}
      /\ UNCHANGED <<calls, voice_enabled, seen, cleared, id_map, refs, known, outstanding,
                     releases, remote, job, failed_swaps, hangups, handover,
                     started, op_id, op_destroyed, op_refused, cancelled>>
  BY <1>o DEF response, Req!Complete, list
<1>p. \/ /\ job[r].role = "step1" /\ result = "SUCCESS"
         /\ activated' = activated \cup {r} /\ control' = "activate"
         /\ UNCHANGED <<op_completed, op_result>>
      \/ /\ o # None /\ activated' = activated /\ control' = "ofono"
         /\ op_completed' = [op_completed EXCEPT ![o] = @ + 1]
         /\ op_result' = [op_result EXCEPT ![o] =
                             IF result = "SUCCESS" THEN "OK" ELSE "ERROR"]
      \/ /\ o = None /\ activated' = activated /\ control' = "return"
         /\ UNCHANGED <<op_completed, op_result>>
  BY <1>o DEF response, proceeds, reports
<1>c. /\ activated = {} /\ Current = outstanding /\ hangups = {}
  BY <1>b, AllCurrent DEF Operations, ControlTracked
<1>j. /\ o \in started \cup {None}
      /\ job[r].role = "handover" <=> o = None
      /\ o # None => o \in Ops
  BY <1>o, <1>t DEF Operations, JobsKnown
<1>h. o # None => /\ op_completed[o] = 0 /\ op_destroyed[o] = 0
                  /\ o \notin cancelled /\ o \in started /\ o \notin op_failed
  BY <1>b, <1>j, <1>o, Pending
<1>f. /\ completions' \in [Requests -> Nat] /\ completions'[r] = 1
      /\ \A q \in Requests \ {r} : completions'[q] = completions[q]
  BY <1>b, <1>t
<1>s. /\ activated' \subseteq {r} /\ Current' = outstanding'
      /\ control' \in {"activate", "ofono", "return"}
      /\ control' = "activate" <=> activated' = {r}
      /\ activated' # {} => activated' = {r} /\ job[r].role = "step1"
  BY <1>c, <1>p DEF Current
<1>x. \A p : Owned(p)' <=> Owned(p)
  BY <1>b, <1>c, <1>s DEF Owned
<1>y. /\ op_completed' \in [Ops -> Nat]
      /\ op_result' \in [Ops -> {"none", "OK", "ERROR"}]
      /\ \A p \in Ops : p # o => /\ op_completed'[p] = op_completed[p]
                                 /\ op_result'[p] = op_result[p]
                                 /\ p \in op_failed' <=> p \in op_failed
  <2>1. \A p : p # o => (p \in op_failed' <=> p \in op_failed)
    BY <1>b
  <2> QED BY <1>j, <1>p, <1>t, <2>1
<1>z. o # None =>
         \/ /\ op_completed'[o] = 0 /\ op_result'[o] = op_result[o]
            /\ o \notin op_failed'
         \/ /\ op_completed'[o] = 1 /\ activated' = {}
            /\ op_result'[o] = "OK" => o \notin op_failed'
  <2>1. CASE job[r].role = "step1" /\ result = "SUCCESS"
    BY <1>b, <1>h, <1>o, <1>p, <2>1 DEF response, proceeds
  <2>2. CASE ~ (job[r].role = "step1" /\ result = "SUCCESS")
    <3> SUFFICES ASSUME o # None
                 PROVE  /\ op_completed'[o] = 1 /\ activated' = {}
                        /\ op_result'[o] = "OK" => o \notin op_failed'
      OBVIOUS
    <3>1. /\ op_completed' = [op_completed EXCEPT ![o] = @ + 1]
          /\ op_result' = [op_result EXCEPT ![o] =
                             IF result = "SUCCESS" THEN "OK" ELSE "ERROR"]
          /\ activated' = {}
      BY <1>c, <1>p, <2>2
    <3>2. op_completed'[o] = 1
      BY <1>h, <1>j, <1>t, <3>1
    <3>3. op_result'[o] = IF result = "SUCCESS" THEN "OK" ELSE "ERROR"
      BY <1>j, <1>t, <3>1
    <3> QED BY <1>b, <1>h, <3>1, <3>2, <3>3
  <2> QED BY <2>1, <2>2
<1>1. TypeOK'
  <2>1. /\ dispatching' \in known' \cup {None} /\ activated' \subseteq outstanding'
        /\ control' \in {"loop", "ofono", "activate", "return", "handover"}
        /\ op_failed' \subseteq started'
    BY <1>b, <1>j, <1>s, <1>t
  <2> QED BY <1>b, <1>f, <1>y, <2>1 DEF TypeOK
<1>2. Numbered' /\ JobsKnown' /\ NotStarted' /\ IdsOwn' /\ CancelledGone'
  <2>1. \A p \in Ops \ started : p # o
    BY <1>j, <1>w
  <2> QED BY <1>b, <1>y, <2>1 DEF Operations, Numbered, JobsKnown, NotStarted,
                                  IdsOwn, CancelledGone
<1>3. RoomLeft'
  <2>1. Reserved' = Reserved
    BY <1>b, <1>c, <1>s DEF Reserved
  <2> QED BY <1>b, <2>1 DEF Operations, RoomLeft
<1>4. ControlTracked'
  BY <1>b, <1>c, <1>f, <1>s DEF ControlTracked
<1>5. OneOwner'
  BY <1>b, <1>c, <1>s DEF Operations, OneOwner
<1>6. TakenOver'
  BY <1>s DEF TakenOver
<1>7. CompletedPast'
  <2> SUFFICES ASSUME NEW p \in Ops, op_completed'[p] > 0,
                      NEW q \in outstanding', job'[q].owner = p
               PROVE  completions'[q] > 0 /\ q \notin activated'
    BY DEF CompletedPast
  <2>1. CASE p = o
    <3>1. op_completed'[o] = 1 /\ activated' = {}
      BY <1>w, <1>z, <2>1
    <3>2. q = r
      BY <1>b, <1>c, <1>o, <1>w, <2>1 DEF Operations, OneOwner
    <3> QED BY <1>f, <3>1, <3>2
  <2>2. CASE p # o
    BY <1>b, <1>f, <1>o, <1>s, <1>t, <1>y, <2>2 DEF Operations, CompletedPast
  <2> QED BY <2>1, <2>2
<1>8. DestroyedLast'
  BY <1>b, <1>x DEF Operations, DestroyedLast
<1>9. ResultsTracked'
  BY <1>h, <1>w, <1>y, <1>z DEF Operations, ResultsTracked
<1>10. OpCompletedOnce'
  BY <1>w, <1>y, <1>z DEF Operations, OpCompletedOnce
<1>11. OkMeansEveryRequestSucceeded'
  BY <1>w, <1>y, <1>z DEF Operations, OkMeansEveryRequestSucceeded
<1>12. RefsExact'
  BY <1>b DEF Operations, RefsExact, NoRefusal
<1> QED BY <1>1, <1>2, <1>3, <1>4, <1>5, <1>6, <1>7, <1>8, <1>9, <1>10, <1>11,
           <1>12
        DEF Operations

LEMMA ResponseReturn ==
  ASSUME TypeOK, Operations, response_return
  PROVE  TypeOK' /\ Operations'
<1>b. /\ control \in {"ofono", "return"} /\ control' = "loop"
      /\ dispatching' = None
      /\ UNCHANGED <<calls, voice_enabled, seen, cleared, id_map, remote, hangups, handover,
                     started, op_id, op_completed, op_result, op_failed,
                     op_refused, cancelled>>
  BY DEF response_return, list
<1>h. hangups = {} /\ activated \subseteq {dispatching}
  BY <1>b DEF Operations, ControlTracked
<1>1. CASE dispatching \in outstanding
  <2>1. PICK r : r = dispatching
    OBVIOUS
  <2>2. release(r)
    BY <1>1, <2>1 DEF response_return, release, request_free, Req!Release,
                      destroys, unrefs, fails_swap
  <2>3. cancelled' \subseteq (cancelled \cup {job[r].owner}) \cap started
    BY <1>b DEF TypeOK
  <2>4. RequestsTyped' /\ Operations'
    BY <1>b, <1>h, <2>1, <2>2, <2>3, Released
  <2>5. known' = known
    BY <2>2 DEF release, Req!Release
  <2> QED BY <1>b, <2>4, <2>5 DEF TypeOK, RequestsTyped
<1>2. CASE dispatching \notin outstanding
  <2>1. UNCHANGED <<known, outstanding, completions, releases, job, op_destroyed,
                    refs, activated, failed_swaps>>
    BY <1>2 DEF response_return, contract
  <2>2. activated = {}
    BY <1>2, <1>h DEF TypeOK
  <2>3. RoomLeft'
    BY <1>b, <2>1, <2>2, SameRoom
  <2>4. Operations'
    BY <1>b, <1>h, <2>1, <2>2, <2>3, Unaffected DEF contract, ops
  <2>5. TypeOK'
    BY <1>b, <2>1 DEF TypeOK
  <2> QED BY <2>4, <2>5
<1> QED BY <1>1, <1>2

LEMMA Cancel ==
  ASSUME TypeOK, Operations, NEW o \in Ops, cancel(o)
  PROVE  TypeOK' /\ Operations'
<1>b. /\ control \in {"loop", "ofono"} /\ op_id[o] # None
      /\ UNCHANGED <<calls, voice_enabled, seen, cleared, id_map, remote, control,
                     dispatching, hangups, handover, started, op_id,
                     op_completed, op_result, op_failed, op_refused>>
  BY DEF cancel, list, loop
<1>h. hangups = {} /\ activated = {}
  BY <1>b, AllCurrent DEF Operations, ControlTracked
<1>1. CASE cancel_request(o)
  <2>1. PICK r : r = op_id[o]
    OBVIOUS
  <2>2. release(r) /\ r \in outstanding
    BY <1>1, <2>1 DEF cancel_request, release, request_free, Req!Release,
                      destroys, unrefs, fails_swap
  <2>3. job[r].owner = o /\ o \in started
    <3>1. job[r].owner = o
      BY <2>1, <2>2 DEF Operations, IdsOwn
    <3>2. o # None
      BY DEF Ops, None
    <3> QED BY <2>2, <3>1, <3>2 DEF Operations, JobsKnown
  <2>4. cancelled' = cancelled \cup {o} /\ cancelled \subseteq started
    BY <1>1 DEF cancel_request, TypeOK
  <2>5. cancelled' \subseteq (cancelled \cup {job[r].owner}) \cap started
    BY <2>3, <2>4
  <2>6. RequestsTyped' /\ Operations'
    BY <1>b, <1>h, <2>2, <2>5, Released
  <2>7. known' = known /\ cancelled' \subseteq started
    BY <2>2, <2>5 DEF release, Req!Release
  <2> QED BY <1>b, <2>6, <2>7 DEF TypeOK, RequestsTyped
<1>2. CASE ~ cancel_request(o)
  <2>1. UNCHANGED <<known, outstanding, completions, releases, job, op_destroyed,
                    refs, activated, failed_swaps, cancelled>>
    BY <1>2 DEF cancel, contract
  <2>2. RoomLeft'
    BY <1>b, <1>h, <2>1, SameRoom
  <2>3. control' = "handover" <=> hangups' # {}
    BY <1>b, <1>h
  <2>4. Operations'
    BY <1>b, <1>h, <2>1, <2>2, <2>3, Unaffected DEF contract, ops
  <2>5. TypeOK'
    BY <1>b, <2>1 DEF TypeOK
  <2> QED BY <2>4, <2>5
<1> QED BY <1>1, <1>2

(* Indications and the death of the service do not touch requests, and come
   when no handler runs. *)
LEMMA CallStateIndication ==
  ASSUME IInv, NEW update \in Seq(Infos), call_state_indication(update)
  PROVE  IInv'
<1>b. /\ control = "loop"
      /\ \/ calls' = calls_after(update) /\ seen' = calls' /\ cleared' = FALSE
         \/ UNCHANGED <<calls, seen, cleared>>
      /\ UNCHANGED <<voice_enabled, id_map, refs, contract, remote, job, activated,
                     failed_swaps, loop, ops>>
  BY DEF call_state_indication, handle_call_info, signal_state_changed
<1>u. UNCHANGED <<id_map, refs, known, outstanding, completions, releases, remote,
                  job, activated, failed_swaps, control, dispatching, hangups,
                  handover, started, op_id, op_completed, op_destroyed, op_result,
                  op_failed, op_refused, cancelled>>
  BY <1>b DEF contract, loop, ops
<1>h. hangups = {} /\ activated = {}
  BY <1>b, AllCurrent DEF IInv, Operations, ControlTracked
<1>l. calls \in Seq(Entries) /\ seen \in Seq(Entries) /\ CallsDistinct
  BY DEF IInv, TypeOK, Entries
<1>1. /\ calls' \in Seq(Entries) /\ seen' \in Seq(Entries)
      /\ CallsDistinct' /\ OfonoUpToDate' /\ cleared' \in BOOLEAN
  <2>1. CASE calls' = calls_after(update) /\ seen' = calls' /\ cleared' = FALSE
    <3>1. calls' \in Seq(Entries) /\ Distinct(calls_after(update))
      BY <1>l, <2>1, CallsAfter
    <3>2. CallsDistinct'
      BY <2>1, <3>1 DEF CallsDistinct, Distinct
    <3> QED BY <2>1, <3>1, <3>2 DEF OfonoUpToDate
  <2>2. CASE UNCHANGED <<calls, seen, cleared>>
    BY <1>l, <2>2 DEF IInv, TypeOK, CallsDistinct, OfonoUpToDate
  <2> QED BY <1>b, <2>1, <2>2
<1>2. RoomLeft'
  BY <1>h, <1>u, SameRoom DEF IInv
<1>3. Operations'
  BY <1>b, <1>h, <1>u, <1>2, Unaffected DEF IInv, contract, ops
<1>4. TypeOK'
  <2>1. hangups' \subseteq DOMAIN calls' /\ voice_enabled' \in BOOLEAN
    BY <1>b, <1>h, <1>u DEF IInv, TypeOK
  <2> QED BY <1>1, <1>u, <2>1 DEF IInv, TypeOK, Entries
<1> QED BY <1>1, <1>3, <1>4 DEF IInv

LEMMA ServiceStatus ==
  ASSUME IInv, NEW enabled \in Seq(BOOLEAN), enabled # <<>>,
         handle_service_status(enabled)
  PROVE  IInv'
<1>b. /\ control = "loop" /\ seen' = seen
      /\ voice_enabled' = Last(enabled)
      /\ calls' = IF voice_lost(enabled) THEN <<>> ELSE calls
      /\ cleared' = (cleared \/ voice_lost(enabled))
      /\ UNCHANGED <<id_map, refs, contract, remote, job, activated,
                     failed_swaps, loop, ops>>
  BY DEF handle_service_status
<1>u. UNCHANGED <<id_map, refs, known, outstanding, completions, releases, remote,
                  job, activated, failed_swaps, control, dispatching, hangups,
                  handover, started, op_id, op_completed, op_destroyed, op_result,
                  op_failed, op_refused, cancelled>>
  BY <1>b DEF contract, loop, ops
<1>h. hangups = {} /\ activated = {}
  BY <1>b, AllCurrent DEF IInv, Operations, ControlTracked
<1>l. calls \in Seq(Entries) /\ seen \in Seq(Entries)
  BY DEF IInv, TypeOK, Entries
<1>1. /\ calls' \in Seq(Entries) /\ CallsDistinct' /\ OfonoUpToDate'
      /\ cleared' \in BOOLEAN
  <2>1. CASE voice_lost(enabled)
    <3>1. calls' = <<>> /\ cleared' = TRUE
      BY <1>b, <2>1, Zenon
    <3> QED BY <3>1 DEF CallsDistinct, OfonoUpToDate
  <2>2. CASE ~ voice_lost(enabled)
    <3>1. cleared \in BOOLEAN
      BY DEF IInv, TypeOK
    <3>2. calls' = calls /\ cleared' = cleared
      BY <1>b, <2>2, <3>1, Zenon
    <3> QED BY <1>b, <1>l, <3>1, <3>2 DEF IInv, CallsDistinct, OfonoUpToDate
  <2> QED BY <2>1, <2>2
<1>2. RoomLeft'
  BY <1>h, <1>u, SameRoom DEF IInv
<1>3. Operations'
  BY <1>b, <1>h, <1>u, <1>2, Unaffected DEF IInv, contract, ops
<1>4. TypeOK'
  <2>1. voice_enabled' \in BOOLEAN
    <3>1. PICK n \in Nat \ {0} : n = Len(enabled) /\ enabled \in [1..n -> BOOLEAN]
      OBVIOUS
    <3>2. Len(enabled) = n /\ n \in 1..n
      BY <3>1
    <3>3. Last(enabled) = enabled[n]
      BY <3>2 DEF Last
    <3> QED BY <1>b, <3>1, <3>2, <3>3, Zenon
  <2>2. hangups' \subseteq DOMAIN calls'
    BY <1>h, <1>u
  <2> QED BY <1>1, <1>b, <1>l, <1>u, <2>1, <2>2 DEF IInv, TypeOK, Entries
<1> QED BY <1>1, <1>3, <1>4 DEF IInv

LEMMA HandoverIndication ==
  ASSUME IInv, NEW sent \in HandoverTypes \cup {"UNREADABLE"},
         handover_indication(sent)
  PROVE  IInv'
<1>b. /\ control = "loop" /\ Room(Cardinality(held_calls))
      /\ handover' = IF control' = "handover" THEN sent ELSE handover
      /\ \/ control' = "handover" /\ hangups' = held_calls /\ held_calls # {}
         \/ UNCHANGED <<control, hangups>>
      /\ UNCHANGED <<list, id_map, refs, contract, remote, job, activated,
                     failed_swaps, dispatching, ops>>
  BY DEF handover_indication, handle_handover
<1>u. UNCHANGED <<calls, seen, cleared, voice_enabled, id_map, refs, known, outstanding,
                  completions, releases, remote, job, activated, failed_swaps,
                  dispatching, started, op_id, op_completed, op_destroyed,
                  op_result, op_failed, op_refused, cancelled>>
  BY <1>b DEF list, contract, ops
<1>h. hangups = {} /\ activated = {} /\ Reserved = Unfinished
  BY <1>b, AllCurrent DEF IInv, Operations, ControlTracked
<1>1. RoomLeft'
  <2>1. CASE hangups' = held_calls
    <3>1. Reserved' = Reserved
      BY <1>h, <1>u DEF Reserved, Current
    <3> QED BY <1>b, <1>h, <1>u, <2>1, <3>1 DEF RoomLeft, Room
  <2>2. CASE UNCHANGED <<control, hangups>>
    BY <1>h, <1>u, <2>2, SameRoom DEF IInv
  <2> QED BY <1>b, <2>1, <2>2
<1>2. Operations'
  <2>1. control' # "activate" /\ (control' = "handover" <=> hangups' # {})
    BY <1>b, <1>h
  <2> QED BY <1>b, <1>h, <1>u, <1>1, <2>1, Unaffected DEF IInv, contract, ops
<1>3. TypeOK'
  <2>1. /\ control' \in {"loop", "ofono", "activate", "return", "handover"}
        /\ handover' \in HandoverTypes \cup {"UNREADABLE", "none"}
    BY <1>b DEF IInv, TypeOK
  <2>2. hangups' \subseteq DOMAIN calls'
    BY <1>b, <1>h, <1>u DEF held_calls
  <2> QED BY <1>u, <2>1, <2>2 DEF IInv, TypeOK
<1> QED BY <1>u, <1>2, <1>3 DEF IInv, CallsDistinct, OfonoUpToDate

LEMMA ServiceDies ==
  ASSUME IInv, service_dies
  PROVE  IInv'
<1>b. /\ control = "loop" /\ remote' = "dead"
      /\ UNCHANGED <<list, id_map, refs, contract, job, activated, failed_swaps,
                     loop, ops>>
  BY DEF service_dies
<1>u. UNCHANGED <<calls, seen, cleared, voice_enabled, id_map, refs, known, outstanding,
                  completions, releases, job, activated, failed_swaps, control,
                  dispatching, hangups, handover, started, op_id, op_completed,
                  op_destroyed, op_result, op_failed, op_refused, cancelled>>
  BY <1>b DEF list, contract, loop, ops
<1>h. hangups = {} /\ activated = {}
  BY <1>b, AllCurrent DEF IInv, Operations, ControlTracked
<1>1. RoomLeft'
  BY <1>h, <1>u, SameRoom DEF IInv
<1>2. Operations'
  BY <1>b, <1>h, <1>u, <1>1, Unaffected DEF IInv, contract, ops
<1>3. TypeOK'
  BY <1>b, <1>u DEF IInv, TypeOK
<1> QED BY <1>u, <1>2, <1>3 DEF IInv, CallsDistinct, OfonoUpToDate

------------------------------------------------------------------------------
(* What ofono asks for *)

(* The calls found by their state are calls of the list. *)
LEMMA Found ==
  ASSUME TypeOK, NEW state
  PROVE  id_find_by_state(state) \in CallIds \cup {None}
<1> DEFINE found == {i \in DOMAIN calls : calls[i].state = state}
<1>1. calls \in Seq(Entries)
  BY DEF TypeOK, Entries
<1>2. found \in SUBSET Nat
  <2>1. DOMAIN calls = 1..Len(calls) /\ Len(calls) \in Nat
    BY <1>1, LenProperties
  <2> QED BY <2>1
<1>3. CASE found = {}
  BY <1>3 DEF id_find_by_state
<1>4. CASE found # {}
  <2>1. Min(found) \in DOMAIN calls
    <3>1. found \subseteq DOMAIN calls
      OBVIOUS
    <3> HIDE DEF found
    <3> QED BY <1>2, <1>4, <3>1, MinLeast
  <2>2. calls[Min(found)].id \in CallIds
    <3>1. PICK i \in DOMAIN calls : i = Min(found)
      BY <2>1
    <3>2. calls[i] \in Entries
      BY <1>1, ElementOfSeq
    <3>3. calls[i].id \in CallIds
      BY <3>2 DEF Entries
    <3> HIDE DEF found
    <3> QED BY <3>1, <3>3
  <2> QED BY <1>4, <2>2 DEF id_find_by_state
<1> QED BY <1>3, <1>4

(* If there is one. *)
LEMMA FoundState ==
  ASSUME TypeOK, NEW state
  PROVE  /\ id_find_by_state(state) # None =>
               [id |-> id_find_by_state(state), state |-> state] \in ToSet(calls)
         /\ id_find_by_state(state) = None =>
               \A e \in ToSet(calls) : e.state # state
<1> DEFINE found == {i \in DOMAIN calls : calls[i].state = state}
<1>1. /\ calls \in Seq(Entries) /\ DOMAIN calls = 1..Len(calls)
      /\ Len(calls) \in Nat
  BY LenProperties DEF TypeOK, Entries
<1>2. CASE found = {}
  BY <1>2 DEF id_find_by_state, ToSet
<1>3. CASE found # {}
  <2>1. PICK i \in found : i = Min(found)
    <3>1. found \in SUBSET Nat
      BY <1>1
    <3> HIDE DEF found
    <3> QED BY <1>3, <3>1, MinLeast
  <2>2. calls[i] \in Entries
    BY <1>1, ElementOfSeq
  <2>3. id_find_by_state(state) = calls[i].id
    <3>1. id_find_by_state(state)
             = IF found = {} THEN None ELSE calls[Min(found)].id
      BY DEF id_find_by_state
    <3> HIDE DEF found
    <3> QED BY <1>3, <2>1, <3>1
  <2>4. calls[i].id # None
    BY <2>2, CallIdsAssumption DEF Entries, None
  <2>5. calls[i] = [id |-> calls[i].id, state |-> state]
    BY <2>2 DEF Entries
  <2>6. calls[i] \in ToSet(calls)
    BY <2>1 DEF ToSet
  <2> QED BY <2>3, <2>4, <2>5, <2>6
<1> QED BY <1>2, <1>3

(* Each operation but the swap with nothing to swap begins with a request. *)
LEMMA Answers ==
  ASSUME TypeOK, answer
  PROVE  \E j \in Jobs : /\ begin(j) /\ j.owner = next_op
                         /\ j.role = "whole" /\ j.kind = "answer"
<1>o. PICK o : o = next_op
  OBVIOUS
<1>1. PICK j : j = radio_answer(None, o, "whole")
  OBVIOUS
<1>2. begin(j)
  BY <1>o, <1>1 DEF answer, begin, submit, request_free, destroys, unrefs, fails_swap
<1>3. o \in Ops
  BY <1>o, <1>2 DEF begin, ofono_asks
<1>4. j \in Jobs /\ j.owner = o /\ j.role = "whole" /\ j.kind = "answer"
  BY <1>1, <1>3 DEF radio_answer, Job, Jobs, None
<1> QED BY <1>o, <1>2, <1>4

(* Step 1 of a swap is about the active call; what else activates a call than
   the plain answer is begun when there is none. *)
LEMMA Asks ==
  ASSUME TypeOK,
         \/ dial \/ swap_inactive
         \/ \E call \in CallIds : hangup(call)
         \/ \E flag \in {"NONE", "HANGUP"} : swap_active(flag)
  PROVE  \E j \in Jobs :
            /\ begin(j) /\ j.owner = next_op /\ j.role \in {"whole", "step1"}
            /\ j.role = "step1" => /\ j.kind \in {"hold", "hangup"}
                                   /\ j.call = id_find_by_state("ACTIVE")
                                   /\ j.call # None
            /\ j.kind \in {"answer", "resume"} => id_find_by_state("ACTIVE") = None
<1>1. /\ id_find_by_state("ACTIVE") \in CallIds \cup {None}
      /\ id_find_by_state("HOLDING") \in CallIds \cup {None}
      /\ call_incoming \in CallIds \cup {None}
  BY Found DEF call_incoming
<1>o. PICK o : o = next_op
  OBVIOUS
<1>2. ASSUME NEW j, begin(j)
      PROVE  o \in Ops
  BY <1>o, <1>2 DEF begin, ofono_asks
<1>3. CASE dial
  <2>1. PICK j : j = radio_dial(o)
    OBVIOUS
  <2>2. begin(j)
    BY <1>3, <1>o, <2>1 DEF dial, begin, submit, request_free, destroys, unrefs,
                            fails_swap
  <2>3. j \in Jobs /\ j.owner = o /\ j.role = "whole" /\ j.kind = "dial"
    BY <1>2, <2>1, <2>2 DEF radio_dial, Job, Jobs, None
  <2> QED BY <1>o, <2>2, <2>3
<1>4. ASSUME NEW call \in CallIds, hangup(call)
      PROVE  \E j \in Jobs : /\ begin(j) /\ j.owner = o
                             /\ j.role = "whole" /\ j.kind = "hangup"
  <2>1. PICK j : j = radio_hangup(call, o, "whole", None, None)
    OBVIOUS
  <2>2. begin(j)
    BY <1>4, <1>o, <2>1 DEF hangup, begin, submit, request_free, destroys, unrefs,
                            fails_swap
  <2>3. j \in Jobs /\ j.owner = o /\ j.role = "whole" /\ j.kind = "hangup"
    BY <1>2, <2>1, <2>2 DEF radio_hangup, Job, Jobs, None
  <2> QED BY <2>2, <2>3
<1>5. ASSUME NEW flag \in {"NONE", "HANGUP"}, swap_active(flag)
      PROVE  \E j \in Jobs :
                /\ begin(j) /\ j.owner = o /\ j.role \in {"whole", "step1"}
                /\ j.kind \in {"hold", "hangup"}
                /\ j.call = id_find_by_state("ACTIVE") /\ j.call # None
  <2>1. PICK active \in CallIds : active = id_find_by_state("ACTIVE")
    BY <1>1, <1>5 DEF swap_active
  <2>2. PICK hold \in CallIds \cup {None} : hold = id_find_by_state("HOLDING")
    BY <1>1
  <2>3. PICK incoming \in CallIds \cup {None} : incoming = call_incoming
    BY <1>1
  <2>4. PICK role \in {"whole", "step1"} :
              role = IF hold # None \/ incoming # None THEN "step1" ELSE "whole"
    OBVIOUS
  <2>5. PICK j : j = IF flag = "HANGUP"
                       THEN radio_hangup(active, o, role, hold, incoming)
                       ELSE radio_hold(active, o, role, hold, incoming)
    OBVIOUS
  <2>6. begin(j)
    BY <1>5, <1>o, <2>1, <2>2, <2>3, <2>4, <2>5
       DEF swap_active, begin, submit, request_free, destroys, unrefs, fails_swap
  <2>7. /\ j \in Jobs /\ j.owner = o /\ j.role = role /\ j.call = active
        /\ j.kind \in {"hold", "hangup"}
    <3>1. CASE flag = "HANGUP"
      BY <1>2, <2>5, <2>6, <3>1 DEF radio_hangup, Job, Jobs
    <3>2. CASE flag # "HANGUP"
      BY <1>2, <2>5, <2>6, <3>2 DEF radio_hold, Job, Jobs
    <3> QED BY <3>1, <3>2
  <2>8. active # None
    BY <2>1, CallIdsAssumption DEF None
  <2> QED BY <2>1, <2>4, <2>6, <2>7, <2>8
<1>6. CASE swap_inactive
  <2>1. PICK hold \in CallIds \cup {None} : hold = id_find_by_state("HOLDING")
    BY <1>1
  <2>2. PICK incoming \in CallIds \cup {None} : incoming = call_incoming
    BY <1>1
  <2>3. PICK j : j = activation(o, "whole", hold, incoming)
    OBVIOUS
  <2>4. begin(j)
    BY <1>6, <1>o, <2>1, <2>2, <2>3
       DEF swap_inactive, begin, submit, request_free, destroys, unrefs, fails_swap
  <2>5. j \in Jobs /\ j.owner = o /\ j.role = "whole"
    BY <1>2, <2>3, <2>4 DEF activation, radio_answer, radio_resume, Job, Jobs, None
  <2>6. id_find_by_state("ACTIVE") = None
    BY <1>6 DEF swap_inactive
  <2> QED BY <1>o, <2>4, <2>5, <2>6
<1>7. CASE \E call \in CallIds : hangup(call)
  <2>1. PICK j \in Jobs : /\ begin(j) /\ j.owner = o
                          /\ j.role = "whole" /\ j.kind = "hangup"
    BY <1>4, <1>7
  <2> QED BY <1>o, <2>1
<1>8. CASE \E flag \in {"NONE", "HANGUP"} : swap_active(flag)
  <2>1. PICK j \in Jobs :
            /\ begin(j) /\ j.owner = o /\ j.role \in {"whole", "step1"}
            /\ j.kind \in {"hold", "hangup"}
            /\ j.call = id_find_by_state("ACTIVE") /\ j.call # None
    BY <1>5, <1>8
  <2> QED BY <1>o, <2>1
<1> QED BY <1>3, <1>6, <1>7, <1>8

LEMMA Asked ==
  ASSUME TypeOK, Operations,
         \/ dial \/ answer \/ swap_inactive \/ swap_nothing
         \/ \E call \in CallIds : hangup(call)
         \/ \E flag \in {"NONE", "HANGUP"} : swap_active(flag)
  PROVE  TypeOK' /\ Operations'
<1>1. CASE swap_nothing
  BY <1>1, SwapNothing
<1>2. CASE ~ swap_nothing
  <2>1. PICK j \in Jobs :
            begin(j) /\ j.owner = next_op /\ j.role \in {"whole", "step1"}
    BY <1>2, Asks, Answers
  <2> QED BY <2>1, Begin
<1> QED BY <1>1, <1>2

------------------------------------------------------------------------------
(* The invariant *)

(* It holds whatever the list is, when no operation has been asked for. *)
LEMMA InitialOperations ==
  ASSUME InitOperations, calls \in Seq(Entries), CallsDistinct, seen = calls,
         cleared = FALSE, voice_enabled \in BOOLEAN
  PROVE  IInv
<1>1. /\ id_map = {} /\ refs = BaseRefs /\ known = {} /\ outstanding = {}
      /\ completions = [r \in Requests |-> 0]
      /\ releases = [r \in Requests |-> 0]
      /\ remote = "alive" /\ job = [r \in Requests |-> NoJob]
      /\ activated = {} /\ failed_swaps = 0 /\ control = "loop"
      /\ dispatching = None /\ hangups = {} /\ handover = "none"
      /\ started = {} /\ op_id = [o \in Ops |-> None]
      /\ op_completed = [o \in Ops |-> 0] /\ op_destroyed = [o \in Ops |-> 0]
      /\ op_result = [o \in Ops |-> "none"] /\ op_failed = {}
      /\ op_refused = {} /\ cancelled = {}
  BY DEF InitOperations, Req!Init
<1>2. TypeOK
  <2>1. /\ calls \in Seq([id : CallIds, state : States])
        /\ seen \in Seq([id : CallIds, state : States])
    BY DEF Entries
  <2>2. /\ job \in [Requests -> Jobs \cup {NoJob}]
        /\ op_id \in [Ops -> known \cup {None}]
    BY <1>1
  <2>3. cleared \in BOOLEAN
    BY Zenon
  <2> QED BY <1>1, <2>1, <2>2, <2>3, BaseRefsAssumption DEF TypeOK
<1>3. Cardinality({}) = 0
  BY FS_EmptySet
<1>4. Current = {} /\ Reserved = {}
  BY <1>1 DEF Current, Reserved
<1>5. Numbered /\ RoomLeft
  BY <1>1, <1>3, <1>4, BoundsAssumption DEF Numbered, RoomLeft
<1>6. JobsKnown /\ ControlTracked /\ OneOwner /\ TakenOver
  BY <1>1, <1>4 DEF JobsKnown, ControlTracked, OneOwner, TakenOver
<1>7. CompletedPast /\ DestroyedLast /\ NotStarted
  BY <1>1, <1>4 DEF CompletedPast, DestroyedLast, NotStarted, Owned
<1>8. IdsOwn /\ ResultsTracked /\ CancelledGone
  BY <1>1 DEF IdsOwn, ResultsTracked, CancelledGone
<1>9. OpCompletedOnce /\ OkMeansEveryRequestSucceeded
  BY <1>1 DEF OpCompletedOnce, OkMeansEveryRequestSucceeded
<1>10. RefsExact
  BY <1>1, <1>3, BaseRefsAssumption DEF RefsExact
<1>11. CallsDistinct /\ OfonoUpToDate
  BY DEF OfonoUpToDate
<1> QED BY <1>2, <1>5, <1>6, <1>7, <1>8, <1>9, <1>10, <1>11 DEF IInv, Operations

LEMMA Initial ==
  ASSUME Init
  PROVE  IInv
<1>1. /\ calls = <<>> /\ seen = calls /\ cleared = FALSE
      /\ voice_enabled \in BOOLEAN /\ InitOperations
  BY DEF Init
<1>2. calls \in Seq(Entries) /\ CallsDistinct
  BY <1>1 DEF CallsDistinct
<1> QED BY <1>1, <1>2, InitialOperations

(* Only indications and the loss of voice change the list of calls. *)
LEMMA ListKept ==
  ASSUME Next,
         ~ \E update \in Batch(Infos) : call_state_indication(update),
         ~ \E enabled \in Batch(BOOLEAN) : handle_service_status(enabled)
  PROVE  UNCHANGED list
BY DEF Next, dial, answer, hangup, swap_active, swap_inactive, swap_nothing,
       begin, cancel, response, swap_step_activate, response_return,
       handover_indication, hangup_held, service_dies

LEMMA Inductive ==
  ASSUME IInv, [Next]_vars
  PROVE  IInv'
<1>1. ASSUME NEW update \in Batch(Infos), call_state_indication(update)
      PROVE  IInv'
  BY <1>1, CallStateIndication, Batches
<1>2. ASSUME NEW enabled \in Batch(BOOLEAN), handle_service_status(enabled)
      PROVE  IInv'
  BY <1>2, ServiceStatus, Batches
<1>3. ASSUME NEW sent \in HandoverTypes \cup {"UNREADABLE"},
             handover_indication(sent)
      PROVE  IInv'
  BY <1>3, HandoverIndication
<1>4. CASE service_dies
  BY <1>4, ServiceDies
<1>5. ASSUME TypeOK' /\ Operations', UNCHANGED list
      PROVE  IInv'
  BY <1>5 DEF IInv, list, CallsDistinct, OfonoUpToDate
<1>6. CASE \/ dial \/ answer \/ swap_inactive \/ swap_nothing
           \/ \E call \in CallIds : hangup(call)
           \/ \E flag \in {"NONE", "HANGUP"} : swap_active(flag)
  <2>1. UNCHANGED list
    BY <1>6 DEF dial, answer, hangup, swap_active, swap_inactive, swap_nothing,
                begin
  <2> QED BY <1>5, <1>6, <2>1, Asked DEF IInv
<1>7. ASSUME NEW o \in Ops, cancel(o)
      PROVE  IInv'
  BY <1>5, <1>7, Cancel DEF IInv, cancel
<1>8. ASSUME NEW r \in outstanding, NEW result \in {"SUCCESS", "FAILURE"},
             response(r, result)
      PROVE  IInv'
  BY <1>5, <1>8, Response DEF IInv, response
<1>9. CASE swap_step_activate
  BY <1>5, <1>9, StepActivate DEF IInv, swap_step_activate
<1>10. CASE response_return
  BY <1>5, <1>10, ResponseReturn DEF IInv, response_return
<1>11. CASE hangup_held
  BY <1>5, <1>11, HangupHeld DEF IInv, hangup_held
<1>12. CASE UNCHANGED vars
  <2>1. UNCHANGED <<calls, voice_enabled, seen, cleared, id_map, refs, known, outstanding,
                    completions, releases, remote, job, activated, failed_swaps,
                    control, dispatching, hangups, handover, started, op_id,
                    op_completed, op_destroyed, op_result, op_failed,
                    op_refused, cancelled>>
    BY <1>12 DEF vars, list, contract, loop, ops
  <2>2. Current' = Current /\ \A p : Owned(p)' <=> Owned(p)
    BY <2>1 DEF Current, Owned
  <2>3. Reserved' = Reserved
    BY <2>1, <2>2 DEF Reserved
  <2>4. TypeOK' /\ CallsDistinct' /\ OfonoUpToDate'
    BY <2>1 DEF IInv, TypeOK, CallsDistinct, OfonoUpToDate
  <2>5. Numbered' /\ RoomLeft' /\ JobsKnown' /\ ControlTracked'
    BY <2>1, <2>2, <2>3 DEF IInv, Operations, Numbered, RoomLeft, JobsKnown,
                            ControlTracked
  <2>6. OneOwner' /\ TakenOver' /\ CompletedPast' /\ DestroyedLast'
    BY <2>1, <2>2 DEF IInv, Operations, OneOwner, TakenOver, CompletedPast,
                      DestroyedLast
  <2>7. NotStarted' /\ IdsOwn' /\ ResultsTracked' /\ CancelledGone'
    BY <2>1 DEF IInv, Operations, NotStarted, IdsOwn, ResultsTracked,
                CancelledGone
  <2>8. OpCompletedOnce' /\ OkMeansEveryRequestSucceeded' /\ RefsExact'
    BY <2>1 DEF IInv, Operations, OpCompletedOnce,
                OkMeansEveryRequestSucceeded, RefsExact, NoRefusal
  <2> QED BY <2>4, <2>5, <2>6, <2>7, <2>8 DEF IInv, Operations
<1> QED BY <1>1, <1>2, <1>3, <1>4, <1>6, <1>7, <1>8, <1>9, <1>10, <1>11, <1>12
        DEF Next

THEOREM Invariance == Spec => []IInv
<1>1. Init => IInv
  BY Initial
<1>2. IInv /\ [Next]_vars => IInv'
  BY Inductive
<1> QED BY <1>1, <1>2, PTL DEF Spec

------------------------------------------------------------------------------
(* What follows *)

(* The variables keep their types. *)
THEOREM TypeCorrect == Spec => []TypeOK
<1>1. IInv => TypeOK
  BY DEF IInv
<1> QED BY <1>1, Invariance, PTL

(* ofono hears of the end of an operation at most once, also of a swap, which
   is two requests (result_response, swap_step1_response). *)
THEOREM CompletedOnce == Spec => []OpCompletedOnce
<1>1. IInv => OpCompletedOnce
  BY DEF IInv, Operations
<1> QED BY <1>1, Invariance, PTL

(* A swap is reported as successful only if both of its steps were. *)
THEOREM SuccessMeansAll == Spec => []OkMeansEveryRequestSucceeded
<1>1. IInv => OkMeansEveryRequestSucceeded
  BY DEF IInv, Operations
<1> QED BY <1>1, Invariance, PTL

(* Each pending request holds a reference, and each swap that failed in step 1
   has dropped one that it did not hold (swap_step1_destroy). *)
THEOREM RefsAlwaysExact == Spec => []RefsExact
<1>1. IInv => RefsExact
  BY DEF IInv, Operations
<1> QED BY <1>1, Invariance, PTL

(* An operation no request of which is refused is destroyed exactly once, when
   its last request has ended; another, with the refusal, once or twice. *)
THEOREM OperationsAccounted == Spec => []OpAccounted
<1>1. ASSUME IInv, NEW o \in Ops, op_id[o] # None, o \notin op_refused
      PROVE  op_destroyed[o]
                = IF \E r \in outstanding : job[r].owner = o THEN 0 ELSE 1
  <2>1. CASE Owned(o)
    BY <1>1, <2>1 DEF IInv, Operations, DestroyedLast, Owned, Current
  <2>2. CASE ~ Owned(o)
    <3>1. \A r \in outstanding : job[r].owner # o
      <4> SUFFICES ASSUME NEW r \in outstanding, job[r].owner = o
                   PROVE  FALSE
        OBVIOUS
      <4>1. r \in activated /\ control # "activate"
        BY <2>2 DEF Owned, Current
      <4>2. control = "return"
        BY <1>1, <4>1 DEF IInv, Operations, ControlTracked
      <4> QED BY <1>1, <2>2, <4>1, <4>2 DEF IInv, Operations, TakenOver
    <3> QED BY <1>1, <2>2, <3>1 DEF IInv, Operations, DestroyedLast
  <2> QED BY <2>1, <2>2
<1>2. ASSUME IInv, NEW o \in op_refused
      PROVE  op_destroyed[o] \in {1, 2}
  BY <1>2 DEF IInv, TypeOK, Operations, DestroyedLast
<1>3. IInv => OpAccounted
  BY <1>1, <1>2 DEF OpAccounted, IInv, TypeOK
<1> QED BY <1>3, Invariance, PTL

(* A call is listed once, whatever indications say of it. *)
THEOREM NeverListedTwice == Spec => []CallsDistinct
<1>1. IInv => CallsDistinct
  BY DEF IInv
<1> QED BY <1>1, Invariance, PTL

(* ofono's copy of the list is the list, but from a loss of voice, which empties
   the list, to the next indication of calls (qti_ims_call.c:247-295). *)
THEOREM OfonoTold == Spec => []OfonoUpToDate
<1>1. IInv => OfonoUpToDate
  BY DEF IInv
<1> QED BY <1>1, Invariance, PTL

(* Only a response runs a complete callback, of an operation that has neither
   been destroyed nor cancelled. *)
LEMMA CompleteRuns ==
  ASSUME IInv, [Next]_vars, NEW o \in Ops, op_completed'[o] # op_completed[o]
  PROVE  op_destroyed[o] = 0 /\ o \notin cancelled
<1>1. PICK r \in outstanding : \E result \in {"SUCCESS", "FAILURE"} :
                                  response(r, result)
  BY DEF Next, vars, ops, dial, answer, hangup, swap_active, swap_inactive,
         swap_nothing, begin, cancel, swap_step_activate, response_return,
         call_state_indication, handle_service_status, handover_indication,
         hangup_held, service_dies
<1>2. control = "loop" /\ completions[r] = 0
  BY <1>1 DEF response, Req!Complete
<1>3. job[r].owner = o
  <2>1. op_completed \in [Ops -> Nat]
    BY DEF IInv, TypeOK
  <2>2. op_completed' = [op_completed EXCEPT ![job[r].owner] = @ + 1]
        \/ op_completed' = op_completed
    BY <1>1 DEF response
  <2> QED BY <2>1, <2>2
<1> QED BY <1>2, <1>3, Pending DEF IInv

(* complete does not run after destroy, in particular not for step 2 of a swap
   whose step 1 has ended. *)
THEOREM CompletedFirst == Spec => NotCompletedAfterDestroy
<1>1. ASSUME IInv, [Next]_vars
      PROVE  \A o \in Ops :
                op_destroyed[o] > 0 => op_completed'[o] = op_completed[o]
  BY <1>1, CompleteRuns
<1>2. IInv /\ [Next]_vars =>
         [\A o \in Ops :
            op_destroyed[o] > 0 => op_completed'[o] = op_completed[o]]_vars
  BY <1>1
<1> QED BY <1>2, Invariance, PTL DEF Spec, NotCompletedAfterDestroy

(* A cancelled operation stays silent: a swap cancelled during step 1 does not
   go on to step 2. *)
THEOREM CancelledSilent == Spec => CancelledOpSilent
<1>1. ASSUME IInv, [Next]_vars
      PROVE  \A o \in cancelled : op_completed'[o] = op_completed[o]
  <2>1. cancelled \subseteq Ops
    BY <1>1 DEF IInv, TypeOK
  <2> QED BY <1>1, <2>1, CompleteRuns
<1>2. IInv /\ [Next]_vars =>
         [\A o \in cancelled : op_completed'[o] = op_completed[o]]_vars
  BY <1>1
<1> QED BY <1>2, Invariance, PTL DEF Spec, CancelledOpSilent

(* The loss of voice empties the list, also when voice flickers within one
   indication (qti_ims_call_handle_service_status). *)
THEOREM VoiceLossClears == Spec => VoiceLossClearsCalls
<1>1. ASSUME [Next]_vars, voice_enabled, ~ voice_enabled'
      PROVE  calls' = <<>>
  <2>1. ~ UNCHANGED list
    BY <1>1 DEF list
  <2>2. ~ \E update \in Batch(Infos) : call_state_indication(update)
    BY <1>1 DEF call_state_indication
  <2>3. PICK enabled \in Batch(BOOLEAN) : handle_service_status(enabled)
    BY <1>1, <2>1, <2>2, ListKept DEF vars
  <2>4. voice_lost(enabled)
    BY <1>1, <2>3, VoiceLost, Batches DEF handle_service_status
  <2> QED BY <2>3, <2>4 DEF handle_service_status
<1>2. [Next]_vars => [voice_enabled /\ ~ voice_enabled' => calls' = <<>>]_vars
  BY <1>1
<1> QED BY <1>2, PTL DEF Spec, VoiceLossClearsCalls

------------------------------------------------------------------------------
(* What a step does to the requests, for the compositions of the interface with
   what it talks to *)

(* Request r, of job j, is made and pending. *)
Made(r, j) ==
    /\ r \notin known /\ known' = known \cup {r}
    /\ outstanding' = outstanding \cup {r}
    /\ job'[r] = j
    /\ \A q \in known : job'[q] = job[q]
    /\ UNCHANGED <<calls, voice_enabled, completions, remote>>

(* Requests may have ended, and none has begun. *)
Ending ==
    /\ known' = known /\ outstanding' \subseteq outstanding
    /\ \A q \in outstanding' : job'[q] = job[q]
    /\ UNCHANGED <<calls, voice_enabled, completions, remote>>

LEMMA SubmitMakes ==
  ASSUME TypeOK, TypeOK', remote = "alive", NEW j \in Jobs, submit(j),
         UNCHANGED <<calls, voice_enabled, remote>>
  PROVE  \E r : Made(r, j)
<1>r. PICK r : r = next_request
  OBVIOUS
<1>1. /\ Req!Accept(r) /\ job' = [job EXCEPT ![r] = j]
  BY <1>r DEF submit
<1>2. /\ r \notin known /\ known' = known \cup {r}
      /\ outstanding' = outstanding \cup {r} /\ completions' = completions
  BY <1>1 DEF Req!Accept
<1>3. r \in Requests /\ known \subseteq Requests /\ DOMAIN job = Requests
  BY <1>2 DEF TypeOK
<1>4. job'[r] = j /\ \A q \in known : job'[q] = job[q]
  BY <1>1, <1>2, <1>3
<1> QED BY <1>2, <1>4 DEF Made

(* Every operation begins with one request, made when the code of ofono runs. *)
LEMMA AskMakes ==
  ASSUME IInv, remote = "alive",
         \/ dial \/ swap_inactive
         \/ answer /\ id_find_by_state("ACTIVE") = None
         \/ \E call \in CallIds : hangup(call)
         \/ \E flag \in {"NONE", "HANGUP"} : swap_active(flag)
  PROVE  /\ IInv'
         /\ control' = control /\ control \in {"loop", "ofono"}
         /\ hangups' = hangups
         /\ \E j \in Jobs : \E r :
               /\ Made(r, j) /\ j.role \in {"whole", "step1"}
               /\ j.role = "step1" => /\ j.kind \in {"hold", "hangup"}
                                      /\ j.call = id_find_by_state("ACTIVE")
                                      /\ j.call # None
               /\ j.kind \in {"answer", "resume"} =>
                     id_find_by_state("ACTIVE") = None
<1>1. TypeOK /\ Operations /\ CallsDistinct /\ OfonoUpToDate
  BY DEF IInv
<1>2. TypeOK' /\ Operations'
  BY <1>1, Asked
<1>3. PICK j \in Jobs :
          /\ begin(j) /\ j.owner = next_op /\ j.role \in {"whole", "step1"}
          /\ j.role = "step1" => /\ j.kind \in {"hold", "hangup"}
                                 /\ j.call = id_find_by_state("ACTIVE")
                                 /\ j.call # None
          /\ j.kind \in {"answer", "resume"} => id_find_by_state("ACTIVE") = None
  <2>1. CASE answer /\ id_find_by_state("ACTIVE") = None
    BY <1>1, <2>1, Answers
  <2>2. CASE ~ (answer /\ id_find_by_state("ACTIVE") = None)
    BY <1>1, <2>2, Asks
  <2> QED BY <2>1, <2>2
<1>4. /\ submit(j) /\ control \in {"loop", "ofono"}
      /\ UNCHANGED <<calls, voice_enabled, seen, cleared, remote, control, hangups>>
  BY <1>3 DEF begin, ofono_asks, list, loop
<1>5. PICK r : Made(r, j)
  BY <1>1, <1>2, <1>4, SubmitMakes
<1>6. IInv'
  BY <1>1, <1>2, <1>4 DEF IInv, CallsDistinct, OfonoUpToDate
<1> QED BY <1>3, <1>4, <1>5, <1>6

LEMMA ActivateMakes ==
  ASSUME IInv, remote = "alive", swap_step_activate
  PROVE  /\ IInv' /\ control = "activate" /\ control' = "return"
         /\ \E j \in Jobs : \E r :
               /\ Made(r, j)
               /\ j.role = "step2" /\ j.kind \in {"answer", "resume"}
<1>1. TypeOK /\ Operations /\ CallsDistinct /\ OfonoUpToDate
  BY DEF IInv
<1>2. TypeOK' /\ Operations'
  BY <1>1, StepActivate
<1>3. /\ control = "activate" /\ control' = "return"
      /\ UNCHANGED <<calls, voice_enabled, seen, cleared, remote>>
  BY DEF swap_step_activate, list
<1>4. PICK j \in Jobs :
          submit(j) /\ j.role = "step2" /\ j.kind \in {"answer", "resume"}
  BY <1>1, SecondStep
<1>5. PICK r : Made(r, j)
  BY <1>1, <1>2, <1>3, <1>4, SubmitMakes
<1>6. IInv'
  BY <1>1, <1>2, <1>3 DEF IInv, CallsDistinct, OfonoUpToDate
<1> QED BY <1>3, <1>4, <1>5, <1>6

LEMMA HangupMakes ==
  ASSUME IInv, remote = "alive", hangup_held
  PROVE  /\ IInv' /\ control = "handover" /\ control' \in {"loop", "handover"}
         /\ hangups' \subseteq hangups
         /\ \E j \in Jobs : \E r :
               /\ Made(r, j) /\ j.role = "handover" /\ j.kind = "hangup"
               /\ \E i \in hangups : j.call = calls[i].id
<1>1. TypeOK /\ Operations /\ CallsDistinct /\ OfonoUpToDate
  BY DEF IInv
<1>2. TypeOK' /\ Operations'
  BY <1>1, HangupHeld
<1>3. /\ control = "handover" /\ control' \in {"loop", "handover"}
      /\ hangups' \subseteq hangups
      /\ UNCHANGED <<calls, voice_enabled, seen, cleared, remote>>
  BY DEF hangup_held, list
<1>4. PICK i \in hangups, j \in Jobs :
          /\ submit(j) /\ j.role = "handover" /\ j.kind = "hangup"
          /\ j.call = calls[i].id
  BY <1>1, HandoverStep
<1>5. PICK r : Made(r, j)
  BY <1>1, <1>2, <1>3, <1>4, SubmitMakes
<1>6. IInv'
  BY <1>1, <1>2, <1>3 DEF IInv, CallsDistinct, OfonoUpToDate
<1> QED BY <1>3, <1>4, <1>5, <1>6

LEMMA ReleaseEnds ==
  ASSUME TypeOK, NEW r, release(r), UNCHANGED <<calls, voice_enabled, remote>>
  PROVE  Ending
<1>1. /\ r \in outstanding /\ outstanding' = outstanding \ {r}
      /\ known' = known /\ completions' = completions
      /\ job' = [job EXCEPT ![r] = NoJob]
  BY DEF release, Req!Release
<1>2. \A q \in outstanding' : q \in DOMAIN job /\ q # r
  BY <1>1 DEF TypeOK
<1>3. \A q \in outstanding' : job'[q] = job[q]
  BY <1>1, <1>2
<1> QED BY <1>1, <1>3 DEF Ending

LEMMA ReturnEnds ==
  ASSUME IInv, response_return
  PROVE  IInv' /\ Ending /\ control' = "loop"
<1>1. TypeOK /\ Operations /\ CallsDistinct /\ OfonoUpToDate
  BY DEF IInv
<1>2. TypeOK' /\ Operations'
  BY <1>1, ResponseReturn
<1>3. control' = "loop" /\ UNCHANGED <<calls, voice_enabled, seen, cleared, remote>>
  BY DEF response_return, list
<1>4. Ending
  <2>1. PICK r : r = dispatching
    OBVIOUS
  <2>2. CASE r \in outstanding
    <3>1. release(r)
      BY <2>1, <2>2 DEF response_return, release, request_free, Req!Release,
                        destroys, unrefs, fails_swap
    <3> QED BY <1>1, <1>3, <3>1, ReleaseEnds
  <2>3. CASE r \notin outstanding
    BY <1>3, <2>1, <2>3 DEF response_return, contract, Ending
  <2> QED BY <2>2, <2>3
<1>5. IInv'
  BY <1>1, <1>2, <1>3 DEF IInv, CallsDistinct, OfonoUpToDate
<1> QED BY <1>3, <1>4, <1>5

LEMMA CancelEnds ==
  ASSUME IInv, NEW o \in Ops, cancel(o)
  PROVE  IInv' /\ Ending /\ control \in {"loop", "ofono"} /\ control' = control
<1>1. TypeOK /\ Operations /\ CallsDistinct /\ OfonoUpToDate
  BY DEF IInv
<1>2. TypeOK' /\ Operations'
  BY <1>1, Cancel
<1>3. /\ control \in {"loop", "ofono"} /\ control' = control
      /\ UNCHANGED <<calls, voice_enabled, seen, cleared, remote>>
  BY DEF cancel, list, loop
<1>4. Ending
  <2>1. PICK r : r = op_id[o]
    OBVIOUS
  <2>2. CASE cancel_request(o)
    <3>1. release(r)
      BY <2>1, <2>2 DEF cancel_request, release, request_free, Req!Release,
                        destroys, unrefs, fails_swap
    <3> QED BY <1>1, <1>3, <3>1, ReleaseEnds
  <2>3. CASE ~ cancel_request(o)
    BY <1>3, <2>3 DEF cancel, contract, Ending
  <2> QED BY <2>2, <2>3
<1>5. IInv'
  BY <1>1, <1>2, <1>3 DEF IInv, CallsDistinct, OfonoUpToDate
<1> QED BY <1>3, <1>4, <1>5

(* Only a successful step 1 leads on to step 2. *)
LEMMA ResponseRuns ==
  ASSUME IInv, NEW r \in outstanding, NEW result \in {"SUCCESS", "FAILURE"},
         response(r, result)
  PROVE  /\ IInv'
         /\ UNCHANGED <<calls, voice_enabled, known, outstanding, job, remote>>
         /\ completions[r] = 0 /\ completions'[r] = 1
         /\ \A q \in outstanding : q # r => completions'[q] = completions[q]
         /\ control = "loop" /\ control' \in {"activate", "ofono", "return"}
         /\ control' = "activate" => job[r].role = "step1" /\ result = "SUCCESS"
<1>1. TypeOK /\ Operations /\ CallsDistinct /\ OfonoUpToDate
  BY DEF IInv
<1>2. TypeOK' /\ Operations'
  BY <1>1, Response
<1>3. /\ control = "loop" /\ control' \in {"activate", "ofono", "return"}
      /\ control' = "activate" => job[r].role = "step1" /\ result = "SUCCESS"
      /\ Req!Complete(r)
      /\ UNCHANGED <<calls, voice_enabled, seen, cleared, job, remote>>
  BY DEF response, proceeds, reports, list
<1>4. /\ UNCHANGED <<known, outstanding>>
      /\ completions[r] = 0 /\ completions' = [completions EXCEPT ![r] = @ + 1]
  BY <1>3 DEF Req!Complete
<1>5. completions \in [Requests -> Nat] /\ outstanding \subseteq Requests
  BY DEF IInv, TypeOK
<1>6. completions'[r] = 1
      /\ \A q \in outstanding : q # r => completions'[q] = completions[q]
  BY <1>4, <1>5
<1>7. IInv'
  BY <1>1, <1>2, <1>3 DEF IInv, CallsDistinct, OfonoUpToDate
<1> QED BY <1>3, <1>4, <1>6, <1>7

(* Between steps 1 and 2 of a swap the request of step 1 is in dispatch. *)
LEMMA ActivateInDispatch ==
  ASSUME IInv, control = "activate"
  PROVE  /\ dispatching \in outstanding /\ job[dispatching].role = "step1"
         /\ completions[dispatching] > 0
BY DEF IInv, TypeOK, Operations, ControlTracked

------------------------------------------------------------------------------
(* The contract *)

LEMMA SubmitContract ==
  ASSUME TypeOK', NEW j, submit(j)
  PROVE  Req!Next
<1>r. PICK r : r = next_request
  OBVIOUS
<1>1. Req!Accept(r) \/ Req!Refuse(r)
  BY <1>r DEF submit, Req!Accept, Req!Refuse
<1>2. r \in known' /\ known' \subseteq Requests
  BY <1>1 DEF Req!Accept, Req!Refuse, TypeOK
<1> QED BY <1>1, <1>2 DEF Req!Next

LEMMA ReleaseContract ==
  ASSUME TypeOK, NEW r, release(r)
  PROVE  Req!Next
<1>1. Req!Release(r)
  BY DEF release
<1>2. r \in Requests
  BY <1>1 DEF Req!Release, TypeOK
<1> QED BY <1>1, <1>2 DEF Req!Next

(* No step asks two things of the layer below, or one it does not promise: every
   operation, a swap of two requests too, and the loop after a handover, is a
   behaviour of RequestContract, which QtiRadioExt implements. *)
THEOREM UsesContract == Spec => Req!Spec
<1>1. Init => Req!Init
  BY DEF Init, InitOperations
<1>2. IInv /\ IInv' /\ [Next]_vars => [Req!Next]_(Req!vars)
  <2> SUFFICES ASSUME IInv, IInv', [Next]_vars
               PROVE  Req!Next \/ UNCHANGED Req!vars
    OBVIOUS
  <2>1. TypeOK /\ TypeOK' /\ Operations
    BY DEF IInv
  <2>2. CASE \/ dial \/ answer \/ swap_inactive
             \/ \E call \in CallIds : hangup(call)
             \/ \E flag \in {"NONE", "HANGUP"} : swap_active(flag)
    <3>1. PICK j \in Jobs : begin(j)
      BY <2>1, <2>2, Asks, Answers
    <3> QED BY <2>1, <3>1, SubmitContract DEF begin
  <2>3. CASE \/ swap_nothing \/ service_dies \/ UNCHANGED vars
             \/ \E update \in Batch(Infos) : call_state_indication(update)
             \/ \E enabled \in Batch(BOOLEAN) : handle_service_status(enabled)
             \/ \E sent \in HandoverTypes \cup {"UNREADABLE"} :
                   handover_indication(sent)
    BY <2>3 DEF swap_nothing, service_dies, vars, call_state_indication,
            handle_service_status, handover_indication, contract, Req!vars
  <2>4. ASSUME NEW r \in outstanding, NEW result \in {"SUCCESS", "FAILURE"},
               response(r, result)
        PROVE  Req!Next
    <3>1. r \in Requests /\ Req!Complete(r)
      BY <2>1, <2>4 DEF TypeOK, response
    <3> QED BY <3>1 DEF Req!Next
  <2>5. CASE swap_step_activate
    <3>1. PICK j \in Jobs : submit(j)
      BY <2>1, <2>5, SecondStep
    <3> QED BY <2>1, <3>1, SubmitContract
  <2>6. CASE hangup_held
    <3>1. PICK j \in Jobs : submit(j)
      BY <2>1, <2>6, HandoverStep
    <3> QED BY <2>1, <3>1, SubmitContract
  <2>7. CASE response_return
    <3>1. PICK r : r = dispatching
      OBVIOUS
    <3>2. CASE r \in outstanding
      <4>1. release(r)
        BY <2>7, <3>1, <3>2 DEF response_return, release, request_free, Req!Release,
                                destroys, unrefs, fails_swap
      <4> QED BY <2>1, <4>1, ReleaseContract
    <3>3. CASE r \notin outstanding
      BY <2>7, <3>1, <3>3 DEF response_return, contract, Req!vars
    <3> QED BY <3>2, <3>3
  <2>8. ASSUME NEW o \in Ops, cancel(o)
        PROVE  Req!Next \/ UNCHANGED Req!vars
    <3>1. PICK r : r = op_id[o]
      OBVIOUS
    <3>2. CASE cancel_request(o)
      <4>1. release(r)
        BY <3>1, <3>2 DEF cancel_request, release, request_free, Req!Release,
                          destroys, unrefs, fails_swap
      <4> QED BY <2>1, <4>1, ReleaseContract
    <3>3. CASE ~ cancel_request(o)
      BY <2>8, <3>3 DEF cancel, contract, Req!vars
    <3> QED BY <3>2, <3>3
  <2> QED BY <2>2, <2>3, <2>4, <2>5, <2>6, <2>7, <2>8 DEF Next
<1> QED BY <1>1, <1>2, Invariance, PTL DEF Spec, Req!Spec
==============================================================================
