------------------------------- MODULE QtiUtils -------------------------------
(***************************************************************************)
(* How one entry of an indication is read, qti_utils.c.  An entry is an    *)
(* AIDL parcelable: the size of its payload, which counts itself, and the  *)
(* fields.  The fields the plugin knows are read one by one; the service   *)
(* may have sent more, which are skipped, so that the next entry is read   *)
(* from where it begins.                                                   *)
(*                                                                         *)
(* Positions are in bytes.  The data may end anywhere, and a read past its *)
(* end fails and leaves the reader where it is; gsize may have 32 bits, as *)
(* the size of the payload has.                                            *)
(***************************************************************************)
EXTENDS Integers, TLAPS

CONSTANTS
    Word,                  \* number of values of gsize
    Payload,               \* what the header says, a uint32
    Start,                 \* where the payload begins
    Known,                 \* bytes that the fields the plugin knows take
    End                    \* where the data end

VARIABLES
    position,              \* gbinder_reader_bytes_read
    data_read,             \* of qti_binder_skip_parcelable_end
    words,                 \* turns of its loop so far
    pc                     \* "skip" in the loop, "done", or "failed"

vars == <<position, data_read, words, pc>>

SIZE == 4                  \* sizeof(guint32)

(* The assumptions of the theorems: gsize is not narrower than uint32, and the
   fields that were read lie within the data. *)
Sizes ==
    /\ Word \in Nat /\ Payload \in Nat /\ Payload < Word
    /\ Start \in Nat /\ Known \in Nat /\ End \in Nat
    /\ Start + SIZE + Known <= End /\ End < Word

(* The sum of two values of gsize *)
plus(m, n) == IF m + n < Word THEN m + n ELSE m + n - Word

parcelable_size == IF Payload >= SIZE THEN Payload - SIZE ELSE 0

initial_size == Start + SIZE

(* An empty parcelable is refused; otherwise the known fields have been read
   when the rest is skipped. *)
Init ==
    /\ position = IF parcelable_size = 0 THEN initial_size
                                         ELSE initial_size + Known
    /\ data_read = position - initial_size
    /\ words = 0
    /\ pc = IF parcelable_size = 0 THEN "failed" ELSE "skip"

read_uint32 ==
    position' = IF position + SIZE <= End THEN position + SIZE ELSE position

skip ==
    /\ pc = "skip"
    /\ data_read < parcelable_size
    /\ read_uint32
    /\ data_read' = plus(data_read, SIZE)
    /\ words' = words + 1
    /\ UNCHANGED pc

skipped ==
    /\ pc = "skip"
    /\ data_read >= parcelable_size
    /\ pc' = "done"
    /\ UNCHANGED <<position, data_read, words>>

Next == skip \/ skipped

Spec == Init /\ [][Next]_vars

------------------------------------------------------------------------------

TypeOK ==
    /\ position \in Nat /\ data_read \in Nat /\ words \in Nat
    /\ pc \in {"skip", "done", "failed"}

(* The count of the bytes read never wraps, however large the size in the
   header, so that each turn of the loop brings it nearer to that size: the
   loop ends, also when the data have ended before. *)
NeverWraps == pc # "failed" => data_read = Known + SIZE * words /\ data_read < Word

(* The loop does not go on past the entry by more than a part of a word. *)
StopsAtEnd == words > 0 => data_read < parcelable_size + SIZE

(* ... nor does it leave a word of the entry unread. *)
ReachesEnd == pc = "done" => data_read >= parcelable_size

(* The reader has moved on by whole words, and by all that are counted unless
   the data have ended. *)
InStep ==
    pc # "failed" =>
        \E moved \in 0..words :
            /\ position = initial_size + Known + SIZE * moved
            /\ moved = words \/ position + SIZE > End

IInv == TypeOK /\ NeverWraps /\ StopsAtEnd /\ ReachesEnd /\ InStep

(* The next entry is read from where this one ends, if the fields the plugin
   does not know take "more" whole words: newer versions of the service, whose
   entries have more fields, are understood. *)
AtNextEntry(more) ==
    (pc = "done" /\ Payload = SIZE + Known + SIZE * more /\ Start + Payload <= End)
        => position = Start + Payload

------------------------------------------------------------------------------

(* The strengthening of the properties of the loop is inductive. *)
THEOREM Invariance == ASSUME Sizes PROVE Spec => []IInv
<1>1. Init => IInv
  BY DEF Sizes, Init, IInv, TypeOK, NeverWraps, StopsAtEnd, ReachesEnd,
         InStep, SIZE,
         initial_size, parcelable_size
<1>2. IInv /\ [Next]_vars => IInv'
  <2> SUFFICES ASSUME IInv, [Next]_vars PROVE IInv'
    OBVIOUS
  <2> USE DEF Sizes, SIZE, initial_size, parcelable_size
  <2>1. CASE skip
    <3>1. data_read' = data_read + SIZE /\ data_read' < Word
      BY <2>1 DEF skip, plus, IInv, TypeOK
    <3>2. TypeOK' /\ NeverWraps'
      BY <2>1, <3>1 DEF skip, read_uint32, IInv, TypeOK, NeverWraps
    <3>3. StopsAtEnd' /\ ReachesEnd'
      BY <2>1, <3>1 DEF skip, IInv, TypeOK, StopsAtEnd, ReachesEnd
    <3>4. InStep'
      <4>1. PICK moved \in 0..words :
               /\ position = initial_size + Known + SIZE * moved
               /\ moved = words \/ position + SIZE > End
        BY <2>1 DEF skip, IInv, InStep
      <4>2. CASE position + SIZE > End
        <5>1. position' = position /\ moved \in 0..words'
          BY <2>1, <4>2 DEF skip, read_uint32, IInv, TypeOK
        <5> QED BY <4>1, <4>2, <5>1 DEF InStep
      <4>3. CASE position + SIZE <= End
        <5>1. moved = words /\ moved + 1 \in 0..words' /\ moved + 1 = words'
          BY <2>1, <4>1, <4>3 DEF skip, IInv, TypeOK
        <5>2. position' = initial_size + Known + SIZE * (moved + 1)
          BY <2>1, <4>1, <4>3 DEF skip, read_uint32
        <5> QED BY <5>1, <5>2 DEF InStep
      <4> QED BY <4>2, <4>3 DEF IInv, TypeOK
    <3> QED BY <3>2, <3>3, <3>4 DEF IInv
  <2>2. CASE skipped
    BY <2>2 DEF skipped, IInv, TypeOK, NeverWraps, StopsAtEnd,
                 ReachesEnd, InStep
  <2>3. CASE UNCHANGED vars
    BY <2>3 DEF vars, IInv, TypeOK, NeverWraps, StopsAtEnd,
                 ReachesEnd, InStep
  <2> QED BY <2>1, <2>2, <2>3 DEF Next
<1> QED BY <1>1, <1>2, PTL DEF Spec

(* The loop of qti_binder_skip_parcelable_end counts without wrapping, for
   every size a header may give and every width of gsize. *)
THEOREM SkipEnds == ASSUME Sizes PROVE Spec => [](NeverWraps /\ StopsAtEnd)
<1>1. IInv => NeverWraps /\ StopsAtEnd
  BY DEF IInv
<1> QED BY <1>1, Invariance, PTL

(* Entries with more fields than the plugin knows are passed exactly. *)
THEOREM NextEntryFound ==
  ASSUME Sizes, NEW more \in Nat PROVE Spec => []AtNextEntry(more)
<1>1. IInv => AtNextEntry(more)
  <2> SUFFICES ASSUME IInv, pc = "done",
                      Payload = SIZE + Known + SIZE * more,
                      Start + Payload <= End
               PROVE  position = Start + Payload
    BY DEF AtNextEntry
  <2> USE DEF Sizes, SIZE, initial_size, parcelable_size, IInv, TypeOK
  <2>1. data_read = Known + SIZE * words /\ words = more
    BY DEF NeverWraps, StopsAtEnd, ReachesEnd
  <2>2. PICK moved \in 0..words :
           /\ position = initial_size + Known + SIZE * moved
           /\ moved = words \/ position + SIZE > End
    BY DEF InStep
  <2>3. moved = words
    BY <2>1, <2>2
  <2> QED BY <2>1, <2>2, <2>3
<1> QED BY <1>1, Invariance, PTL
==============================================================================
