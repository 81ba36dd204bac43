----------------------- MODULE PersistentQueue_proofs -----------------------
(***************************************************************************)
(* Theorems about PersistentQueue, for every set of producers and of       *)
(* messages, every capacity and every number of records that stdio and     *)
(* SPIFFS hold back.                                                       *)
(***************************************************************************)
EXTENDS PersistentQueue, SequenceTheorems, TLAPS

\* A prefix, extended by the next element, is the prefix one longer.
LEMMA AppendNext ==
  ASSUME NEW S, NEW s \in Seq(S), NEW k \in Nat, k < Len(s)
  PROVE  /\ SubSeq(s, 1, k) \in Seq(S)
         /\ Len(SubSeq(s, 1, k)) = k
         /\ Append(SubSeq(s, 1, k), s[k + 1]) = SubSeq(s, 1, k + 1)
<1>1. \A i \in 1 .. k + 1 : s[i] \in S
  BY ElementOfSeq
<1>2. /\ SubSeq(s, 1, k) \in Seq(S)
      /\ Len(SubSeq(s, 1, k)) = k
      /\ \A i \in 1 .. k : SubSeq(s, 1, k)[i] = s[i]
  BY <1>1, SubSeqProperties
<1>3. /\ SubSeq(s, 1, k + 1) \in Seq(S)
      /\ Len(SubSeq(s, 1, k + 1)) = k + 1
      /\ \A i \in 1 .. k + 1 : SubSeq(s, 1, k + 1)[i] = s[i]
  BY <1>1, SubSeqProperties
<1>4. Append(SubSeq(s, 1, k), s[k + 1]) \in Seq(S)
      /\ Len(Append(SubSeq(s, 1, k), s[k + 1])) = k + 1
  BY <1>1, <1>2, AppendProperties
<1>5. \A i \in 1 .. k + 1 : Append(SubSeq(s, 1, k), s[k + 1])[i] = s[i]
  BY <1>1, <1>2, AppendProperties
<1> QED
  BY <1>2, <1>3, <1>4, <1>5, SeqEqual

\* Shortening a prefix at its end: the part before its last elements.
LEMMA PrefixOfSelf ==
  ASSUME NEW S, NEW s \in Seq(S), NEW k \in 0 .. Len(s)
  PROVE  /\ SubSeq(s, 1, k) \in Seq(S)
         /\ Len(SubSeq(s, 1, k)) = k
         /\ IsPrefix(SubSeq(s, 1, k), s)
<1>1. Len(s) \in Nat /\ k \in Nat /\ k <= Len(s)
  BY LenProperties
<1>2. \A i \in 1 .. k : s[i] \in S
  BY <1>1, ElementOfSeq
<1>3. SubSeq(s, 1, k) \in Seq(S) /\ Len(SubSeq(s, 1, k)) = k
  BY <1>1, <1>2, SubSeqProperties
<1> QED
  BY <1>1, <1>3 DEF IsPrefix

\* A sequence in two parts, a then b, that together are the first k elements of s.
LEMMA PartsOfPrefix ==
  ASSUME NEW S, NEW a \in Seq(S), NEW b \in Seq(S), NEW s \in Seq(S), NEW k \in 0 .. Len(s),
         a \o b = SubSeq(s, 1, k)
  PROVE  /\ Len(a) \in 0 .. Len(s) /\ Len(a) + Len(b) = k
         /\ a = SubSeq(s, 1, Len(a)) /\ IsPrefix(a, s)
         /\ b = <<>> /\ k = Len(s) => a = s
<1>0. Len(a) \in Nat /\ Len(b) \in Nat /\ Len(s) \in Nat /\ k \in Nat /\ k <= Len(s)
  BY LenProperties
<1>1. /\ Len(SubSeq(s, 1, k)) = k
      /\ \A i \in 1 .. k : SubSeq(s, 1, k)[i] = s[i]
  <2>1. \A i \in 1 .. k : s[i] \in S
    BY <1>0, ElementOfSeq
  <2> QED
    BY <1>0, <2>1, SubSeqProperties
<1>2. /\ Len(a \o b) = Len(a) + Len(b)
      /\ \A i \in 1 .. Len(a) : (a \o b)[i] = a[i]
  BY <1>0, ConcatProperties
<1>3. Len(a) + Len(b) = k /\ Len(a) \in 0 .. Len(s)
  BY <1>0, <1>1, <1>2
<1>4. /\ SubSeq(s, 1, Len(a)) \in Seq(S) /\ Len(SubSeq(s, 1, Len(a))) = Len(a)
      /\ IsPrefix(SubSeq(s, 1, Len(a)), s)
  BY <1>3, PrefixOfSelf
<1>5. ASSUME NEW i \in 1 .. Len(a) PROVE a[i] = SubSeq(s, 1, Len(a))[i]
  <2>1. i \in 1 .. k
    BY <1>0, <1>3
  <2>2. a[i] = s[i]
    BY <1>1, <1>2, <2>1
  <2> QED
    BY <1>0, <2>2
<1>6. a = SubSeq(s, 1, Len(a))
  BY <1>4, <1>5, SeqEqual
<1>7. b = <<>> /\ k = Len(s) => a = s
  BY <1>0, <1>3, <1>6, SubSeqFull, EmptySeq
<1> QED
  BY <1>3, <1>4, <1>6, <1>7

\* An element may be added to the second part or moved from it to the first.
LEMMA MoveBetweenParts ==
  ASSUME NEW S, NEW a \in Seq(S), NEW b \in Seq(S), NEW x \in S
  PROVE  /\ a \o Append(b, x) = Append(a \o b, x)
         /\ b # <<>> => Append(a, Head(b)) \o Tail(b) = a \o b
<1>1. a \o Append(b, x) = Append(a \o b, x)
  <2>1. <<x>> \in Seq(S) /\ Append(b, x) = b \o <<x>> /\ a \o b \in Seq(S)
    BY AppendIsConcat, ConcatProperties
  <2>2. Append(a \o b, x) = (a \o b) \o <<x>>
    BY <2>1, AppendIsConcat
  <2> QED
    BY <2>1, <2>2, ConcatAssociative
<1>2. ASSUME b # <<>> PROVE Append(a, Head(b)) \o Tail(b) = a \o b
  <2>1. Head(b) \in S /\ Tail(b) \in Seq(S) /\ <<Head(b)>> \in Seq(S)
    BY <1>2, HeadTailProperties
  <2>2. Append(a, Head(b)) = a \o <<Head(b)>>
    BY <2>1, AppendIsConcat
  <2>3. <<Head(b)>> \o Tail(b) = b
    <3>1. /\ <<Head(b)>> \o Tail(b) \in Seq(S)
          /\ Len(<<Head(b)>> \o Tail(b)) = 1 + Len(Tail(b))
          /\ \A i \in 1 .. 1 + Len(Tail(b)) :
               (<<Head(b)>> \o Tail(b))[i] = IF i <= 1 THEN <<Head(b)>>[i] ELSE Tail(b)[i - 1]
      BY <2>1, ConcatProperties
    <3>2. /\ Len(Tail(b)) = Len(b) - 1 /\ Len(b) \in Nat /\ Len(b) > 0
          /\ \A i \in 1 .. Len(Tail(b)) : Tail(b)[i] = b[i + 1]
          /\ Head(b) = b[1]
      BY <1>2, HeadTailProperties, LenProperties, EmptySeq
    <3>3. ASSUME NEW i \in 1 .. Len(b) PROVE (<<Head(b)>> \o Tail(b))[i] = b[i]
      <4>1. CASE i = 1
        BY <3>1, <3>2, <4>1
      <4>2. CASE i # 1
        <5>1. i \in 1 .. 1 + Len(Tail(b)) /\ i - 1 \in 1 .. Len(Tail(b)) /\ ~(i <= 1) /\ (i - 1) + 1 = i
          BY <3>2, <4>2
        <5> QED
          BY <3>1, <3>2, <5>1
      <4> QED
        BY <4>1, <4>2
    <3> QED
      BY <3>1, <3>2, <3>3, SeqEqual
  <2> QED
    BY <2>1, <2>2, <2>3, ConcatAssociative
<1> QED
  BY <1>1, <1>2

\* What is read back of a snapshot is its first few records: all of them when neither
\* item_count nor the capacity cuts them short.
LEMMA LoadedIsPrefix ==
  ASSUME NEW f \in [ok : BOOLEAN, count : Nat, recs : Seq(Item)]
  PROVE  /\ Loaded(f) \in Seq(Item)
         /\ Len(Loaded(f)) <= Capacity
         /\ f.ok /\ Len(f.recs) <= f.count /\ Len(f.recs) <= Capacity
              => Loaded(f) = f.recs
<1> DEFINE n == IF Len(f.recs) <= f.count
                THEN IF Len(f.recs) <= Capacity THEN Len(f.recs) ELSE Capacity
                ELSE IF f.count <= Capacity THEN f.count ELSE Capacity
<1>1. Capacity \in Nat /\ n \in Nat /\ n <= Len(f.recs) /\ n <= Capacity
  BY QueueAssumption, LenProperties
<1>2. {j \in DOMAIN f.recs : j <= f.count /\ j <= Capacity} = 1 .. n
  BY <1>1, LenProperties
<1>3. CASE f.ok
  <2>1. Loaded(f) = [i \in 1 .. n |-> f.recs[i]]
    BY <1>2, <1>3 DEF Loaded
  <2>2. \A i \in 1 .. n : f.recs[i] \in Item
    BY <1>1, ElementOfSeq
  <2>3. Loaded(f) = SubSeq(f.recs, 1, n)
    BY <2>1, <1>1
  <2>4. Loaded(f) \in Seq(Item) /\ Len(Loaded(f)) = n
    BY <2>2, <2>3, <1>1, SubSeqProperties
  <2> QED
    BY <2>3, <2>4, <1>1, SubSeqFull
<1>4. CASE ~f.ok
  BY <1>4, <1>1, EmptySeq DEF Loaded
<1> QED
  BY <1>3, <1>4

-----------------------------------------------------------------------------
(* Type correctness, for any interleaving of the tasks.                    *)

\* A task inside push_back has a message to push, one inside erase has read a vector with
\* something in it, and only one that writes records has some held back.
CallOK ==
  \A t \in Task :
    /\ pc[t] \in {"push", "fits", "grow"} => arg[t] \in Item
    /\ pc[t] = "shift" => view[t] # <<>>
    /\ pc[t] # "records" => buffer[t] = <<>>

TypeInv == TypeOK /\ CallOK

LEMMA TypeInit == Init => TypeInv
<1> SUFFICES ASSUME Init PROVE TypeInv
  OBVIOUS
<1>1. <<>> \in Seq(Item) /\ Len(<<>>) = 0 /\ 0 <= Capacity
  BY EmptySeq, QueueAssumption
<1>2. saved \in Saved /\ torn \in BOOLEAN
  BY DEF Init, Saved
<1> QED
  BY <1>1, <1>2, QueueAssumption DEF Init, TypeInv, TypeOK, CallOK, NoSnapshot, Stage

\* A record written over another leaves a sequence of records.
LEMMA ReplaceKeeps ==
  ASSUME NEW S, NEW s \in Seq(S), NEW i, NEW x \in S
  PROVE  [s EXCEPT ![i] = x] \in Seq(S)
<1>1. CASE i \in 1 .. Len(s)
  BY <1>1, ExceptSeq, LenProperties
<1>2. CASE i \notin 1 .. Len(s)
  <2>1. s = [j \in 1 .. Len(s) |-> s[j]]
    BY LenProperties
  <2>2. [s EXCEPT ![i] = x] = s
    BY <1>2, <2>1
  <2> QED
    BY <2>2
<1> QED
  BY <1>1, <1>2

\* What a boot finds on flash, and how much of it the queue gets.
LEMMA BootFinds ==
  ASSUME file \in [ok : BOOLEAN, count : Nat, recs : Seq(Item)],
         Reset \/ ResetUnread \/ ResetFormats
  PROVE  \E f \in [ok : BOOLEAN, count : Nat, recs : Seq(Item)], recs \in Seq(Item) :
           /\ f = file \/ f = NoSnapshot
           /\ Loaded(f) \in Seq(Item) /\ Len(recs) <= Capacity
           /\ IsPrefix(recs, Loaded(f))
           /\ Boot(f, recs)
<1>0. /\ Restorable \in Seq(Item) /\ Len(Restorable) <= Capacity /\ Len(Restorable) \in Nat
      /\ Capacity \in Nat
  BY LoadedIsPrefix, LenProperties, QueueAssumption DEF Restorable
<1>1. CASE Reset
  <2>1. Len(Restorable) \in 0 .. Len(Restorable) /\ SubSeq(Restorable, 1, Len(Restorable)) = Restorable
    BY <1>0, SubSeqFull
  <2>2. IsPrefix(Restorable, Restorable)
    BY <1>0, <2>1, PrefixOfSelf
  <2> QED
    BY <1>0, <1>1, <2>2 DEF Reset, Restorable
<1>2. CASE ResetUnread
  <2>1. PICK n \in 0 .. Len(Restorable) : Boot(file, SubSeq(Restorable, 1, n))
    BY <1>2 DEF ResetUnread
  <2> DEFINE recs == SubSeq(Restorable, 1, n)
  <2>2. recs \in Seq(Item) /\ Len(recs) = n /\ IsPrefix(recs, Restorable)
    BY <1>0, PrefixOfSelf
  <2>3. Len(recs) <= Capacity
    BY <1>0, <2>2
  <2> HIDE DEF recs
  <2> QED
    BY <1>0, <2>1, <2>2, <2>3 DEF Restorable, recs
<1>3. CASE ResetFormats
  <2>1. /\ NoSnapshot \in [ok : BOOLEAN, count : Nat, recs : Seq(Item)]
        /\ Loaded(NoSnapshot) = <<>> /\ <<>> \in Seq(Item) /\ Len(<<>>) <= Capacity
    BY <1>0, EmptySeq DEF NoSnapshot, Loaded
  <2>2. IsPrefix(<<>>, <<>>)
    <3>1. 0 \in 0 .. Len(<<>>) /\ SubSeq(<<>>, 1, 0) = <<>>
      BY <2>1, SubSeqEmpty, EmptySeq
    <3> QED
      BY <2>1, <3>1, PrefixOfSelf
  <2> QED
    BY <1>3, <2>1, <2>2 DEF ResetFormats
<1> QED
  BY <1>1, <1>2, <1>3

LEMMA TypeStep == TypeInv /\ [Next]_vars => TypeInv'
<1> SUFFICES ASSUME TypeInv, [Next]_vars PROVE TypeInv'
  OBVIOUS
<1> USE DEF TypeInv, TypeOK, CallOK, Stage
<1>0. /\ Capacity \in Nat \ {0} /\ Buffered \in Nat \ {0} /\ Producer \subseteq Task /\ Consumer \in Task
      /\ <<>> \in Seq(Item) /\ Len(<<>>) = 0 /\ Quiet \in BOOLEAN
      /\ NoSnapshot \in [ok : BOOLEAN, count : Nat, recs : Seq(Item)]
  BY QueueAssumption, EmptySeq DEF Task, NoSnapshot, Quiet
<1>1. ASSUME NEW t \in Producer, NEW x \in Item, EnqueueSend(t, x) PROVE TypeInv'
  <2>1. Append(ram, x) \in Seq(Item) /\ Len(Append(ram, x)) = Len(ram) + 1
    BY AppendProperties
  <2> QED
    BY <1>0, <1>1, <2>1, LenProperties DEF EnqueueSend, Goto
<1>2. CASE AckReceive
  <2>1. Tail(ram) \in Seq(Item) /\ Len(Tail(ram)) = Len(ram) - 1
    BY <1>2, HeadTailProperties DEF AckReceive
  <2> QED
    BY <1>0, <1>2, <2>1, LenProperties DEF AckReceive, Goto
<1>3. CASE Peek
  <2>1. <<Head(ram)>> \in Seq(Item) /\ Len(<<Head(ram)>>) = 1
    BY <1>3, HeadTailProperties DEF Peek
  <2> QED
    BY <1>3, <2>1 DEF Peek, calls
<1>4. CASE KeepHeld
  BY <1>0, <1>4 DEF KeepHeld, calls
<1>5. ASSUME NEW t \in Task, Continue(t) PROVE TypeInv'
  <2>1. CASE PushCheck(t)
    BY <2>1 DEF PushCheck, Goto, queues
  <2>2. CASE PushBegin(t)
    BY <2>2 DEF PushBegin, Goto, queues
  <2>3. CASE PushEnd(t)
    <3>1. Append(view[t], arg[t]) \in Seq(Item)
      BY <2>3, AppendProperties DEF PushEnd
    <3> QED
      BY <1>0, <2>3, <3>1 DEF PushEnd, Goto
  <2>4. CASE EraseBegin(t)
    <3>1. /\ \/ /\ shadow # <<>>
                /\ pc' = [pc EXCEPT ![t] = "shift"] /\ view' = [view EXCEPT ![t] = shadow]
             \/ pc' = [pc EXCEPT ![t] = "open"] /\ view' = view
          /\ UNCHANGED <<ram, shadow, file, held, arg, pos, buffer, saved, torn>>
      BY <2>4 DEF EraseBegin, Goto, queues
    <3>2. TypeOK'
      BY <3>1
    <3>3. ASSUME NEW u \in Task PROVE CallOK!(u)'
      <4>1. CASE u = t
        BY <2>4, <3>1, <4>1 DEF EraseBegin
      <4>2. CASE u # t
        BY <3>1, <4>2
      <4> QED
        BY <4>1, <4>2
    <3> QED
      BY <3>2, <3>3
  <2>5. CASE EraseEnd(t)
    <3>1. Tail(view[t]) \in Seq(Item)
      BY <2>5, HeadTailProperties DEF EraseEnd
    <3> QED
      BY <1>0, <2>5, <3>1 DEF EraseEnd, Goto
  <2>6. CASE Open(t)
    BY <1>0, <2>6 DEF Open, Goto
  <2>7. CASE WriteHeader(t)
    BY <2>7, LenProperties DEF WriteHeader, Goto
  <2>8. CASE WriteRecord(t)
    <3>1. PICK x \in IF Disturbed(t) THEN Item ELSE {shadow[pos[t] + 1]} :
            buffer' = [buffer EXCEPT ![t] = Append(@, x)]
      BY <2>8 DEF WriteRecord
    <3>2. pos[t] + 1 \in 1 .. Len(shadow)
      BY <2>8, LenProperties DEF WriteRecord
    <3>3. x \in Item
      BY <3>1, <3>2, ElementOfSeq
    <3>4. Append(buffer[t], x) \in Seq(Item) /\ Len(Append(buffer[t], x)) = Len(buffer[t]) + 1
      BY <3>3, AppendProperties
    <3>5. Len(buffer[t]) + 1 <= Buffered
      BY <1>0, <2>8, LenProperties DEF WriteRecord
    <3> QED
      BY <2>8, <3>1, <3>4, <3>5 DEF WriteRecord, queues
  <2>9. CASE Drain(t)
    <3> DEFINE offset == pos[t] - Len(buffer[t])
               x == Head(buffer[t])
    <3>1. /\ file' = IF ~file.ok THEN file
                     ELSE IF offset < Len(file.recs)
                     THEN [file EXCEPT !.recs[offset + 1] = x]
                     ELSE [file EXCEPT !.recs = Append(@, x)]
          /\ buffer' = [buffer EXCEPT ![t] = Tail(@)] /\ buffer[t] # <<>>
      BY <2>9 DEF Drain
    <3>2. x \in Item /\ Tail(buffer[t]) \in Seq(Item) /\ Len(Tail(buffer[t])) = Len(buffer[t]) - 1
      BY <3>1, HeadTailProperties
    <3> HIDE DEF x, offset
    <3>3. Append(file.recs, x) \in Seq(Item) /\ [file.recs EXCEPT ![offset + 1] = x] \in Seq(Item)
      BY <3>2, AppendProperties, ReplaceKeeps
    <3>4. file' \in [ok : BOOLEAN, count : Nat, recs : Seq(Item)]
      BY <3>1, <3>3
    <3>5. Len(Tail(buffer[t])) <= Buffered
      BY <1>0, <3>2, LenProperties
    <3> QED
      BY <2>9, <3>1, <3>2, <3>4, <3>5 DEF Drain
  <2>10. ASSUME NEW outcome \in Saved, Return(t, outcome) PROVE TypeInv'
    BY <1>0, <2>10 DEF Return, Goto
  <2>11. CASE CloseFile(t) \/ PersistFails(t)
    BY <2>10, <2>11 DEF CloseFile, PersistFails, Saved
  <2> QED
    BY <1>5, <2>1, <2>2, <2>3, <2>4, <2>5, <2>6, <2>7, <2>8, <2>9, <2>11 DEF Continue
<1>6. ASSUME NEW f \in [ok : BOOLEAN, count : Nat, recs : Seq(Item)], NEW recs \in Seq(Item),
             Len(recs) <= Capacity, Boot(f, recs)
      PROVE  TypeInv'
  <2>1. saved' \in Saved /\ torn' \in BOOLEAN
    BY <1>6 DEF Boot, Saved
  <2> QED
    BY <1>0, <1>6, <2>1 DEF Boot
<1>7. CASE Reset \/ ResetUnread \/ ResetFormats
  <2>1. PICK f \in [ok : BOOLEAN, count : Nat, recs : Seq(Item)], recs \in Seq(Item) :
          Len(recs) <= Capacity /\ Boot(f, recs)
    BY <1>7, BootFinds DEF TypeInv, TypeOK
  <2> QED
    BY <1>6, <2>1
<1>8. CASE UNCHANGED vars
  BY <1>8 DEF vars
<1> QED
  BY <1>1, <1>2, <1>3, <1>4, <1>5, <1>7, <1>8 DEF Next, Begin

\* Whatever the interleaving, the state keeps its shape and the RAM queue its length.
THEOREM TypeCorrect == Spec => []TypeOK
<1>1. TypeInv => TypeOK
  BY DEF TypeInv
<1> QED
  BY <1>1, TypeInit, TypeStep, PTL DEF Spec

-----------------------------------------------------------------------------
(* The consumer acks what it sent.                                         *)

\* Producers only ever add at the tail, and the consumer is the only task that takes from the
\* head, so the head it peeked stays the head until it acks, however the tasks interleave.
THEOREM AckDropsHeld == Spec => []HeldIsHead
<1>1. Init => HeldIsHead
  BY DEF Init, HeldIsHead
<1>2. TypeInv /\ HeldIsHead /\ [Next]_vars => HeldIsHead'
  <2> SUFFICES ASSUME TypeInv, HeldIsHead, [Next]_vars PROVE HeldIsHead'
    OBVIOUS
  <2> USE DEF HeldIsHead
  <2>1. ASSUME NEW t \in Producer, NEW x \in Item, EnqueueSend(t, x) PROVE HeldIsHead'
    <3>1. ram \in Seq(Item)
      BY DEF TypeInv, TypeOK
    <3>2. Append(ram, x) # <<>> /\ (ram # <<>> => Head(Append(ram, x)) = Head(ram))
      BY <3>1, AppendProperties, HeadTailAppend
    <3> QED
      BY <2>1, <3>2 DEF EnqueueSend
  <2>2. CASE AckReceive
    BY <2>2 DEF AckReceive
  <2>3. CASE Peek
    BY <2>3 DEF Peek
  <2>4. CASE KeepHeld
    BY <2>4 DEF KeepHeld
  <2>5. ASSUME NEW t \in Task, Continue(t) PROVE HeldIsHead'
    <3>1. UNCHANGED <<ram, held>>
      BY <2>5 DEF Continue, PushCheck, PushBegin, PushEnd, EraseBegin, EraseEnd, Open,
                  WriteHeader, WriteRecord, Drain, CloseFile, PersistFails, Return, queues
    <3> QED
      BY <3>1
  <2>6. CASE Reset \/ ResetUnread \/ ResetFormats
    BY <2>6 DEF Reset, ResetUnread, ResetFormats, Boot
  <2>7. CASE UNCHANGED vars
    BY <2>7 DEF vars
  <2> QED
    BY <2>1, <2>2, <2>3, <2>4, <2>5, <2>6, <2>7 DEF Next, Begin
<1> QED
  BY <1>1, <1>2, TypeInit, TypeStep, PTL DEF Spec

-----------------------------------------------------------------------------
(* The mirror while no two calls have overlapped.                          *)

OneAtATime == \A t, u \in Task : pc[t] # "idle" /\ pc[u] # "idle" => t = u

\* Which of the three copies is ahead of the others at each stage of a call.
StageInv(t) ==
  /\ pc[t] \in {"push", "fits", "grow"} =>
       t # Consumer /\ Len(shadow) < Capacity /\ ram = Append(shadow, arg[t])
  /\ pc[t] = "grow" => view[t] = shadow
  /\ pc[t] \in {"erase", "shift"} => shadow # <<>> /\ ram = Tail(shadow)
  /\ pc[t] = "shift" => view[t] = shadow
  /\ pc[t] \in {"open", "header", "records"} => ram = shadow
  /\ pc[t] = "header" => file = NoSnapshot
  /\ pc[t] = "records" =>
       /\ file.ok /\ file.count = Len(shadow)
       /\ pos[t] <= Len(shadow) /\ file.recs \o buffer[t] = SubSeq(shadow, 1, pos[t])

SerialInv ==
  /\ OneAtATime
  /\ MirrorAtRest
  /\ \A t \in Task : StageInv(t)

Calm == ~torn => SerialInv

LEMMA CalmInit == Init => Calm
<1> SUFFICES ASSUME Init PROVE SerialInv
  BY DEF Calm
<1> QED
  BY DEF Init, SerialInv, OneAtATime, MirrorAtRest, StageInv, Quiet, Restores, Restorable, Loaded, NoSnapshot, Task

\* A task that moves on to another stage of its call, or starts one, leaves every other task
\* idle, so only its own stage is left to check.
LEMMA MoveOn ==
  ASSUME TypeInv, SerialInv, NEW t \in Task, NEW s \in Stage \ {"idle"},
         pc[t] # "idle" \/ Quiet, Goto(t, s)
  PROVE  /\ pc'[t] = s
         /\ StageInv(t)' => SerialInv'
<1>1. pc \in [Task -> Stage] /\ \A u \in Task : u # t => pc[u] = "idle"
  BY DEF TypeInv, TypeOK, SerialInv, OneAtATime, Quiet
<1>2. pc' = [u \in Task |-> IF u = t THEN s ELSE "idle"]
  BY <1>1 DEF Goto
<1>3. OneAtATime' /\ MirrorAtRest'
  BY <1>2 DEF OneAtATime, MirrorAtRest, Quiet
<1>4. \A u \in Task : u # t => StageInv(u)'
  BY <1>2 DEF StageInv
<1> QED
  BY <1>2, <1>3, <1>4 DEF SerialInv

\* One step of a call while it is the only one.
LEMMA SerialContinue ==
  ASSUME TypeInv, SerialInv, NEW t \in Task, Continue(t)
  PROVE  SerialInv'
<1>0. /\ Capacity \in Nat \ {0}
      /\ ram \in Seq(Item) /\ shadow \in Seq(Item) /\ Len(ram) <= Capacity
      /\ pos \in [Task -> Nat] /\ view \in [Task -> Seq(Item)] /\ arg \in [Task -> Item \cup {NoItem}]
      /\ file \in [ok : BOOLEAN, count : Nat, recs : Seq(Item)]
      /\ buffer \in [Task -> Seq(Item)] /\ Len(buffer[t]) <= Buffered
      /\ StageInv(t)
  BY QueueAssumption DEF TypeInv, TypeOK, SerialInv
<1>1. CASE PushCheck(t)
  <2>1. Goto(t, "fits")
    BY <1>0, <1>1 DEF PushCheck, StageInv
  <2>2. pc'[t] = "fits" /\ (StageInv(t)' => SerialInv')
    BY <1>1, <2>1, MoveOn DEF PushCheck, Stage
  <2> QED
    BY <1>0, <1>1, <2>2 DEF PushCheck, queues, StageInv
<1>2. CASE PushBegin(t)
  <2>1. pc'[t] = "grow" /\ (StageInv(t)' => SerialInv')
    BY <1>2, MoveOn DEF PushBegin, Stage
  <2>2. view'[t] = shadow
    BY <1>0, <1>2 DEF PushBegin
  <2> QED
    BY <1>0, <1>2, <2>1, <2>2 DEF PushBegin, queues, StageInv
<1>3. CASE PushEnd(t)
  <2>1. pc'[t] = "open" /\ (StageInv(t)' => SerialInv')
    BY <1>3, MoveOn DEF PushEnd, Stage
  <2> QED
    BY <1>0, <1>3, <2>1 DEF PushEnd, StageInv
<1>4. CASE EraseBegin(t)
  <2>1. Goto(t, "shift") /\ view' = [view EXCEPT ![t] = shadow]
    BY <1>0, <1>4 DEF EraseBegin, StageInv
  <2>2. pc'[t] = "shift" /\ (StageInv(t)' => SerialInv')
    BY <1>4, <2>1, MoveOn DEF EraseBegin, Stage
  <2>3. view'[t] = shadow
    BY <1>0, <2>1
  <2> QED
    BY <1>0, <1>4, <2>2, <2>3 DEF EraseBegin, queues, StageInv
<1>5. CASE EraseEnd(t)
  <2>1. pc'[t] = "open" /\ (StageInv(t)' => SerialInv')
    BY <1>5, MoveOn DEF EraseEnd, Stage
  <2> QED
    BY <1>0, <1>5, <2>1 DEF EraseEnd, StageInv
<1>6. CASE Open(t)
  <2>1. pc'[t] = "header" /\ (StageInv(t)' => SerialInv')
    BY <1>6, MoveOn DEF Open, Stage
  <2> QED
    BY <1>0, <1>6, <2>1 DEF Open, StageInv
<1>7. CASE WriteHeader(t)
  <2>1. pc'[t] = "records" /\ (StageInv(t)' => SerialInv')
    BY <1>7, MoveOn DEF WriteHeader, Stage
  <2>2. pos'[t] = 0 /\ 0 <= Len(shadow)
    BY <1>0, <1>7, LenProperties DEF WriteHeader
  <2>3. /\ file.recs = <<>>
        /\ file' = [file EXCEPT !.ok = TRUE, !.count = Len(shadow)]
    BY <1>0, <1>7 DEF WriteHeader, NoSnapshot, StageInv
  <2>4. buffer'[t] = <<>>
    BY <1>7 DEF WriteHeader, TypeInv, CallOK
  <2>5. file'.ok /\ file'.count = Len(shadow) /\ file'.recs \o buffer'[t] = SubSeq(shadow, 1, 0)
    BY <1>0, <2>3, <2>4, SubSeqEmpty, ConcatEmptySeq, EmptySeq
  <2> QED
    BY <1>0, <1>7, <2>1, <2>2, <2>5 DEF WriteHeader, StageInv
<1>8. CASE WriteRecord(t)
  <2>1. ~Disturbed(t)
    BY <1>8 DEF Disturbed, SerialInv, OneAtATime, WriteRecord
  <2>2. /\ file.ok /\ file.count = Len(shadow) /\ file.recs \o buffer[t] = SubSeq(shadow, 1, pos[t])
        /\ pos[t] \in Nat /\ pos[t] < Len(shadow)
    BY <1>0, <1>8 DEF WriteRecord, StageInv
  <2>3. buffer'[t] = Append(buffer[t], shadow[pos[t] + 1])
    BY <1>0, <1>8, <2>1 DEF WriteRecord
  <2>4. file.recs \o buffer'[t] = SubSeq(shadow, 1, pos[t] + 1)
    <3> DEFINE k == pos[t]
    <3>1. k \in Nat /\ k < Len(shadow) /\ file.recs \o buffer[t] = SubSeq(shadow, 1, k)
      BY <2>2
    <3> HIDE DEF k
    <3>2. Append(SubSeq(shadow, 1, k), shadow[k + 1]) = SubSeq(shadow, 1, k + 1) /\ shadow[k + 1] \in Item
      <4>1. k + 1 \in 1 .. Len(shadow)
        BY <1>0, <3>1, LenProperties
      <4> QED
        BY <1>0, <3>1, <4>1, AppendNext, ElementOfSeq
    <3>3. file.recs \o Append(buffer[t], shadow[k + 1]) = Append(file.recs \o buffer[t], shadow[k + 1])
      BY <1>0, <3>2, MoveBetweenParts
    <3>4. file.recs \o Append(buffer[t], shadow[k + 1]) = SubSeq(shadow, 1, k + 1)
      BY <3>1, <3>2, <3>3
    <3> QED
      BY <2>3, <3>4 DEF k
  <2>5. UNCHANGED <<file, shadow, ram>> /\ Goto(t, "records")
    BY <1>8 DEF WriteRecord, queues, Goto, TypeInv, TypeOK
  <2>6. pos'[t] = pos[t] + 1 /\ pos[t] + 1 <= Len(shadow)
    BY <1>0, <1>8, <2>2, LenProperties DEF WriteRecord
  <2>7. pc'[t] = "records" /\ (StageInv(t)' => SerialInv')
    BY <1>8, <2>5, MoveOn DEF WriteRecord, Stage
  <2> QED
    BY <1>0, <1>8, <2>2, <2>4, <2>5, <2>6, <2>7 DEF WriteRecord, StageInv
<1>9. CASE Drain(t)
  <2>1. /\ file.ok /\ file.count = Len(shadow) /\ file.recs \o buffer[t] = SubSeq(shadow, 1, pos[t])
        /\ pos[t] \in 0 .. Len(shadow) /\ buffer[t] # <<>>
    BY <1>0, <1>9, LenProperties DEF Drain, StageInv
  <2>2. pos[t] - Len(buffer[t]) = Len(file.recs) /\ Len(file.recs) \in Nat
    <3> DEFINE recs == file.recs
               kept == buffer[t]
               k == pos[t]
    <3>1. /\ recs \in Seq(Item) /\ kept \in Seq(Item) /\ k \in 0 .. Len(shadow)
          /\ recs \o kept = SubSeq(shadow, 1, k)
      BY <1>0, <2>1
    <3> HIDE DEF recs, kept, k
    <3>2. Len(recs) + Len(kept) = k /\ Len(recs) \in Nat /\ Len(kept) \in Nat
      BY <1>0, <3>1, PartsOfPrefix, LenProperties
    <3>3. k - Len(kept) = Len(recs) /\ Len(recs) \in Nat
      BY <3>2
    <3> QED
      BY <3>3 DEF recs, kept, k
  <2>3. file' = [file EXCEPT !.recs = Append(@, Head(buffer[t]))]
    BY <1>9, <2>1, <2>2 DEF Drain
  <2>4. Head(buffer[t]) \in Item
    BY <1>0, <2>1, HeadTailProperties
  <2>5. file'.recs = Append(file.recs, Head(buffer[t])) /\ file'.ok /\ file'.count = Len(shadow)
    BY <1>0, <2>1, <2>3
  <2>6. buffer'[t] = Tail(buffer[t])
    BY <1>0, <1>9 DEF Drain
  <2>7. file'.recs \o buffer'[t] = SubSeq(shadow, 1, pos[t])
    <3> DEFINE recs == file.recs
               kept == buffer[t]
    <3>1. recs \in Seq(Item) /\ kept \in Seq(Item) /\ kept # <<>>
      BY <1>0, <2>1
    <3> HIDE DEF recs, kept
    <3>2. Append(recs, Head(kept)) \o Tail(kept) = recs \o kept
      BY <3>1, MoveBetweenParts, HeadTailProperties
    <3> QED
      BY <2>1, <2>5, <2>6, <3>2 DEF recs, kept
  <2>8. Goto(t, "records")
    BY <1>9 DEF Drain, Goto, TypeInv, TypeOK
  <2>9. pc'[t] = "records" /\ (StageInv(t)' => SerialInv')
    BY <1>9, <2>8, MoveOn DEF Drain, Stage
  <2> QED
    BY <1>0, <1>9, <2>1, <2>5, <2>7, <2>9 DEF Drain, StageInv
<1>10. ASSUME NEW outcome \in Saved \ {"unread"}, pc[t] # "idle", Return(t, outcome), ram = shadow,
              outcome = "whole" => Restorable = ram,
              outcome = "short" =>
                IsPrefix(Restorable, ram) /\ Len(ram) - Len(Restorable) <= Buffered
       PROVE  SerialInv'
  <2>1. pc' = [u \in Task |-> "idle"]
    BY <1>10 DEF Return, Goto, SerialInv, OneAtATime, TypeInv, TypeOK
  <2>2. Restorable' = Restorable
    BY <1>10 DEF Return, Restorable
  <2>3. saved' = outcome /\ UNCHANGED <<ram, shadow, torn>>
    BY <1>10 DEF Return
  <2>4. MirrorAtRest'
    BY <1>10, <2>2, <2>3 DEF MirrorAtRest, Restores
  <2> QED
    BY <1>0, <2>1, <2>4 DEF SerialInv, OneAtATime, StageInv
<1>11. CASE CloseFile(t)
  <2>1. pos[t] = Len(shadow)
    BY <1>0, <1>11, LenProperties DEF CloseFile, StageInv
  <2>2. /\ file.ok /\ file.count = Len(shadow) /\ ram = shadow
        /\ file.recs \o buffer[t] = SubSeq(shadow, 1, pos[t])
    BY <1>0, <1>11, <2>1 DEF CloseFile, StageInv
  <2>3. /\ Len(file.recs) \in 0 .. Len(shadow) /\ Len(file.recs) + Len(buffer[t]) = Len(shadow)
        /\ IsPrefix(file.recs, shadow) /\ (buffer[t] = <<>> => file.recs = shadow)
    <3> DEFINE recs == file.recs
               kept == buffer[t]
               k == pos[t]
    <3>1. /\ recs \in Seq(Item) /\ kept \in Seq(Item) /\ shadow \in Seq(Item)
          /\ k \in 0 .. Len(shadow) /\ recs \o kept = SubSeq(shadow, 1, k)
      BY <1>0, <2>1, <2>2, LenProperties
    <3>2. k = Len(shadow)
      BY <2>1
    <3> HIDE DEF recs, kept, k
    <3>3. /\ Len(recs) \in 0 .. Len(shadow) /\ Len(recs) + Len(kept) = k
          /\ IsPrefix(recs, shadow)
          /\ kept = <<>> /\ k = Len(shadow) => recs = shadow
      BY <3>1, PartsOfPrefix
    <3> QED
      BY <3>2, <3>3 DEF recs, kept
  <2>4. Len(file.recs) <= file.count /\ Len(file.recs) <= Capacity
    BY <1>0, <2>2, <2>3, LenProperties
  <2>5. Restorable = file.recs
    BY <1>0, <2>2, <2>4, LoadedIsPrefix DEF Restorable
  <2>6. Len(ram) - Len(Restorable) <= Buffered
    <3>1. /\ Len(file.recs) \in Nat /\ Len(buffer[t]) \in Nat /\ Len(shadow) \in Nat
          /\ Buffered \in Nat
      BY <1>0, LenProperties, QueueAssumption
    <3> QED
      BY <1>0, <2>2, <2>3, <2>5, <3>1
  <2>7. PICK outcome \in {"whole", "short"} :
          Return(t, outcome) /\ (outcome = "whole" => buffer[t] = <<>>)
    BY <1>11 DEF CloseFile
  <2>8. pc[t] # "idle" /\ outcome \in Saved \ {"unread"}
    BY <1>11, <2>7 DEF CloseFile, Saved
  <2> QED
    BY <1>10, <2>2, <2>3, <2>5, <2>6, <2>7, <2>8
<1>12. CASE PersistFails(t)
  BY <1>0, <1>10, <1>12 DEF PersistFails, StageInv, Saved
<1> QED
  BY <1>1, <1>2, <1>3, <1>4, <1>5, <1>6, <1>7, <1>8, <1>9, <1>11, <1>12 DEF Continue

LEMMA CalmStep == TypeInv /\ Calm /\ [Next]_vars => Calm'
<1> SUFFICES ASSUME TypeInv, Calm, [Next]_vars, ~torn' PROVE SerialInv'
  BY DEF Calm
<1>0. /\ Capacity \in Nat \ {0} /\ Consumer \in Task
      /\ \A t \in Producer : t \in Task /\ t # Consumer
      /\ ram \in Seq(Item) /\ shadow \in Seq(Item)
      /\ arg \in [Task -> Item \cup {NoItem}]
  BY QueueAssumption DEF Task, TypeInv, TypeOK
<1>1. ASSUME NEW t \in Producer, NEW x \in Item, EnqueueSend(t, x) PROVE SerialInv'
  <2>1. Quiet /\ SerialInv /\ ram = shadow
    BY <1>1 DEF EnqueueSend, Calm, SerialInv, MirrorAtRest
  <2>2. pc'[t] = "push" /\ (StageInv(t)' => SerialInv')
    BY <1>0, <1>1, <2>1, MoveOn DEF EnqueueSend, Stage
  <2>3. arg'[t] = x
    BY <1>0, <1>1 DEF EnqueueSend
  <2> QED
    BY <1>0, <1>1, <2>1, <2>2, <2>3 DEF EnqueueSend, StageInv
<1>2. CASE AckReceive
  <2>1. Quiet /\ SerialInv /\ ram = shadow
    BY <1>2 DEF AckReceive, Calm, SerialInv, MirrorAtRest
  <2>2. pc'[Consumer] = "erase" /\ (StageInv(Consumer)' => SerialInv')
    BY <1>0, <1>2, <2>1, MoveOn DEF AckReceive, Stage
  <2> QED
    BY <1>0, <1>2, <2>1, <2>2 DEF AckReceive, StageInv
<1>3. CASE Peek \/ KeepHeld
  <2>1. /\ UNCHANGED <<ram, shadow, file>> /\ UNCHANGED calls
        /\ Restorable' = Restorable
    BY <1>3 DEF Peek, KeepHeld, Restorable
  <2> QED
    BY <2>1 DEF calls, Calm, SerialInv, OneAtATime, MirrorAtRest, Restores, Quiet, StageInv
<1>4. ASSUME NEW t \in Task, Continue(t) PROVE SerialInv'
  <2>1. torn' = torn
    BY <1>4 DEF Continue, PushCheck, PushBegin, PushEnd, EraseBegin, EraseEnd, Open,
                WriteHeader, WriteRecord, Drain, CloseFile, PersistFails, Return
  <2> QED
    BY <1>4, <2>1, SerialContinue DEF Calm
<1>5. CASE Reset \/ ResetUnread \/ ResetFormats
  <2>1. PICK f \in [ok : BOOLEAN, count : Nat, recs : Seq(Item)], recs \in Seq(Item) :
          IsPrefix(recs, Loaded(f)) /\ Boot(f, recs)
    BY <1>5, BootFinds DEF TypeInv, TypeOK
  <2>2. Restorable' = Loaded(f)
    BY <2>1 DEF Boot, Restorable
  <2>3. Restores(Restorable)'
    BY <2>1, <2>2 DEF Boot, Restores
  <2> QED
    BY <1>0, <2>1, <2>3 DEF Boot, SerialInv, OneAtATime, MirrorAtRest, StageInv
<1>6. CASE UNCHANGED vars
  BY <1>6 DEF vars, Calm, SerialInv, OneAtATime, MirrorAtRest, Restores, Quiet, Restorable, StageInv
<1> QED
  BY <1>1, <1>2, <1>3, <1>4, <1>5, <1>6 DEF Next, Begin

LEMMA CalmInvariant == Spec => [](TypeInv /\ Calm)
BY TypeInit, TypeStep, CalmInit, CalmStep, PTL DEF Spec

\* Until two calls overlap, the vector at rest is the RAM queue, and flash restores what the last
\* call or boot promises: the whole queue, or, when a last flush failed unseen, all but the
\* newest records that were held back, or at least what a boot with failing reads got.  It holds
\* wherever fopen, fwrite, fflush, fclose, fread or the mount fails and across any number of
\* resets, after which an earlier overlap is forgotten too.
THEOREM MirrorAtRestHolds == Spec => []MirrorAtRest
<1>1. Calm => MirrorAtRest
  BY DEF Calm, SerialInv, MirrorAtRest
<1> QED
  BY <1>1, CalmInvariant, PTL

-----------------------------------------------------------------------------
(* The mirror implements the durable queue.                                *)

\* What a lone call has written so far is a prefix of the queue.
LEMMA FlashIsPrefix ==
  ASSUME TypeInv', SerialInv', NEW t \in Task, Open(t) \/ WriteHeader(t) \/ Drain(t),
         TypeInv, StageInv(t)
  PROVE  \E n \in 0 .. Len(ram') : Restorable' = SubSeq(ram', 1, n)
<1>0. /\ ram' \in Seq(Item) /\ Len(ram') <= Capacity /\ Len(ram') \in Nat
      /\ Capacity \in Nat
      /\ file' \in [ok : BOOLEAN, count : Nat, recs : Seq(Item)]
      /\ StageInv(t)'
  BY QueueAssumption, LenProperties DEF TypeInv, TypeOK, SerialInv
<1>1. CASE Open(t) \/ WriteHeader(t)
  <2>1. file'.recs = <<>>
    <3>1. CASE Open(t)
      BY <3>1 DEF Open, NoSnapshot
    <3>2. CASE WriteHeader(t)
      <4>1. file.recs = <<>> /\ file' = [file EXCEPT !.ok = TRUE, !.count = Len(shadow)]
        BY <3>2 DEF WriteHeader, NoSnapshot, StageInv
      <4> QED
        BY <4>1 DEF TypeInv, TypeOK
    <3> QED
      BY <1>1, <3>1, <3>2
  <2>2. Restorable' = <<>>
    BY <1>0, <2>1, LoadedIsPrefix, EmptySeq DEF Restorable, Loaded
  <2>3. SubSeq(ram', 1, 0) = <<>> /\ 0 \in 0 .. Len(ram')
    BY <1>0, SubSeqEmpty
  <2> QED
    BY <2>2, <2>3
<1>2. CASE Drain(t)
  <2> DEFINE k == Len(file'.recs)
  <2>1. pc'[t] = "records"
    BY <1>2 DEF Drain
  <2>2. /\ file'.ok /\ file'.count = Len(ram') /\ pos'[t] \in 0 .. Len(ram')
        /\ file'.recs \o buffer'[t] = SubSeq(ram', 1, pos'[t])
    BY <1>0, <2>1 DEF StageInv, TypeInv, TypeOK
  <2>3. k \in 0 .. Len(ram') /\ file'.recs = SubSeq(ram', 1, k)
    <3> DEFINE recs == file'.recs
               kept == buffer'[t]
               n == pos'[t]
    <3>1. /\ recs \in Seq(Item) /\ kept \in Seq(Item) /\ n \in 0 .. Len(ram')
          /\ recs \o kept = SubSeq(ram', 1, n)
      BY <1>0, <2>2 DEF TypeInv, TypeOK
    <3> HIDE DEF recs, kept, n
    <3>2. Len(recs) \in 0 .. Len(ram') /\ recs = SubSeq(ram', 1, Len(recs))
      BY <1>0, <3>1, PartsOfPrefix
    <3> QED
      BY <3>2 DEF recs
  <2>4. Len(file'.recs) <= file'.count /\ Len(file'.recs) <= Capacity
    BY <1>0, <2>2, <2>3
  <2>5. Restorable' = file'.recs
    BY <1>0, <2>2, <2>4, LoadedIsPrefix DEF Restorable
  <2> QED
    BY <2>3, <2>5
<1> QED
  BY <1>1, <1>2

\* Both modules mean the same by a prefix.
LEMMA SamePrefix == \A a, b : DQ!IsPrefix(a, b) <=> IsPrefix(a, b)
BY DEF IsPrefix, DQ!IsPrefix

\* One step of a call is a write, a return, or nothing the abstract queue shows.
LEMMA ContinueRefines ==
  ASSUME TypeInv, TypeInv', SerialInv, SerialInv', ~torn, NEW t \in Task, Continue(t)
  PROVE  [DQ!DQNext]_(DQ!dqVars)
<1> USE DEF DQ!dqVars
<1>0. pc \in [Task -> Stage] /\ StageInv(t)
  BY DEF TypeInv, TypeOK, SerialInv
<1>1. pc[t] # "idle" /\ Quiet = FALSE
  BY DEF Continue, PushCheck, PushBegin, PushEnd, EraseBegin, EraseEnd, Open, WriteHeader,
         WriteRecord, Drain, CloseFile, PersistFails, Quiet
<1>2. UNCHANGED <<ram, torn>>
  BY DEF Continue, PushCheck, PushBegin, PushEnd, EraseBegin, EraseEnd, Open, WriteHeader,
         WriteRecord, Drain, CloseFile, PersistFails, Return, queues
<1>3. CASE CloseFile(t) \/ PersistFails(t)
  <2>1. PICK outcome \in {"whole", "short", "failed"} : Return(t, outcome)
    BY <1>3 DEF CloseFile, PersistFails
  <2>2. Quiet' = TRUE /\ saved' = outcome /\ Restorable' = Restorable
    BY <1>0, <1>1, <2>1 DEF Return, Goto, Quiet, SerialInv, OneAtATime, Restorable
  <2>3. /\ outcome = "whole" => Restorable' = ram
        /\ outcome = "short" => IsPrefix(Restorable', ram) /\ Len(ram) - Len(Restorable') <= Buffered
    BY <1>2, <2>2 DEF SerialInv, MirrorAtRest, Restores
  <2>4. DQ!DQReturn(outcome)
    BY <1>1, <1>2, <2>2, <2>3, SamePrefix, Zenon DEF DQ!DQReturn, DQ!Written
  <2> QED
    BY <2>4, Zenon DEF DQ!DQNext
<1>4. CASE Open(t) \/ WriteHeader(t) \/ Drain(t)
  <2>1. Quiet' = FALSE /\ saved' = saved
    BY <1>0, <1>4 DEF Open, WriteHeader, Drain, Goto, Quiet
  <2>2. \E n \in 0 .. Len(ram) : Restorable' = SubSeq(ram, 1, n)
    BY <1>0, <1>2, <1>4, FlashIsPrefix
  <2> QED
    BY <1>1, <1>2, <2>1, <2>2, Zenon DEF DQ!DQNext, DQ!DQWrite, DQ!Written
<1>5. CASE \/ PushCheck(t) \/ PushBegin(t) \/ PushEnd(t) \/ EraseBegin(t) \/ EraseEnd(t)
           \/ WriteRecord(t)
  <2>1. Quiet' = FALSE /\ saved' = saved /\ Restorable' = Restorable
    BY <1>0, <1>5 DEF PushCheck, PushBegin, PushEnd, EraseBegin, EraseEnd, WriteRecord, Goto,
                      Quiet, queues, Restorable
  <2> QED
    BY <1>1, <1>2, <2>1
<1> QED
  BY <1>3, <1>4, <1>5 DEF Continue

LEMMA RefinementStep ==
  ASSUME TypeInv, TypeInv', Calm, Calm', [Next]_vars
  PROVE  [DQ!DQNext]_(DQ!dqVars)
<1> USE DEF DQ!dqVars
<1>0. /\ Consumer \in Task /\ \A t \in Producer : t \in Task
      /\ pc \in [Task -> Stage]
  BY QueueAssumption DEF Task, TypeInv, TypeOK
<1>1. ASSUME NEW t \in Producer, NEW x \in Item, EnqueueSend(t, x) PROVE DQ!DQNext
  <2>1. Quiet' = FALSE /\ Restorable' = Restorable
    BY <1>0, <1>1 DEF EnqueueSend, Goto, Quiet, Restorable
  <2>2. Len(ram) < Capacity /\ ram' = Append(ram, x) /\ saved' = saved /\ torn' = (torn \/ ~Quiet)
    BY <1>1 DEF EnqueueSend
  <2> QED
    BY <2>1, <2>2, Zenon DEF DQ!DQNext, DQ!DQPut, DQ!DQBegin
<1>2. CASE AckReceive
  <2>1. Quiet' = FALSE /\ Restorable' = Restorable
    BY <1>0, <1>2 DEF AckReceive, Goto, Quiet, Restorable
  <2>2. ram # <<>> /\ ram' = Tail(ram) /\ saved' = saved /\ torn' = (torn \/ ~Quiet)
    BY <1>2 DEF AckReceive
  <2> QED
    BY <2>1, <2>2, Zenon DEF DQ!DQNext, DQ!DQTake, DQ!DQBegin
<1>3. ASSUME UNCHANGED <<ram, file, calls>> PROVE UNCHANGED DQ!dqVars
  BY <1>3 DEF calls, Quiet, Restorable
<1>4. CASE Peek \/ KeepHeld
  BY <1>3, <1>4 DEF Peek, KeepHeld
<1>5. ASSUME NEW t \in Task, Continue(t) PROVE [DQ!DQNext]_(DQ!dqVars)
  <2>1. UNCHANGED <<ram, torn>>
    BY <1>5 DEF Continue, PushCheck, PushBegin, PushEnd, EraseBegin, EraseEnd, Open,
                WriteHeader, WriteRecord, Drain, CloseFile, PersistFails, Return, queues
  <2>2. CASE ~torn
    BY <1>5, <2>1, <2>2, ContinueRefines DEF Calm
  <2>3. CASE torn
    <3>1. /\ Restorable' \in Seq(Item) /\ Len(Restorable') <= Capacity
          /\ Quiet' \in BOOLEAN
      BY LoadedIsPrefix DEF Restorable, Quiet, TypeInv, TypeOK
    <3>2. saved' \in {saved, "whole", "short", "failed"}
      BY <1>5 DEF Continue, PushCheck, PushBegin, PushEnd, EraseBegin, EraseEnd, Open,
                  WriteHeader, WriteRecord, Drain, CloseFile, PersistFails, Return
    <3> QED
      BY <2>1, <2>3, <3>1, <3>2, Zenon DEF DQ!DQNext, DQ!DQTornStep, DQ!Written
  <2> QED
    BY <2>2, <2>3
<1>6. CASE Reset \/ ResetUnread \/ ResetFormats
  <2>1. PICK f \in [ok : BOOLEAN, count : Nat, recs : Seq(Item)], recs \in Seq(Item) :
          (f = file \/ f = NoSnapshot) /\ IsPrefix(recs, Loaded(f)) /\ Boot(f, recs)
    BY <1>6, BootFinds DEF TypeInv, TypeOK
  <2>2. Loaded(NoSnapshot) = <<>>
    BY DEF Loaded, NoSnapshot
  <2>3. /\ Quiet' = TRUE /\ ram' = recs /\ Restorable' = Loaded(f) /\ torn' = FALSE
        /\ saved' = IF recs = Loaded(f) THEN "whole" ELSE "unread"
    BY <2>1 DEF Boot, Quiet, Restorable
  <2>4. Restorable' = Restorable \/ Restorable' = <<>>
    BY <2>1, <2>2, <2>3 DEF Restorable
  <2>5. DQ!DQCrash
    BY <2>1, <2>3, <2>4, SamePrefix, Zenon DEF DQ!DQCrash, DQ!Written
  <2> QED
    BY <2>5, Zenon DEF DQ!DQNext
<1>7. CASE UNCHANGED vars
  BY <1>3, <1>7 DEF vars, calls
<1> QED
  BY <1>1, <1>2, <1>4, <1>5, <1>6, <1>7 DEF Next, Begin

\* However its callers interleave, wherever storage fails and whenever the device resets, the
\* mirror is a durable queue: what a call that returned true leaves out of flash is at most the
\* newest records held back, a reset inside a call costs at most a suffix of the queue or brings
\* back the item being acked, a boot that cannot read brings back the oldest messages or none,
\* and only calls that overlap put anything else at risk.
THEOREM MirrorIsDurable == Spec => RefinesDurableQueue
<1>1. Init => DQ!DQInit
  BY DEF Init, DQ!DQInit, Quiet, Restorable, Loaded, NoSnapshot
<1>2. /\ TypeInv /\ Calm /\ TypeInv' /\ Calm' /\ [Next]_vars
        => [DQ!DQNext]_(DQ!dqVars)
  BY RefinementStep
<1> QED
  BY <1>1, <1>2, CalmInvariant, PTL DEF Spec, RefinesDurableQueue, DQ!DQSpec

=============================================================================
