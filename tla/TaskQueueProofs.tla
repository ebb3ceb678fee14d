--------------------------- MODULE TaskQueueProofs ---------------------------
(* Proofs about TaskQueue, for every set of jobs and every overlap of calls. *)
EXTENDS TaskQueue, FiniteSetTheorems, TLAPS

(* No step takes a variable out of its type: in particular the size of the   *)
(* list and the indices its readers keep stay below the capacity whatever    *)
(* the calls that overlap do to each other.                                  *)
LEMMA StepTypeOK == TypeOK /\ [Next]_vars => TypeOK'
<1> SUFFICES ASSUME TypeOK, [Next]_vars
             PROVE  TypeOK'
  OBVIOUS
<1> USE BoundsAreNat DEF TypeOK, Index, Slots, Labels, InAdd, InSend,
        InScan, InRemoveAt, Goto, Stay
<1>1. CASE UNCHANGED vars
  BY <1>1 DEF vars
<1>2. ASSUME NEW k \in Tasks, Post(k)
      PROVE  TypeOK'
  BY <1>2 DEF Post
<1>3. ASSUME NEW k \in Tasks, Grow(k)
      PROVE  TypeOK'
  BY <1>3 DEF Grow, GrowBy
<1>4. ASSUME NEW k \in Tasks, Fill(k)
      PROVE  TypeOK'
  BY <1>4 DEF Fill
<1>5. ASSUME NEW k \in Tasks, SendTask(k)
      PROVE  TypeOK'
  BY <1>5 DEF SendTask
<1>6. ASSUME NEW k \in Tasks, Find(k)
      PROVE  TypeOK'
  <2>1. at[k] \in Int /\ at[k] < Capacity
    OBVIOUS
  <2>2. CASE /\ at' = [at EXCEPT ![k] = at[k] - 1] /\ Stay
             /\ UNCHANGED <<items, size, read, found, printed>>
    <3>1. at[k] - 1 \in Index
      BY <2>1
    <3> QED
      BY <2>2, <3>1
  <2>3. CASE /\ UNCHANGED <<items, size, at, read, found, printed>>
             /\ \E l \in Labels : Goto(k, l)
    BY <2>3
  <2>4. CASE /\ found' = [found EXCEPT ![k] = TRUE] /\ Goto(k, "print")
             /\ UNCHANGED <<items, size, at, read, printed>>
    BY <2>4
  <2> QED
    BY <1>6, <2>2, <2>3, <2>4 DEF Find, FindTurn
<1>7. ASSUME NEW k \in Tasks, ProcessClientMessage(k) \/ DecompressFails(k)
      PROVE  TypeOK'
  BY <1>7 DEF ProcessClientMessage, DecompressFails
<1>8. ASSUME NEW k \in Tasks, Purge(k)
      PROVE  TypeOK'
  BY <1>8 DEF Purge
<1>9. ASSUME NEW k \in Tasks, Search(k)
      PROVE  TypeOK'
  <2>1. at[k] \in Int /\ at[k] < Capacity
    OBVIOUS
  <2>2. CASE /\ at' = [at EXCEPT ![k] = at[k] - 1] /\ Stay
             /\ UNCHANGED <<items, size, read, found, printed>>
    <3>1. at[k] - 1 \in Index
      BY <2>1
    <3> QED
      BY <2>2, <3>1
  <2>3. CASE /\ UNCHANGED <<items, size, at, read, found, printed>>
             /\ \E l \in Labels : Goto(k, l)
    BY <2>3
  <2> QED
    BY <1>9, <2>2, <2>3 DEF Search, SearchTurn
<1>10. ASSUME NEW k \in Tasks, Remove(k)
       PROVE  TypeOK'
  BY <1>10 DEF Remove
<1>11. ASSUME NEW k \in Tasks, Take(k)
       PROVE  TypeOK'
  BY <1>11 DEF Take
<1>12. ASSUME NEW k \in Tasks, Shrink(k)
       PROVE  TypeOK'
  BY <1>12 DEF Shrink
<1>13. ASSUME NEW k \in Tasks, Shift(k)
       PROVE  TypeOK'
  BY <1>13 DEF Shift, ShiftFrom
<1>14. ASSUME NEW k \in Tasks, Clear(k)
       PROVE  TypeOK'
  BY <1>14 DEF Clear
<1> QED
  BY <1>1, <1>2, <1>3, <1>4, <1>5, <1>6, <1>7, <1>8, <1>9, <1>10, <1>11,
     <1>12, <1>13, <1>14
     DEF Next, AddStep, SendStep, RemoveStep

(* The model of the queue keeps its types in every behaviour.                *)
THEOREM TypeCorrect == Spec => []TypeOK
<1>1. Init => TypeOK
  BY BoundsAreNat DEF Init, TypeOK, Index, Slots, Labels
<1> QED
  BY <1>1, StepTypeOK, PTL DEF Spec

-----------------------------------------------------------------------------
(* The queue keeps its promise as long as no two calls have been in each     *)
(* other's way (Clash). IInv says what the array looks like until then, at   *)
(* every step of the threads that look through it and of the one that        *)
(* changes it.                                                               *)

InWrite == InAdd \cup InRemoveAt

\* Where a job is between its Add and the move of RemoveAt.
Kept == {"queued", "find", "print", "purge", "search", "remove", "take",
         "shrink", "shift"}

Shifting == \E k \in Tasks : pc[k] = "shift"
Clearing == \E k \in Tasks : pc[k] = "clear"
End == IF Shifting THEN size + 1 ELSE size

OneWriter == \A k, l \in Tasks : pc[k] \in InWrite /\ pc[l] \in InWrite => k = l
OneRemover ==
  \A k, l \in Tasks : pc[k] \in InRemoveAt => pc[l] \notin InScan

\* The list holds the jobs that are kept, each of them once, and RemoveAt has
\* at most one slot after the last still to empty.
KeptIsThere == \A k \in Tasks : pc[k] \in Kept => \E i \in 1..End : items[i] = k
ThereIsKept ==
  \A i \in Slots : items[i] # Null =>
    \/ i <= End /\ pc[items[i]] \in Kept
    \/ Clearing /\ i = size + 1
Once == \A i, j \in 1..End : items[i] = items[j] /\ items[i] # Null => i = j

\* What a thread inside the list has read is still so.
ReadIsTrue ==
  \A k \in Tasks :
    /\ pc[k] \in {"grow", "shrink"} => read[k] = size
    /\ pc[k] = "fill" =>
         read[k] \in Nat /\ size = read[k] + 1 /\ items[size] = Null

\* A scan has not passed its job by.
ScanIsAhead ==
  \A k \in Tasks :
    /\ pc[k] \in {"find", "search"} =>
         at[k] <= size /\ \E i \in 1..at[k] : items[i] = k
    /\ pc[k] \in {"remove", "take", "shrink", "shift"} =>
         at[k] \in 1..End /\ items[at[k]] = k

PrintsText ==
  \A k \in Tasks :
    /\ pc[k] = "print" => found[k]
    /\ pc[k] \in {"purge", "search", "remove", "take", "shrink", "shift",
                  "clear", "done"} => printed[k] \in {"text", "garbled"}

Apart == OneWriter /\ OneRemover

IInv ==
  /\ TypeOK /\ size \in Nat
  /\ Apart
  /\ KeptIsThere /\ ThereIsKept /\ Once
  /\ ReadIsTrue /\ ScanIsAhead /\ PrintsText

\* Calls that do not clash are one writer and its readers, and the step that
\* leaves inTurn true does not make them clash.
LEMMA ApartIsNoClash == ~Clash <=> Apart
  BY DEF Clash, Apart, OneWriter, OneRemover, InWrite, InAdd, InRemoveAt, InScan

LEMMA InTurnIsApart ==
  ASSUME IInv, inTurn', [Next]_vars
  PROVE  inTurn /\ Apart'
<1> USE DEF IInv, Goto, Stay
<1>1. (~Clash)' <=> Apart'
  BY ApartIsNoClash, PTL
<1>2. CASE UNCHANGED <<pc, inTurn>>
  BY <1>2 DEF Apart, OneWriter, OneRemover
<1>3. CASE inTurn' = (inTurn /\ ~Clash')
  BY <1>1, <1>3
<1> QED
  BY <1>2, <1>3
     DEF vars, Next, AddStep, SendStep, RemoveStep, Post, Grow, GrowBy, Fill,
         SendTask, Find, FindTurn, ProcessClientMessage, DecompressFails,
         Purge, Search, SearchTurn, Remove, Take, Shrink, Shift, ShiftFrom,
         Clear

LEMMA InitIsFine == Init => IInv
  BY BoundsAreNat, NullIsNoTask
     DEF Init, IInv, TypeOK, Index, Slots, Labels, Apart, OneWriter, OneRemover,
         InWrite, InAdd, InRemoveAt, InScan, KeptIsThere, Kept, ThereIsKept,
         Once, End, Shifting, ReadIsTrue, ScanIsAhead, PrintsText

LEMMA AddIsFine ==
  ASSUME IInv, TypeOK', Apart', NEW k \in Tasks, Post(k) \/ AddStep(k)
  PROVE  IInv'
<1> USE BoundsAreNat, NullIsNoTask
    DEF IInv, TypeOK, Index, Slots, InAdd, InRemoveAt, InScan, InSend, InWrite,
        Kept, Apart, Goto, End, Shifting, Clearing
<1>1. ASSUME Post(k) PROVE IInv'
  <2>1. \A l \in Tasks : pc[l] \notin InWrite
    <3>1. pc[k] = "new" /\ pc' = [pc EXCEPT ![k] = "grow"]
      BY <1>1 DEF Post
    <3>2. ASSUME NEW l \in Tasks, pc[l] \in InWrite PROVE FALSE
      <4>1. l # k /\ pc'[l] \in InWrite /\ pc'[k] \in InWrite
        BY <3>1, <3>2
      <4> QED BY <4>1 DEF OneWriter
    <3> QED BY <3>2
  <2>2. /\ pc[k] = "new" /\ pc' = [pc EXCEPT ![k] = "grow"]
        /\ read' = [read EXCEPT ![k] = size]
        /\ UNCHANGED <<items, size, at, found, printed>>
    BY <1>1 DEF Post
  <2>3. KeptIsThere' /\ ThereIsKept' /\ Once'
    <3>1. ~Shifting /\ ~Clearing /\ ~Shifting' /\ ~Clearing'
      BY <2>1, <2>2
    <3>2. \A l \in Tasks : pc[l] \in Kept <=> pc'[l] \in Kept
      BY <2>2
    <3>3. KeptIsThere' /\ Once'
      BY <2>2, <3>1, <3>2 DEF KeptIsThere, Once
    <3>4. ThereIsKept'
      BY <2>2, <3>1, <3>2 DEF ThereIsKept
    <3> QED BY <3>3, <3>4
  <2>4. ReadIsTrue' /\ ScanIsAhead' /\ PrintsText'
    BY <2>1, <2>2 DEF ReadIsTrue, ScanIsAhead, PrintsText
  <2> QED BY <2>2, <2>3, <2>4
<1>2. ASSUME Grow(k) PROVE IInv'
  <2>1. /\ pc[k] = "grow" /\ ~Shifting /\ ~Clearing /\ ~Shifting' /\ ~Clearing'
    BY <1>2 DEF Grow, GrowBy, OneWriter
  <2>2. size' = size + 1 /\ size' \in Nat /\ items' = items
    BY <1>2, <2>1 DEF Grow, GrowBy, ReadIsTrue
  <2>3. OneWriter' /\ OneRemover'
    OBVIOUS
  <2>4. items[size + 1] = Null
    BY <1>2, <2>1, <2>2 DEF Grow, GrowBy, ThereIsKept, ReadIsTrue
  <2>5. KeptIsThere' /\ ThereIsKept' /\ Once'
    BY <1>2, <2>1, <2>2, <2>4 DEF Grow, GrowBy, KeptIsThere, ThereIsKept, Once
  <2>6. ReadIsTrue' /\ ScanIsAhead' /\ PrintsText'
    BY <1>2, <2>1, <2>2, <2>4 DEF Grow, GrowBy, OneWriter, ReadIsTrue,
       ScanIsAhead, PrintsText
  <2> QED BY <2>2, <2>3, <2>5, <2>6
<1>3. ASSUME Fill(k) PROVE IInv'
  <2>1. /\ pc[k] = "fill" /\ ~Shifting /\ ~Clearing
        /\ read[k] \in Nat /\ size = read[k] + 1 /\ items[size] = Null
    BY <1>3 DEF Fill, OneWriter, ReadIsTrue
  <2>2. /\ pc' = [pc EXCEPT ![k] = "queued"]
        /\ items' = [items EXCEPT ![size] = k]
        /\ UNCHANGED <<size, at, read, found, printed>>
    BY <1>3, <2>1 DEF Fill
  <2>3. ~Shifting' /\ ~Clearing' /\ size \in Slots
    BY <2>1, <2>2
  <2>4. \A i \in Slots : items[i] # k
    BY <2>1 DEF ThereIsKept
  <2>5. OneWriter' /\ OneRemover'
    OBVIOUS
  <2>6. KeptIsThere'
    <3> SUFFICES ASSUME NEW l \in Tasks, pc'[l] \in Kept
                 PROVE  \E i \in 1..size : items'[i] = l
      BY <2>2, <2>3 DEF KeptIsThere
    <3>1. CASE l = k
      BY <2>2, <2>3, <3>1
    <3>2. CASE l # k
      <4>1. PICK i \in 1..size : items[i] = l
        BY <2>1, <2>2, <3>2 DEF KeptIsThere
      <4>2. i # size /\ i \in Slots
        BY <2>1, <4>1
      <4> QED BY <2>2, <4>1, <4>2
    <3> QED BY <3>1, <3>2
  <2>7. ThereIsKept'
    BY <2>1, <2>2, <2>3 DEF ThereIsKept
  <2>8. Once'
    BY <2>1, <2>2, <2>3, <2>4 DEF Once
  <2>9. ReadIsTrue'
    BY <2>1, <2>2 DEF ReadIsTrue, OneWriter
  <2>10. ScanIsAhead'
    <3> SUFFICES ASSUME NEW l \in Tasks
                 PROVE /\ pc'[l] \in {"find", "search"} =>
                            at[l] <= size /\ \E i \in 1..at[l] : items'[i] = l
                       /\ pc'[l] \in {"remove", "take", "shrink", "shift"} =>
                            at[l] \in 1..size /\ items'[at[l]] = l
      BY <2>2, <2>3 DEF ScanIsAhead
    <3>1. CASE l = k
      BY <2>2, <3>1
    <3>2. CASE l # k
      <4>1. pc'[l] = pc[l] /\ at[l] \in Int
        BY <2>2, <3>2
      <4>2. ASSUME pc[l] \in {"find", "search"}
            PROVE  at[l] <= size /\ \E i \in 1..at[l] : items'[i] = l
        <5>1. PICK i \in 1..at[l] : items[i] = l /\ at[l] <= size
          BY <4>2 DEF ScanIsAhead
        <5>2. i # size /\ i \in Slots
          BY <2>1, <5>1
        <5> QED BY <2>2, <5>1, <5>2
      <4>3. ASSUME pc[l] \in {"remove", "take", "shrink", "shift"}
            PROVE  at[l] \in 1..size /\ items'[at[l]] = l
        <5>1. at[l] \in 1..size /\ items[at[l]] = l
          BY <2>1, <4>3 DEF ScanIsAhead
        <5>2. at[l] # size
          BY <2>1, <5>1
        <5> QED BY <2>2, <5>1, <5>2
      <4> QED BY <4>1, <4>2, <4>3
    <3> QED BY <3>1, <3>2
  <2>11. PrintsText'
    BY <2>2 DEF PrintsText
  <2> QED BY <2>1, <2>2, <2>5, <2>6, <2>7, <2>8, <2>9, <2>10, <2>11
<1> QED BY <1>1, <1>2, <1>3 DEF AddStep

\* A step of a call that leaves the list as it is keeps what is said of it.
LEMMA LookingIsFine ==
  ASSUME IInv, NEW k \in Tasks, NEW label \in Kept,
         pc[k] \in Kept \ {"shift"}, label # "shift",
         pc' = [pc EXCEPT ![k] = label], UNCHANGED <<items, size>>
  PROVE  KeptIsThere' /\ ThereIsKept' /\ Once' /\ End' = End
<1> USE DEF IInv, TypeOK, Kept
<1>1. (Shifting' <=> Shifting) /\ (Clearing' <=> Clearing) /\ End' = End
  BY DEF Shifting, Clearing, End
<1>2. \A l \in Tasks : pc[l] \in Kept <=> pc'[l] \in Kept
  OBVIOUS
<1>3. KeptIsThere' /\ Once'
  BY <1>1, <1>2 DEF KeptIsThere, Once
<1>4. ThereIsKept'
  <2> SUFFICES ASSUME NEW i \in Slots, items[i] # Null
               PROVE  \/ i <= End /\ pc'[items[i]] \in Kept
                      \/ Clearing /\ i = size + 1
    BY <1>1 DEF ThereIsKept
  <2> QED BY <1>2 DEF ThereIsKept
<1> QED BY <1>1, <1>3, <1>4

LEMMA ScanIsFine ==
  ASSUME IInv, TypeOK', Apart', NEW k \in Tasks,
         \/ SendTask(k) \/ Find(k) \/ ProcessClientMessage(k)
         \/ DecompressFails(k) \/ Purge(k) \/ Search(k) \/ Remove(k) \/ Take(k)
  PROVE  IInv'
<1> USE BoundsAreNat, NullIsNoTask
    DEF IInv, TypeOK, Index, Slots, InAdd, InRemoveAt, InScan, InSend, InWrite,
        Apart, Goto, Stay
<1>1. ASSUME SendTask(k) PROVE IInv'
  <2>1. /\ pc[k] = "queued" /\ pc' = [pc EXCEPT ![k] = "find"]
        /\ at' = [at EXCEPT ![k] = size]
        /\ UNCHANGED <<items, size, read, found, printed>>
    BY <1>1 DEF SendTask
  <2>2. KeptIsThere' /\ ThereIsKept' /\ Once' /\ End' = End
    BY <2>1, LookingIsFine DEF Kept
  <2>3. ReadIsTrue' /\ PrintsText'
    BY <2>1 DEF ReadIsTrue, PrintsText
  <2>4. End = size /\ \E i \in 1..size : items[i] = k
    BY <2>1 DEF OneRemover, Shifting, KeptIsThere, Kept, End
  <2>5. ScanIsAhead'
    BY <2>1, <2>2, <2>4 DEF ScanIsAhead
  <2> QED BY <2>1, <2>2, <2>3, <2>5
<1>2. ASSUME pc[k] \in InScan PROVE ~Shifting /\ End = size
  BY <1>2 DEF OneRemover, Shifting, End
<1>3. ASSUME NEW from \in {"find", "search"}, NEW to \in {"print", "remove"},
             pc[k] = from, (from = "find") <=> (to = "print"),
             found' = found \/ found' = [found EXCEPT ![k] = TRUE],
             from = "find" => found' = [found EXCEPT ![k] = TRUE],
             items[at[k]] = k, at[k] \in 1..size,
             pc' = [pc EXCEPT ![k] = to],
             UNCHANGED <<items, size, at, read, printed>>
      PROVE  IInv'
  <2>1. KeptIsThere' /\ ThereIsKept' /\ Once' /\ End' = End
    BY <1>3, LookingIsFine DEF Kept
  <2>2. ReadIsTrue' /\ PrintsText'
    BY <1>3 DEF ReadIsTrue, PrintsText
  <2>3. ScanIsAhead'
    BY <1>2, <1>3, <2>1 DEF ScanIsAhead
  <2> QED BY <1>3, <2>1, <2>2, <2>3
<1>4. ASSUME pc[k] \in {"find", "search"}, items[at[k]] # k,
             at' = [at EXCEPT ![k] = at[k] - 1],
             UNCHANGED <<pc, items, size, read, found, printed>>
      PROVE  IInv'
  <2>1. PICK i \in 1..at[k] : items[i] = k /\ at[k] <= size
    BY <1>4 DEF ScanIsAhead
  <2>2. i # at[k] /\ at[k] \in Int /\ i \in 1..(at[k] - 1)
    BY <1>4, <2>1
  <2>3. UNCHANGED <<Shifting, Clearing, End>>
    BY <1>4 DEF Shifting, Clearing, End
  <2>4. ScanIsAhead'
    BY <1>4, <2>1, <2>2, <2>3 DEF ScanIsAhead
  <2> QED BY <1>4, <2>3, <2>4 DEF KeptIsThere, ThereIsKept, Once, ReadIsTrue,
          PrintsText
<1>5. ASSUME pc[k] \in {"find", "search"}
      PROVE  at[k] \in 1..size /\ size \in Int
  BY <1>5 DEF ScanIsAhead
<1>6. ASSUME Find(k) PROVE IInv'
  BY <1>3, <1>4, <1>5, <1>6 DEF Find, FindTurn
<1>7. ASSUME Search(k) PROVE IInv'
  BY <1>3, <1>4, <1>5, <1>7 DEF Search, SearchTurn
<1>8. ASSUME ProcessClientMessage(k) \/ DecompressFails(k) PROVE IInv'
  <2>1. /\ pc[k] = "print" /\ pc' = [pc EXCEPT ![k] = "purge"]
        /\ \E x \in {"text", "garbled"} :
             printed' = [printed EXCEPT ![k] = x]
        /\ UNCHANGED <<items, size, at, read, found>>
    BY <1>8 DEF ProcessClientMessage, DecompressFails, PrintsText
  <2>2. KeptIsThere' /\ ThereIsKept' /\ Once' /\ End' = End
    BY <2>1, LookingIsFine DEF Kept
  <2>3. ReadIsTrue' /\ PrintsText'
    BY <2>1 DEF ReadIsTrue, PrintsText
  <2>4. ScanIsAhead'
    BY <2>1, <2>2 DEF ScanIsAhead
  <2> QED BY <2>1, <2>2, <2>3, <2>4
<1>9. ASSUME Purge(k) PROVE IInv'
  <2>1. /\ pc[k] = "purge" /\ pc' = [pc EXCEPT ![k] = "search"]
        /\ at' = [at EXCEPT ![k] = size]
        /\ UNCHANGED <<items, size, read, found, printed>>
    BY <1>9 DEF Purge
  <2>2. KeptIsThere' /\ ThereIsKept' /\ Once' /\ End' = End
    BY <2>1, LookingIsFine DEF Kept
  <2>3. ReadIsTrue' /\ PrintsText'
    BY <2>1 DEF ReadIsTrue, PrintsText
  <2>4. End = size /\ \E i \in 1..size : items[i] = k
    BY <2>1 DEF OneRemover, Shifting, KeptIsThere, Kept, End
  <2>5. ScanIsAhead'
    BY <2>1, <2>2, <2>4 DEF ScanIsAhead
  <2> QED BY <2>1, <2>2, <2>3, <2>5
<1>10. ASSUME Remove(k) \/ Take(k) PROVE IInv'
  <2>1. /\ pc[k] \in {"remove", "take"} /\ ~Shifting /\ End = size
    BY <1>10 DEF Remove, Take, OneWriter, OneRemover, End, Shifting
  <2>2. at[k] \in 1..size /\ items[at[k]] = k
    BY <2>1 DEF ScanIsAhead
  <2>3. PICK label \in {"take", "shrink"} :
          /\ pc' = [pc EXCEPT ![k] = label]
          /\ label = "shrink" => /\ pc[k] = "take"
                                 /\ read' = [read EXCEPT ![k] = size]
          /\ label = "take" => pc[k] = "remove" /\ UNCHANGED read
          /\ UNCHANGED <<items, size, at, found, printed>>
    BY <1>10, <2>1, <2>2 DEF Remove, Take
  <2>4. KeptIsThere' /\ ThereIsKept' /\ Once' /\ End' = End
    BY <2>1, <2>3, LookingIsFine DEF Kept
  <2>5. PrintsText'
    BY <2>1, <2>3 DEF PrintsText
  <2>6. ReadIsTrue'
    BY <2>1, <2>3 DEF ReadIsTrue
  <2>7. ScanIsAhead'
    BY <2>1, <2>2, <2>3, <2>4 DEF ScanIsAhead
  <2> QED BY <2>3, <2>4, <2>5, <2>6, <2>7
<1> QED BY <1>1, <1>6, <1>7, <1>8, <1>9, <1>10

\* The thread that removes is the only one in the list.
LEMMA RemoverIsAlone ==
  ASSUME IInv, NEW k \in Tasks, pc[k] \in InRemoveAt
  PROVE  \A l \in Tasks : l # k => pc[l] \notin InWrite \cup InScan
  BY DEF IInv, Apart, OneWriter, OneRemover, InWrite, InAdd, InRemoveAt, InScan

LEMMA ShrinkIsFine ==
  ASSUME IInv, TypeOK', Apart', NEW k \in Tasks, Shrink(k)
  PROVE  IInv'
<1> USE BoundsAreNat, NullIsNoTask
    DEF IInv, TypeOK, Index, Slots, InAdd, InRemoveAt, InScan, InSend, InWrite,
        Apart, Goto, Stay
<1>1. /\ pc[k] = "shrink" /\ pc' = [pc EXCEPT ![k] = "shift"]
      /\ \A l \in Tasks : l # k => pc[l] \notin InWrite \cup InScan
      /\ UNCHANGED <<items, at, read, found, printed>>
  BY RemoverIsAlone DEF Shrink
<1>2. /\ ~Shifting /\ ~Clearing /\ Shifting' /\ ~Clearing'
  BY <1>1 DEF Shifting, Clearing
<1>3. at[k] \in 1..size /\ items[at[k]] = k
  BY <1>1, <1>2 DEF ScanIsAhead, End
<1>4. size' = size - 1 /\ size' \in Nat
  BY <1>1, <1>3 DEF Shrink, ReadIsTrue
<1>5. End' = End
  BY <1>2, <1>4 DEF End
<1>6. \A l \in Tasks : pc'[l] \in Kept <=> pc[l] \in Kept
  BY <1>1 DEF Kept
<1>7. KeptIsThere' /\ Once'
  BY <1>1, <1>5, <1>6 DEF KeptIsThere, Once
<1>8. ThereIsKept'
  <2> SUFFICES ASSUME NEW i \in Slots, items[i] # Null
               PROVE  i <= End /\ pc'[items[i]] \in Kept
    BY <1>1, <1>5 DEF ThereIsKept
  <2> QED BY <1>2, <1>6 DEF ThereIsKept
<1>9. ReadIsTrue' /\ PrintsText'
  BY <1>1 DEF ReadIsTrue, PrintsText
<1>10. ScanIsAhead'
  BY <1>1, <1>2, <1>3, <1>4, <1>5 DEF ScanIsAhead, End
<1> QED BY <1>4, <1>7, <1>8, <1>9, <1>10

LEMMA ShiftIsFine ==
  ASSUME IInv, TypeOK', Apart', NEW k \in Tasks, Shift(k)
  PROVE  IInv' /\ pc[k] = "shift" /\ pc' = [pc EXCEPT ![k] = "clear"]
<1> USE BoundsAreNat, NullIsNoTask
    DEF IInv, TypeOK, Index, Slots, InAdd, InRemoveAt, InScan, InSend, InWrite,
        Apart, Goto, Stay
<1>1. /\ pc[k] = "shift" /\ pc' = [pc EXCEPT ![k] = "clear"]
      /\ \A l \in Tasks : l # k => pc[l] \notin InWrite \cup InScan
      /\ UNCHANGED <<size, at, read, found, printed>>
  BY RemoverIsAlone DEF Shift, ShiftFrom
<1>2. /\ Shifting /\ ~Clearing /\ ~Shifting' /\ Clearing'
      /\ End = size + 1 /\ End' = size
  BY <1>1 DEF Shifting, Clearing, End
<1>3. at[k] \in 1..(size + 1) /\ items[at[k]] = k
  BY <1>1, <1>2 DEF ScanIsAhead
<1>4. /\ \A i \in Slots : i < at[k] => items'[i] = items[i]
      /\ \A i \in Slots : i >= at[k] /\ i <= size => items'[i] = items[i + 1]
      /\ \A i \in Slots : i > size => items'[i] = items[i]
  BY <1>3 DEF Shift, ShiftFrom
<1>5. \A i \in 1..(size + 1) : items[i] = k => i = at[k]
  BY <1>2, <1>3 DEF Once
<1>6. KeptIsThere'
  <2> SUFFICES ASSUME NEW l \in Tasks, pc'[l] \in Kept
               PROVE  \E i \in 1..size : items'[i] = l
    BY <1>2 DEF KeptIsThere
  <2>1. l # k /\ pc[l] \in Kept
    BY <1>1 DEF Kept
  <2>2. PICK i \in 1..(size + 1) : items[i] = l
    BY <1>2, <2>1 DEF KeptIsThere
  <2>3. i # at[k]
    BY <1>3, <2>1, <2>2
  <2>4. CASE i < at[k]
    BY <1>3, <1>4, <2>2, <2>4
  <2>5. CASE i > at[k]
    <3>1. i - 1 \in 1..size /\ i - 1 \in Slots /\ i - 1 >= at[k]
      BY <1>3, <2>5
    <3>2. items'[i - 1] = items[i]
      BY <1>4, <3>1
    <3> QED BY <2>2, <3>1, <3>2
  <2> QED BY <1>3, <2>3, <2>4, <2>5
<1>7. ThereIsKept'
  <2> SUFFICES ASSUME NEW i \in Slots, items'[i] # Null
               PROVE  \/ i <= size /\ pc'[items'[i]] \in Kept
                      \/ i = size + 1
    BY <1>1, <1>2 DEF ThereIsKept
  <2>1. CASE i > size
    <3>1. items[i] # Null
      BY <1>4, <2>1
    <3> QED BY <1>2, <2>1, <3>1 DEF ThereIsKept
  <2>2. CASE i <= size
    <3>1. PICK j \in 1..(size + 1) : items'[i] = items[j] /\ j # at[k]
      <4>1. CASE i < at[k]
        BY <1>4, <2>2, <4>1
      <4>2. CASE i >= at[k]
        BY <1>3, <1>4, <2>2, <4>2
      <4> QED BY <1>3, <4>1, <4>2
    <3>2. j \in Slots /\ items[j] # k
      BY <1>5, <3>1
    <3>3. pc[items[j]] \in Kept /\ items[j] \in Tasks
      BY <1>2, <3>1, <3>2 DEF ThereIsKept
    <3> QED BY <1>1, <2>2, <3>1, <3>2, <3>3
  <2> QED BY <2>1, <2>2
<1>8. Once'
  <2> SUFFICES ASSUME NEW i \in 1..size, NEW j \in 1..size,
                      items'[i] = items'[j], items'[i] # Null
               PROVE  i = j
    BY <1>2 DEF Once
  <2> DEFINE at0(n) == IF n < at[k] THEN n ELSE n + 1
  <2>1. /\ at0(i) \in 1..(size + 1) /\ at0(j) \in 1..(size + 1)
    OBVIOUS
  <2>2. items'[i] = items[at0(i)] /\ items'[j] = items[at0(j)]
    BY <1>3, <1>4
  <2>3. at0(i) = at0(j)
    BY <1>2, <2>1, <2>2 DEF Once
  <2> QED BY <1>3, <2>3
<1>9. ReadIsTrue' /\ ScanIsAhead' /\ PrintsText'
  BY <1>1 DEF ReadIsTrue, ScanIsAhead, PrintsText
<1> QED BY <1>1, <1>6, <1>7, <1>8, <1>9

LEMMA ClearIsFine ==
  ASSUME IInv, TypeOK', Apart', NEW k \in Tasks, Clear(k)
  PROVE  IInv'
<1> USE BoundsAreNat, NullIsNoTask
    DEF IInv, TypeOK, Index, Slots, InAdd, InRemoveAt, InScan, InSend, InWrite,
        Apart, Goto, Stay
<1>1. /\ pc[k] = "clear" /\ pc' = [pc EXCEPT ![k] = "done"]
      /\ \A l \in Tasks : l # k => pc[l] \notin InWrite \cup InScan
      /\ UNCHANGED <<size, at, read, found, printed>>
      /\ items' = [i \in Slots |-> IF i = size + 1 THEN Null ELSE items[i]]
  BY RemoverIsAlone DEF Clear
<1>2. ~Shifting /\ ~Shifting' /\ ~Clearing' /\ End = size /\ End' = size
  BY <1>1 DEF Shifting, Clearing, End
<1>3. KeptIsThere' /\ Once'
  <2>1. \A i \in 1..size : i \in Slots /\ items'[i] = items[i]
    BY <1>1
  <2>2. \A l \in Tasks : pc'[l] \in Kept => pc[l] \in Kept
    BY <1>1 DEF Kept
  <2>3. KeptIsThere'
    BY <1>1, <1>2, <2>1, <2>2 DEF KeptIsThere
  <2>4. Once'
    BY <1>1, <1>2, <2>1 DEF Once
  <2> QED BY <2>3, <2>4
<1>4. ThereIsKept'
  BY <1>1, <1>2 DEF ThereIsKept, Kept
<1>5. ReadIsTrue' /\ ScanIsAhead' /\ PrintsText'
  BY <1>1 DEF ReadIsTrue, ScanIsAhead, PrintsText
<1> QED BY <1>1, <1>3, <1>4, <1>5

LEMMA StepsAreFine == IInv /\ inTurn' /\ [Next]_vars => IInv'
<1> SUFFICES ASSUME IInv, inTurn', [Next]_vars PROVE IInv'
  OBVIOUS
<1>1. TypeOK' /\ Apart'
  BY StepTypeOK, InTurnIsApart DEF IInv
<1>2. CASE UNCHANGED vars
  BY <1>2 DEF vars, IInv, TypeOK, Apart, OneWriter, OneRemover, KeptIsThere,
     End, Shifting, Clearing, ThereIsKept, Once, ReadIsTrue, ScanIsAhead,
     PrintsText
<1> QED BY <1>1, <1>2, AddIsFine, ScanIsFine, ShrinkIsFine, ShiftIsFine,
        ClearIsFine DEF Next, SendStep, RemoveStep

\* Whoever is not in turn now never is again.
LEMMA InTurnBefore == inTurn' /\ [Next]_vars => inTurn
  BY DEF vars, Next, AddStep, SendStep, RemoveStep, Post, Grow, GrowBy, Fill,
         SendTask, Find, FindTurn, ProcessClientMessage, DecompressFails,
         Purge, Search, SearchTurn, Remove, Take, Shrink, Shift, ShiftFrom,
         Clear, Goto, Stay

LEMMA Invariance == Spec => [](inTurn => IInv)
<1>1. Init => IInv
  BY InitIsFine
<1>2. (inTurn => IInv) /\ [Next]_vars => (inTurn' => IInv')
  BY StepsAreFine, InTurnBefore
<1> QED BY <1>1, <1>2, PTL DEF Spec

-----------------------------------------------------------------------------

\* What the callers see of the list is what its invariant says is kept.
LEMMA StoredIsKept ==
  ASSUME IInv
  PROVE  Stored = {k \in Tasks : pc[k] \in Kept}
<1>1. Extent = End
  BY DEF Extent, End, Shifting, Running
<1>2. \A i \in 1..End : i \in Slots \/ i = Capacity
  BY BoundsAreNat DEF IInv, TypeOK, Index, Slots, End
<1>3. End \in Nat /\ End <= Capacity
  BY BoundsAreNat DEF IInv, TypeOK, Index, End
<1>4. ASSUME NEW k \in Tasks, pc[k] \in Kept PROVE k \in Stored
  BY <1>1, <1>4, NullIsNoTask DEF IInv, KeptIsThere, Stored
<1>5. ASSUME NEW k \in Stored PROVE k \in Tasks /\ pc[k] \in Kept
  <2>1. PICK i \in 1..End : items[i] = k /\ k # Null
    BY <1>1, <1>5 DEF Stored
  <2>2. i \in Slots
    BY <1>3, <2>1, BoundsAreNat DEF Slots
  <2>3. k \in Tasks
    BY <2>1, <2>2 DEF IInv, TypeOK
  <2>4. CASE Clearing /\ i = size + 1
    <3>1. ~Shifting
      BY <2>4 DEF IInv, Apart, OneWriter, InWrite, InRemoveAt, Shifting,
                  Clearing
    <3> QED BY <2>1, <2>4, <3>1 DEF End, IInv
  <2> QED BY <2>1, <2>2, <2>3, <2>4 DEF IInv, ThereIsKept
<1> QED BY <1>4, <1>5

LEMMA StoredStaysKept == IInv' => Stored' = {k \in Tasks : pc'[k] \in Kept}
<1>1. IInv => Stored = {k \in Tasks : pc[k] \in Kept}
  BY StoredIsKept
<1>2. (IInv => Stored = {k \in Tasks : pc[k] \in Kept})'
  BY <1>1, PTL
<1> QED BY <1>2

\* Until two calls are in each other's way a job whose number is out is in the
\* list and no scan has passed it by (TaskQueue.cs GetModelById,
\* RemoveModelById).
THEOREM QueuedStays == Spec => []QueuedIsStored
<1>1. (inTurn => IInv) => QueuedIsStored
  <2> SUFFICES ASSUME IInv, NEW k \in Tasks
               PROVE /\ pc[k] = "queued" => k \in Stored
                     /\ pc[k] \in {"find", "search"} =>
                          \E i \in 1..at[k] : i <= size /\ items[i] = k
                     /\ pc[k] \in {"remove", "take", "shrink", "shift"} =>
                          items[at[k]] = k
    BY DEF QueuedIsStored
  <2>1. pc[k] = "queued" => k \in Stored
    BY StoredIsKept DEF Kept
  <2>2. at[k] \in Int /\ size \in Int
    BY DEF IInv, TypeOK, Index
  <2> QED BY <2>1, <2>2 DEF IInv, ScanIsAhead
<1> QED BY <1>1, Invariance, PTL

-----------------------------------------------------------------------------
(* The queue implements JobStore *)

Stages == [k \in Tasks |-> Stage(k)]

\* Steps that leave a job at its stage and the list with the same jobs.
LEMMA StutterIsFine ==
  ASSUME IInv, IInv', NEW k \in Tasks, NEW label,
         pc' = [pc EXCEPT ![k] = label], UNCHANGED printed,
         \/ pc[k] \in {"new", "grow"} /\ label \in {"new", "grow", "fill"}
         \/ pc[k] \in {"queued", "find"} /\ label \in {"find", "print"}
         \/ /\ pc[k] \in {"purge", "search", "remove", "take", "shrink"}
            /\ label \in {"search", "remove", "take", "shrink", "shift"}
         \/ pc[k] = "clear" /\ label = "done"
  PROVE  UNCHANGED <<Stages, Stored>>
<1>1. pc \in [Tasks -> Labels] /\ pc' \in [Tasks -> Labels]
  BY DEF IInv, TypeOK
<1>2. Stored' = Stored
  <2>1. \A l \in Tasks : pc'[l] \in Kept <=> pc[l] \in Kept
    BY <1>1 DEF Kept
  <2>2. Stored' = {l \in Tasks : pc'[l] \in Kept}
    BY StoredStaysKept
  <2> QED BY <2>1, <2>2, StoredIsKept
<1>3. \A l \in Tasks : Stage(l)' = Stage(l)
  BY <1>1 DEF Stage
<1> QED BY <1>2, <1>3 DEF Stages

LEMMA StepsImplement ==
  IInv /\ IInv' /\ [Next]_vars => [Jobs!Next]_(Jobs!vars)
<1> SUFFICES ASSUME IInv, IInv', [Next]_vars PROVE [Jobs!Next]_(Jobs!vars)
  OBVIOUS
<1> USE DEF Jobs!vars
<1>1. pc \in [Tasks -> Labels] /\ pc' \in [Tasks -> Labels]
      /\ printed \in [Tasks -> {"nothing", "blank", "text", "garbled"}]
  BY DEF IInv, TypeOK
<1>2. /\ Stored = {l \in Tasks : pc[l] \in Kept}
      /\ Stored' = {l \in Tasks : pc'[l] \in Kept}
  BY StoredIsKept, StoredStaysKept
<1>3. ASSUME UNCHANGED <<Stages, Stored>> PROVE [Jobs!Next]_(Jobs!vars)
  BY <1>3 DEF Stages
<1>4. CASE UNCHANGED vars
  <2>1. \A l \in Tasks : Stage(l)' = Stage(l)
    BY <1>4 DEF vars, Stage
  <2>2. Stored' = Stored
    BY <1>2, <1>4 DEF vars
  <2> QED BY <1>3, <2>1, <2>2 DEF Stages
<1>5. ASSUME NEW k \in Tasks, Post(k) \/ Grow(k) PROVE [Jobs!Next]_(Jobs!vars)
  BY <1>3, <1>5, StutterIsFine DEF Post, Grow, GrowBy, Goto
<1>6. ASSUME NEW k \in Tasks, Fill(k) PROVE Jobs!Keep(k)
  <2>1. /\ pc[k] = "fill" /\ pc' = [pc EXCEPT ![k] = "queued"]
        /\ UNCHANGED printed
    BY <1>6 DEF Fill, Goto, IInv, ReadIsTrue
  <2>2. Stored' = Stored \cup {k}
    BY <1>1, <1>2, <2>1 DEF Kept
  <2>3. /\ Stage(k) = "new" /\ Stage(k)' = "kept"
        /\ \A l \in Tasks : l # k => Stage(l)' = Stage(l)
    BY <1>1, <2>1 DEF Stage
  <2> QED BY <2>2, <2>3 DEF Jobs!Keep
<1>7. ASSUME NEW k \in Tasks, SendTask(k) \/ Find(k)
      PROVE  [Jobs!Next]_(Jobs!vars)
  <2>1. CASE SendTask(k)
    BY <1>3, <2>1, StutterIsFine DEF SendTask, Goto
  <2>2. CASE Find(k)
    <3>1. /\ pc[k] = "find" /\ UNCHANGED printed
          /\ \/ pc' = [pc EXCEPT ![k] = "print"]
             \/ pc' = [pc EXCEPT ![k] = "find"]
      <4>1. ~(at[k] <= 0) /\ ~(at[k] > size)
        BY <2>2 DEF Find, FindTurn, IInv, TypeOK, Index, ScanIsAhead
      <4> QED BY <1>1, <2>2, <4>1 DEF Find, FindTurn, Goto, Stay
    <3> QED BY <1>3, <3>1, StutterIsFine
  <2> QED BY <1>7, <2>1, <2>2
<1>8. ASSUME NEW k \in Tasks, ProcessClientMessage(k) PROVE Jobs!Deliver(k)
  <2>1. /\ pc[k] = "print" /\ pc' = [pc EXCEPT ![k] = "purge"]
        /\ printed' = [printed EXCEPT ![k] = "text"]
    BY <1>8 DEF ProcessClientMessage, Goto, IInv, PrintsText
  <2>2. Stored' = Stored /\ k \in Stored
    BY <1>1, <1>2, <2>1 DEF Kept
  <2>3. /\ Stage(k) = "kept" /\ Stage(k)' = "printed"
        /\ \A l \in Tasks : l # k => Stage(l)' = Stage(l)
    BY <1>1, <2>1 DEF Stage
  <2> QED BY <2>2, <2>3 DEF Jobs!Deliver
<1>8a. ASSUME NEW k \in Tasks, DecompressFails(k) PROVE Jobs!Spoil(k)
  <2>1. /\ pc[k] = "print" /\ pc' = [pc EXCEPT ![k] = "purge"]
        /\ printed' = [printed EXCEPT ![k] = "garbled"]
    BY <1>8a DEF DecompressFails, Goto
  <2>2. Stored' = Stored /\ k \in Stored
    BY <1>1, <1>2, <2>1 DEF Kept
  <2>3. /\ Stage(k) = "kept" /\ Stage(k)' = "spoilt"
        /\ \A l \in Tasks : l # k => Stage(l)' = Stage(l)
    BY <1>1, <2>1 DEF Stage
  <2> QED BY <2>2, <2>3 DEF Jobs!Spoil
<1>9. ASSUME NEW k \in Tasks, Purge(k) \/ Search(k)
      PROVE  [Jobs!Next]_(Jobs!vars)
  <2>1. CASE Purge(k)
    BY <1>3, <2>1, StutterIsFine DEF Purge, Goto
  <2>2. CASE Search(k)
    <3>1. /\ pc[k] = "search" /\ UNCHANGED printed
          /\ \/ pc' = [pc EXCEPT ![k] = "remove"]
             \/ pc' = [pc EXCEPT ![k] = "search"]
      <4>1. ~(at[k] < 1) /\ ~(at[k] > size)
        BY <2>2 DEF Search, SearchTurn, IInv, TypeOK, Index, ScanIsAhead
      <4> QED BY <1>1, <2>2, <4>1 DEF Search, SearchTurn, Goto, Stay
    <3> QED BY <1>3, <3>1, StutterIsFine
  <2> QED BY <1>9, <2>1, <2>2
<1>10. ASSUME NEW k \in Tasks, Remove(k) \/ Take(k) \/ Shrink(k) \/ Clear(k)
       PROVE  [Jobs!Next]_(Jobs!vars)
  <2>1. CASE Remove(k)
    <3>1. at[k] <= size
      <4>1. ~Shifting
        BY <2>1 DEF Remove, IInv, Apart, OneRemover, InScan, InRemoveAt,
                    Shifting
      <4> QED BY <2>1, <4>1 DEF Remove, IInv, ScanIsAhead, End
    <3>2. size \in Int /\ at[k] \in Int
      BY DEF IInv, TypeOK, Index
    <3>3. /\ pc[k] = "remove" /\ UNCHANGED printed
          /\ pc' = [pc EXCEPT ![k] = "take"]
      <4>1. ~(at[k] > size)
        BY <3>1, <3>2
      <4> QED BY <2>1, <4>1 DEF Remove, Goto
    <3> QED BY <1>3, <3>3, StutterIsFine
  <2>2. CASE Take(k) \/ Shrink(k)
    BY <1>3, <2>2, StutterIsFine DEF Take, Shrink, Goto
  <2>3. CASE Clear(k)
    BY <1>3, <2>3, StutterIsFine DEF Clear, Goto
  <2> QED BY <1>10, <2>1, <2>2, <2>3
<1>11. ASSUME NEW k \in Tasks, Shift(k) PROVE Jobs!Drop(k)
  <2>1. /\ pc[k] = "shift" /\ pc' = [pc EXCEPT ![k] = "clear"]
        /\ printed[k] \in {"text", "garbled"} /\ UNCHANGED printed
    BY <1>11 DEF Shift, ShiftFrom, Goto, IInv, PrintsText
  <2>2. Stored' = Stored \ {k}
    BY <1>1, <1>2, <2>1 DEF Kept
  <2>3. /\ Stage(k) \in {"printed", "spoilt"} /\ Stage(k)' = "dropped"
        /\ \A l \in Tasks : l # k => Stage(l)' = Stage(l)
    BY <1>1, <2>1 DEF Stage
  <2> QED BY <2>2, <2>3 DEF Jobs!Drop
<1> QED BY <1>4, <1>5, <1>6, <1>7, <1>8, <1>8a, <1>9, <1>10, <1>11
        DEF Next, AddStep, SendStep, RemoveStep, Jobs!Next

\* Until two calls are in each other's way the queue is a JobStore: a job is
\* kept until it is sent, its own text is sent unless it does not decompress,
\* and then it is dropped (TaskQueue.cs, PrinterHub.cs SendTask).
THEOREM PromiseIsKept == Spec => KeepsPromise
<1>1. Init => Jobs!Init
  <2> SUFFICES ASSUME Init PROVE Jobs!Init
    OBVIOUS
  <2>1. \A k \in Tasks : Stage(k) = "new"
    BY DEF Init, Stage
  <2>2. Stored = {}
    BY InitIsFine, StoredIsKept DEF Init, Kept
  <2> QED BY <2>1, <2>2 DEF Jobs!Init
<1>2. (inTurn => IInv) /\ (inTurn' => IInv') /\ [Next]_vars
        => [Jobs!Next \/ ~inTurn']_(Jobs!vars)
  BY StepsImplement, InTurnBefore
<1> QED BY <1>1, <1>2, Invariance, PTL DEF Spec, KeepsPromise
=============================================================================
