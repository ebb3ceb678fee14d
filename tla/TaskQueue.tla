------------------------------ MODULE TaskQueue ------------------------------
(***************************************************************************)
(* The queue of print jobs: TaskQueueManager over the unsynchronised list  *)
(* SingletonList<TaskModel>, filled by SystemController.ReceiveTaskMessage *)
(* on request threads and emptied by PrinterHub.SendTask on hub threads.   *)
(*                                                                         *)
(* A job is posted by one request and sent by one call, so the threads are *)
(* named by their job. Indices count from 1; the code's count from 0. List *)
(* takes no lock: a step reads or writes its size or its array once.       *)
(***************************************************************************)
EXTENDS Integers, FiniteSets

CONSTANTS
  Tasks,
  Null,     \* an empty slot
  Capacity, \* slots of the array; the growth of the array is left out
  Posters,  \* how many ReceiveTaskMessage requests run at the same time
  Senders,  \* how many SendTask calls run at the same time
  Writers   \* how many of them are inside Add or RemoveAt at the same time

ASSUME BoundsAreNat ==
  /\ Capacity \in Nat \ {0}
  /\ Posters \in Nat /\ Senders \in Nat /\ Writers \in Nat
ASSUME NullIsNoTask == Null \notin Tasks
ASSUME TasksAreFinite == IsFiniteSet(Tasks)

VARIABLES
  items,  \* the array inside the List
  size,   \* its _size
  pc,     \* where the job is
  at,     \* the thread's index into the list
  read,   \* the size the thread has read and is about to change
  found,  \* GetModelById has found the job
  printed, \* what ProcessClientMessage was given for the job
  inTurn   \* so far no two calls have been in each other's way in the list

vars == <<items, size, pc, at, read, found, printed, inTurn>>

Slots == 1..Capacity
InAdd == {"grow", "fill"}
InRemoveAt == {"take", "shrink", "shift", "clear"}
InScan == {"find", "search", "remove"}
InSend == InScan \cup {"print", "purge"} \cup InRemoveAt
Labels == {"new", "queued", "done"} \cup InAdd \cup InSend
Index == {i \in Int : i < Capacity}

TypeOK ==
  /\ items \in [Slots -> Tasks \cup {Null}]
  /\ size \in Index
  /\ pc \in [Tasks -> Labels]
  /\ at \in [Tasks -> Index]
  /\ read \in [Tasks -> Index]
  /\ found \in [Tasks -> BOOLEAN]
  /\ printed \in [Tasks -> {"nothing", "blank", "text", "garbled"}]
  /\ inTurn \in BOOLEAN

Init ==
  /\ items = [i \in Slots |-> Null]
  /\ size = 0
  /\ pc = [k \in Tasks |-> "new"]
  /\ at = [k \in Tasks |-> 0]
  /\ read = [k \in Tasks |-> 0]
  /\ found = [k \in Tasks |-> FALSE]
  /\ printed = [k \in Tasks |-> "nothing"]
  /\ inTurn = TRUE

Running(labels) == {k \in Tasks : pc[k] \in labels}
MayWrite == Cardinality(Running(InAdd \cup InRemoveAt)) < Writers

\* Two calls add a job at the same time, or a job is taken out while another
\* call adds one, looks for one or is taking one out.
Clash ==
  \E k, l \in Tasks :
    /\ k # l
    /\ \/ pc[k] \in InAdd /\ pc[l] \in InAdd
       \/ pc[k] \in InRemoveAt /\ pc[l] \in InAdd \cup InScan \cup InRemoveAt

Goto(k, label) ==
  /\ pc' = [pc EXCEPT ![k] = label]
  /\ inTurn' = (inTurn /\ ~Clash')

Stay == UNCHANGED <<pc, inTurn>>

-----------------------------------------------------------------------------
(* ReceiveTaskMessage: List.Add reads the size, writes it and fills the slot *)

Post(k) ==
  /\ pc[k] = "new"
  /\ Cardinality(Running(InAdd)) < Posters
  /\ MayWrite
  /\ read' = [read EXCEPT ![k] = size]
  /\ Goto(k, "grow")
  /\ UNCHANGED <<items, size, at, found, printed>>

\* Capacity bounds the list: a slot after the last is always there.
GrowBy(k, n) ==
  /\ pc[k] = "grow"
  /\ read[k] + 1 < Capacity
  /\ size' = read[k] + n
  /\ Goto(k, "fill")
  /\ UNCHANGED <<items, at, read, found, printed>>

\* Mutant of Grow: the size is counted up twice.
GrowTwice(k) == GrowBy(k, 2)

Grow(k) == GrowBy(k, 1)

\* A size below zero makes Add throw: the page gets an error and no number.
Fill(k) ==
  /\ pc[k] = "fill"
  /\ IF read[k] < 0 THEN Goto(k, "done") /\ UNCHANGED items
     ELSE Goto(k, "queued") /\ items' = [items EXCEPT ![read[k] + 1] = k]
  /\ UNCHANGED <<size, at, read, found, printed>>

AddStep(k) == Grow(k) \/ Fill(k)

-----------------------------------------------------------------------------
(* SendTask                                                                  *)

\* GetModelById starts at the end of the list.
SendTask(k) ==
  /\ pc[k] = "queued"
  /\ Cardinality(Running(InSend)) < Senders
  /\ at' = [at EXCEPT ![k] = size]
  /\ Goto(k, "find")
  /\ UNCHANGED <<items, size, read, found, printed>>

\* One turn of its loop. An index past the end of a list that has shrunk
\* throws; SendTask logs that and goes on to its finally block.
FindTurn(k, next) ==
  /\ pc[k] = "find"
  /\ IF at[k] <= 0 THEN Goto(k, "print") /\ UNCHANGED <<at, found>>
     ELSE IF at[k] > size THEN Goto(k, "purge") /\ UNCHANGED <<at, found>>
     ELSE IF items[at[k]] = k
          THEN /\ found' = [found EXCEPT ![k] = TRUE]
               /\ Goto(k, "print")
               /\ UNCHANGED at
          ELSE at' = [at EXCEPT ![k] = next] /\ UNCHANGED found /\ Stay
  /\ UNCHANGED <<items, size, read, printed>>

\* Mutant of Find: the loop does not count down.
FindStuck(k) == FindTurn(k, at[k])

Find(k) == FindTurn(k, at[k] - 1)

\* A job that was not found is sent all the same, with an empty text.
ProcessClientMessage(k) ==
  /\ pc[k] = "print"
  /\ printed' = [printed EXCEPT ![k] = IF found[k] THEN "text" ELSE "blank"]
  /\ Goto(k, "purge")
  /\ UNCHANGED <<items, size, at, read, found>>

\* Mutant of DecompressFails: there is no finally block.
DecompressThrows(k) ==
  /\ pc[k] = "print" /\ found[k]
  /\ printed' = [printed EXCEPT ![k] = "garbled"]
  /\ Goto(k, "done")
  /\ UNCHANGED <<items, size, at, read, found>>

\* The text of a job that was found does not decompress: GetTaskMessage throws,
\* and SendTask logs that and goes on to its finally block.
DecompressFails(k) ==
  /\ pc[k] = "print" /\ found[k]
  /\ printed' = [printed EXCEPT ![k] = "garbled"]
  /\ Goto(k, "purge")
  /\ UNCHANGED <<items, size, at, read, found>>

\* The finally block: RemoveModelById starts at the end of the list...
Purge(k) ==
  /\ pc[k] = "purge"
  /\ at' = [at EXCEPT ![k] = size]
  /\ Goto(k, "search")
  /\ UNCHANGED <<items, size, read, found, printed>>

\* ... looks at one slot a turn, and leaves the hub method if it throws...
SearchTurn(k, first) ==
  /\ pc[k] = "search"
  /\ IF at[k] < first \/ at[k] > size THEN Goto(k, "done") /\ UNCHANGED at
     ELSE IF items[at[k]] = k THEN Goto(k, "remove") /\ UNCHANGED at
     ELSE at' = [at EXCEPT ![k] = at[k] - 1] /\ Stay
  /\ UNCHANGED <<items, size, read, found, printed>>

\* Mutant of Search: while (i > 0) in place of while (i >= 0).
SearchShort(k) == SearchTurn(k, 2)

Search(k) == SearchTurn(k, 1)

\* ... and removes by index, whatever is at that index by now: RemoveAt
\* throws if the list has become too short...
Remove(k) ==
  /\ pc[k] = "remove"
  /\ MayWrite
  /\ Goto(k, IF at[k] > size THEN "done" ELSE "take")
  /\ UNCHANGED <<items, size, at, read, found, printed>>

\* ... takes one off the size...
Take(k) ==
  /\ pc[k] = "take"
  /\ read' = [read EXCEPT ![k] = size]
  /\ Goto(k, "shrink")
  /\ UNCHANGED <<items, size, at, found, printed>>

Shrink(k) ==
  /\ pc[k] = "shrink"
  /\ size' = read[k] - 1
  /\ Goto(k, "shift")
  /\ UNCHANGED <<items, at, read, found, printed>>

\* ... moves what follows down by one slot...
ShiftFrom(k, first) ==
  /\ pc[k] = "shift"
  /\ items' = [i \in Slots |-> IF i >= first /\ i <= size
                               THEN items[i + 1] ELSE items[i]]
  /\ Goto(k, "clear")
  /\ UNCHANGED <<size, at, read, found, printed>>

\* Mutant of Shift: the slot of the job itself is left as it is.
ShiftPast(k) == ShiftFrom(k, at[k] + 1)

Shift(k) == ShiftFrom(k, at[k])

\* ... and empties the slot after the last, if the size still has one.
Clear(k) ==
  /\ pc[k] = "clear"
  /\ items' = [i \in Slots |-> IF i = size + 1 THEN Null ELSE items[i]]
  /\ Goto(k, "done")
  /\ UNCHANGED <<size, at, read, found, printed>>

RemoveStep(k) == Remove(k) \/ Take(k) \/ Shrink(k) \/ Shift(k) \/ Clear(k)
SendStep(k) ==
  \/ Find(k) \/ ProcessClientMessage(k) \/ DecompressFails(k)
  \/ Purge(k) \/ Search(k) \/ RemoveStep(k)

Next == \E k \in Tasks : Post(k) \/ AddStep(k) \/ SendTask(k) \/ SendStep(k)

Spec == Init /\ [][Next]_vars

\* A call that has begun is carried to its end by its thread.
FairSpec == Spec /\ \A k \in Tasks : WF_vars(AddStep(k)) /\ WF_vars(SendStep(k))

-----------------------------------------------------------------------------
(* Properties *)

\* The jobs in the list. Between the shrinking of the list and the move of
\* what follows, the last of them is still one slot past its end.
Extent == IF Running({"shift"}) = {} THEN size ELSE size + 1
Stored == {items[i] : i \in 1..Extent} \ {Null}

\* The queue as its callers see it.
Stage(k) ==
  CASE pc[k] \in {"new", "grow", "fill"} -> "new"
    [] pc[k] \in {"queued", "find", "print"} -> "kept"
    [] pc[k] \in {"purge", "search", "remove", "take", "shrink", "shift"} ->
         CASE printed[k] = "text" -> "printed"
           [] printed[k] = "garbled" -> "spoilt"
           [] OTHER -> "lost"
    [] OTHER -> "dropped"

Jobs == INSTANCE JobStore WITH
          stage <- [k \in Tasks |-> Stage(k)],
          store <- Stored

\* Until a RemoveAt overlaps an Add, a scan or another RemoveAt, or two Adds
\* overlap, SendTask keeps the queue's promise, even with requests that add
\* jobs during its scans and with calls that scan at the same time: every job
\* whose text decompresses is sent as that text, and every job leaves.
KeepsPromise == Jobs!Init /\ [][Jobs!Next \/ ~inTurn']_(Jobs!vars)

\* Until then a job whose number the page holds is in the list, and a scan that
\* is under way still has it ahead of it: the indices the loops of GetModelById
\* and RemoveModelById count down do not pass it by.
QueuedIsStored ==
  inTurn => \A k \in Tasks :
    /\ pc[k] = "queued" => k \in Stored
    /\ pc[k] \in {"find", "search"} =>
         \E i \in 1..at[k] : i <= size /\ items[i] = k
    /\ pc[k] \in {"remove", "take", "shrink", "shift"} => items[at[k]] = k

\* However requests and calls overlap, a call that has begun comes to an end:
\* the loops count down whatever happens to the list under them.
SendEnds == \A k \in Tasks : pc[k] \in InSend ~> pc[k] = "done"

\* The list holds the jobs whose number is out and that have not been sent. A
\* message "is added to the tasks, and its number is returned" (TaskQueue.cs
\* line 58), and "whatever the outcome, the job of that number must be deleted
\* from the queue in the end" (PrinterHub.cs line 273).
ListIsPending ==
  \A k \in Tasks : /\ pc[k] = "queued" => k \in Stored
                   /\ pc[k] = "done" => k \notin Stored
=============================================================================
