--------------------------- MODULE WorkspaceProofs ---------------------------
(***************************************************************************)
(* Two things of a workspace, proved for any threads, commands, digests    *)
(* and approvers.                                                          *)
(*                                                                         *)
(* collect_garbage spares what is referenced.  The argument is the mutex:  *)
(* what a collection read at its first statement is still true at its      *)
(* last, because no other call writes a row or a reference while it keeps  *)
(* the mutex, although the others go on writing and removing files.        *)
(*                                                                         *)
(* A live preparation is backed.  The argument is phase.lock and files     *)
(* that are written once: what a command has read of the records, the run  *)
(* and its evaluations is not taken back by anything (Grows), and only the *)
(* command that has the lock adds a run or a record.                       *)
(***************************************************************************)
EXTENDS BlobStore, LivePreparation, TLAPS

\* Time limits for the leaves that name no prover.
USE SMTT(30), ZenonT(30)

Collecting == {"sweep", "list", "orphans"}

Outside == {"row", "file", "persist", "insert_row", "insert_ref", "unreference",
            "count", "delete_row", "remove_file"}

Calls ==
    [op : Operations, pc : Collecting \cup Outside \cup {"select"},
     d : Digests, a : Artifacts, todo : SUBSET Digests, gone : SUBSET Digests]

CallsOK == call \in [Threads -> Calls \cup {Idle}]

TablesOK ==
    /\ rows \in SUBSET Digests /\ blobs \in SUBSET Digests /\ acked \in SUBSET Digests
    /\ refs \in SUBSET (rows \X Artifacts)
    /\ crashes \in 0 .. MaxCrashes

\* The thread inside a collection is the one that keeps the mutex.
Exclusive ==
    /\ \A t \in Threads :
         /\ call[t].pc \in Collecting => lock = t
         /\ call[t].op = "gc" => call[t].pc \in Collecting \cup {"select"}
         /\ call[t].pc \in Collecting => call[t].op = "gc"
         /\ call[t].pc = "select" => call[t].op = "gc" /\ call[t].gone = {}
         /\ call[t].pc = "count" => call[t].op = "delete"
         /\ call[t].pc \in {"row", "file"} => call[t].op \in {"put", "reference", "delete"}
    /\ lock # None => lock \in Threads /\ call[lock].pc \in Collecting

\* What the collection is about to remove is still unreferenced, or without a row.
Doomed ==
    \A t \in Threads :
        /\ call[t].pc = "sweep" => \A d \in call[t].todo \cup call[t].gone : ~ Referenced(d)
        /\ call[t].pc = "orphans" => call[t].todo \cap rows = {}

IInv == CallsOK /\ TablesOK /\ Exclusive /\ Doomed

-----------------------------------------------------------------------------

\* A thread that is not idle has a call with all its fields.
LEMMA ActiveCall ==
    ASSUME CallsOK, NEW t \in Threads, call[t].pc # "idle"
    PROVE  call[t] \in Calls
BY DEF CallsOK, Idle

\* A call that is moved on is a call.
LEMMA MovedCall ==
    ASSUME NEW c \in Calls, NEW pc \in Collecting \cup Outside \cup {"select"},
           NEW T \in SUBSET Digests, NEW G \in SUBSET Digests
    PROVE  /\ [c EXCEPT !.pc = pc] \in Calls
           /\ [c EXCEPT !.pc = pc, !.todo = T] \in Calls
           /\ [c EXCEPT !.todo = T] \in Calls
           /\ [c EXCEPT !.todo = T, !.gone = G] \in Calls
BY Zenon DEF Calls

\* A step outside a collection: either it writes no row and no reference, or the mutex
\* is free and no collection is running.
LEMMA StepOutside ==
    ASSUME IInv, NEW t \in Threads, NEW c \in Calls \cup {Idle}, Goto(t, c),
           call[t].pc \notin Collecting, c.pc \notin Collecting,
           c.op = "gc" => c.pc = "select",
           c.pc = "select" => c.op = "gc" /\ c.gone = {},
           c.pc = "count" => c.op = "delete",
           c.pc \in {"row", "file"} => c.op \in {"put", "reference", "delete"},
           TablesOK', lock' = lock,
           lock = None \/ UNCHANGED <<rows, refs>>
    PROVE  IInv'
<1>1. CallsOK' /\ call'[t] = c /\ \A u \in Threads \ {t} : call'[u] = call[u]
  BY DEF IInv, CallsOK, Goto
<1>2. Exclusive'
  BY <1>1, BlobAssumption DEF IInv, Exclusive, Collecting
<1>3. Doomed'
  <2> SUFFICES ASSUME NEW u \in Threads, call'[u].pc \in Collecting
               PROVE  /\ call'[u].pc = "sweep" =>
                           \A d \in call'[u].todo \cup call'[u].gone : ~ Referenced(d)'
                      /\ call'[u].pc = "orphans" => call'[u].todo \cap rows' = {}
    BY DEF Doomed, Collecting
  <2>1. u # t /\ call'[u] = call[u] BY <1>1
  <2>2. lock = u /\ lock # None BY <2>1, BlobAssumption DEF IInv, Exclusive
  <2>3. UNCHANGED <<rows, refs>> BY <2>2
  <2> QED BY Zenon, <2>1, <2>3 DEF IInv, Doomed, Referenced
<1> QED BY <1>1, <1>2, <1>3 DEF IInv

\* A step of the collection: no other collection is running, so only its own list counts.
LEMMA StepInside ==
    ASSUME IInv, NEW t \in Threads, NEW c \in Calls \cup {Idle}, Goto(t, c),
           lock = None \/ lock = t,
           \/ c.pc \in Collecting /\ c.op = "gc" /\ lock' = t
           \/ c = Idle /\ lock' = None,
           c.pc = "sweep" => \A d \in c.todo \cup c.gone : ~ Referenced(d)',
           c.pc = "orphans" => c.todo \cap rows' = {},
           TablesOK'
    PROVE  IInv'
<1>1. CallsOK' /\ call'[t] = c /\ \A u \in Threads \ {t} : call'[u] = call[u]
  BY DEF IInv, CallsOK, Goto
<1>2. \A u \in Threads \ {t} : call[u].pc \notin Collecting
  BY BlobAssumption DEF IInv, Exclusive
<1>3. Exclusive'
  BY <1>1, <1>2, BlobAssumption DEF IInv, Exclusive, Collecting, Idle
<1>4. Doomed'
  BY <1>1, <1>2 DEF Doomed, Collecting
<1> QED BY <1>1, <1>3, <1>4 DEF IInv

-----------------------------------------------------------------------------

\* exists, on behalf of put, add_reference and delete.
LEMMA ExistsStep ==
    ASSUME IInv, NEW t \in Threads, AskRow(t) \/ AskFile(t)
    PROVE  IInv'
<1>1. call[t].pc \in {"row", "file"} /\ call[t] \in Calls
      /\ call[t].op \in {"put", "reference", "delete"}
  BY ActiveCall DEF AskRow, AskFile, At, IInv, Exclusive
<1>2. UNCHANGED <<rows, refs, blobs, lock, crashes>>
  BY DEF AskRow, AskFile
<1>3. acked' \in SUBSET Digests /\
      \/ Goto(t, Idle)
      \/ \E pc \in {"file", "persist", "insert_ref", "delete_row"} : Move(t, pc)
  BY Zenon, <1>1 DEF AskRow, AskFile, Found, Missing, IInv, TablesOK, Calls
<1>4. TablesOK'
  BY <1>2, <1>3 DEF IInv, TablesOK
<1>5. CASE Goto(t, Idle)
  BY <1>1, <1>2, <1>4, <1>5, StepOutside DEF Idle, Collecting
<1>6. CASE \E pc \in {"file", "persist", "insert_ref", "delete_row"} : Move(t, pc)
  <2> PICK pc \in {"file", "persist", "insert_ref", "delete_row"} : Move(t, pc) BY <1>6
  <2> DEFINE c == [call[t] EXCEPT !.pc = pc]
  <2>1. c \in Calls /\ c.pc = pc /\ c.op = call[t].op
    BY Zenon, <1>1, MovedCall DEF Outside, Calls
  <2>2. Goto(t, c) BY DEF Move
  <2> HIDE DEF c
  <2> QED BY <1>1, <1>2, <1>4, <2>1, <2>2, StepOutside DEF Collecting
<1> QED BY <1>3, <1>5, <1>6

\* put and the two statements on references.
LEMMA WriteStep ==
    ASSUME IInv, NEW t \in Threads,
           Persist(t) \/ InsertRow(t) \/ InsertReference(t) \/ RemoveReference(t)
    PROVE  IInv'
<1>1. call[t].pc \in {"persist", "insert_row", "insert_ref", "unreference"} /\ call[t] \in Calls
  BY ActiveCall DEF Persist, InsertRow, InsertReference, RemoveReference, At, IInv
<1>2. call[t].d \in Digests /\ call[t].a \in Artifacts /\ call[t].op # "gc"
  BY <1>1 DEF Calls, IInv, Exclusive, Collecting
<1>3. CASE Persist(t)
  <2> DEFINE c == [call[t] EXCEPT !.pc = "insert_row"]
  <2>1. c \in Calls /\ c.pc = "insert_row" /\ c.op = call[t].op
    BY Zenon, <1>1, MovedCall DEF Outside, Calls
  <2>2. Goto(t, c) /\ UNCHANGED <<rows, refs, lock, acked, crashes>>
    BY <1>3 DEF Persist, Move
  <2>3. TablesOK' BY <1>2, <1>3, <2>2 DEF Persist, IInv, TablesOK
  <2> HIDE DEF c
  <2> QED BY Zenon, <1>1, <1>2, <2>1, <2>2, <2>3, StepOutside DEF Collecting
<1>4. CASE InsertRow(t) \/ InsertReference(t) \/ RemoveReference(t)
  <2>1. Goto(t, Idle) /\ lock = None /\ lock' = lock
    BY <1>4 DEF InsertRow, InsertReference, RemoveReference, Free
  <2>2. TablesOK'
    BY <1>2, <1>4 DEF InsertRow, InsertReference, RemoveReference, IInv, TablesOK
  <2> QED BY <1>1, <2>1, <2>2, StepOutside DEF Idle, Collecting
<1> QED BY <1>3, <1>4

\* delete: the count, the row with its references, the file.
LEMMA DeleteStep ==
    ASSUME IInv, NEW t \in Threads, Count(t) \/ DeleteRow(t) \/ RemoveFile(t)
    PROVE  IInv'
<1>1. call[t].pc \in {"count", "delete_row", "remove_file"} /\ call[t] \in Calls
  BY ActiveCall DEF Count, DeleteRow, RemoveFile, At, IInv
<1>2. call[t].d \in Digests /\ call[t].op # "gc"
  BY <1>1 DEF Calls, IInv, Exclusive, Collecting
<1>3. /\ lock' = lock
      /\ lock = None \/ UNCHANGED <<rows, refs>>
  BY DEF Count, DeleteRow, RemoveFile, Free
<1>4. TablesOK'
  <2>1. CASE Count(t) BY <2>1 DEF Count, IInv, TablesOK
  <2>2. CASE DeleteRow(t)
    <3>1. \A r \in refs : r \in rows \X Artifacts BY DEF IInv, TablesOK
    <3>2. \A r \in refs' : r \in rows' \X Artifacts BY <2>2, <3>1 DEF DeleteRow
    <3> QED BY <2>2, <3>2 DEF DeleteRow, IInv, TablesOK
  <2>3. CASE RemoveFile(t) BY <2>3 DEF RemoveFile, IInv, TablesOK
  <2> QED BY <2>1, <2>2, <2>3
<1>5. CASE Goto(t, Idle)
  BY <1>1, <1>3, <1>4, <1>5, StepOutside DEF Idle, Collecting
<1>6. CASE DeleteRow(t) /\ Move(t, "remove_file")
  <2> DEFINE c == [call[t] EXCEPT !.pc = "remove_file"]
  <2>1. c \in Calls /\ c.pc = "remove_file" /\ c.op = call[t].op
    BY Zenon, <1>1, MovedCall DEF Outside, Calls
  <2>2. Goto(t, c) BY <1>6 DEF Move
  <2> HIDE DEF c
  <2> QED BY Zenon, <1>1, <1>2, <1>3, <1>4, <2>1, <2>2, StepOutside DEF Collecting
<1>7. CASE Count(t) /\ Move(t, "row")
  <2> DEFINE c == [call[t] EXCEPT !.pc = "row"]
  <2>1. c \in Calls /\ c.pc = "row" /\ c.op = call[t].op
    BY Zenon, <1>1, MovedCall DEF Outside, Calls
  <2>2. Goto(t, c) /\ c.op = "delete"
    BY <1>1, <1>7, <2>1 DEF Move, Count, At, IInv, Exclusive
  <2> HIDE DEF c
  <2> QED BY Zenon, <1>1, <1>2, <1>3, <1>4, <2>1, <2>2, StepOutside DEF Collecting
<1> QED BY <1>5, <1>6, <1>7 DEF Count, DeleteRow, RemoveFile

-----------------------------------------------------------------------------

\* collect_garbage, from the statement that takes the mutex to the one that gives it back.
LEMMA CollectStep ==
    ASSUME IInv, NEW t \in Threads,
           \/ Select(t) \/ Sweep(t) \/ Commit(t)
           \/ List(t) \/ RemoveOrphan(t) \/ Finish(t)
    PROVE  IInv'
<1>1. call[t].pc \in Collecting \cup {"select"} /\ call[t] \in Calls
  BY Zenon, ActiveCall DEF Select, Sweep, Commit, List, RemoveOrphan, Finish, At, IInv, Collecting
<1>2. call[t].todo \in SUBSET Digests /\ call[t].gone \in SUBSET Digests
      /\ rows \in SUBSET Digests /\ blobs \in SUBSET Digests
  BY Zenon, <1>1 DEF Calls, IInv, TablesOK
<1>3. lock = None \/ lock = t
  BY Zenon, <1>1 DEF IInv, Exclusive, Select, Sweep, Commit, List, RemoveOrphan, Finish, At, Free, Collecting
<1>4. CASE Select(t)
  <2> DEFINE T == {d \in rows : ~ Referenced(d)}
             c == [call[t] EXCEPT !.pc = "sweep", !.todo = T]
  <2>1. c \in Calls /\ c.pc = "sweep" /\ c.todo = T /\ c.gone = call[t].gone /\ c.op = call[t].op
    BY Zenon, <1>1, <1>2, MovedCall DEF Collecting, Calls
  <2>2. Goto(t, c) /\ lock' = t /\ UNCHANGED <<rows, refs, blobs, acked, crashes>>
    BY <1>4 DEF Select
  <2>3. call[t].op = "gc" /\ call[t].gone = {}
    BY <1>4, <1>1 DEF Select, At, IInv, Exclusive
  <2>4. \A d \in c.todo \cup c.gone : ~ Referenced(d)'
    BY Zenon, <2>1, <2>2, <2>3 DEF Referenced
  <2>5. TablesOK' BY <2>2 DEF IInv, TablesOK
  <2> HIDE DEF c, T
  <2> QED BY Zenon, <1>3, <2>1, <2>2, <2>3, <2>4, <2>5, StepInside DEF Collecting
<1>5. CASE Sweep(t)
  <2> PICK d \in call[t].todo :
         /\ blobs' = blobs \ {d}
         /\ Goto(t, [call[t] EXCEPT !.todo = @ \ {d}, !.gone = @ \cup {d}])
         /\ acked' = acked \ {d}
    BY Zenon, <1>5 DEF Sweep
  <2> DEFINE c == [call[t] EXCEPT !.todo = call[t].todo \ {d}, !.gone = call[t].gone \cup {d}]
  <2>1. c \in Calls /\ c.pc = "sweep" /\ c.op = "gc"
        /\ c.todo = call[t].todo \ {d} /\ c.gone = call[t].gone \cup {d}
    <3>1. call[t].pc = "sweep" /\ call[t].op = "gc"
      BY Zenon, <1>5 DEF Sweep, At, IInv, Exclusive, Collecting
    <3>2. call[t].todo \ {d} \in SUBSET Digests /\ call[t].gone \cup {d} \in SUBSET Digests
      BY <1>2
    <3> QED BY Zenon, <1>1, <3>1, <3>2 DEF Calls
  <2>2. Goto(t, c) /\ lock' = t /\ UNCHANGED <<rows, refs, crashes>>
    <3>1. lock' = t /\ UNCHANGED <<rows, refs, crashes>>
      BY Zenon, <1>5 DEF Sweep, At, IInv, Exclusive, Collecting
    <3>2. Goto(t, c) BY Zenon
    <3> QED BY Zenon, <3>1, <3>2
  <2>3. \A e \in c.todo \cup c.gone : ~ Referenced(e)'
    BY Zenon, <1>5, <2>1, <2>2 DEF Sweep, At, IInv, Doomed, Referenced
  <2>4. TablesOK' BY <2>2 DEF IInv, TablesOK
  <2> HIDE DEF c
  <2> QED BY <1>3, <2>1, <2>2, <2>3, <2>4, StepInside DEF Collecting
<1>6. CASE Commit(t)
  <2> DEFINE c == [call[t] EXCEPT !.pc = "list"]
  <2>1. c \in Calls /\ c.pc = "list" /\ c.op = "gc"
    BY Zenon, <1>1, <1>2, <1>6, MovedCall DEF Collecting, Calls, Commit, At, IInv, Exclusive
  <2>2. Goto(t, c) /\ lock' = t
    BY <1>6 DEF Commit, Move, At, IInv, Exclusive, Collecting
  <2>3. TablesOK'
    <3>1. \A r \in refs : r \in rows \X Artifacts BY DEF IInv, TablesOK
    <3>2. \A r \in refs' : r \in rows' \X Artifacts BY <1>6, <3>1 DEF Commit
    <3> QED BY <1>6, <3>2 DEF Commit, IInv, TablesOK
  <2> HIDE DEF c
  <2> QED BY Zenon, <1>3, <2>1, <2>2, <2>3, StepInside DEF Collecting
<1>7. CASE List(t)
  <2> DEFINE T == blobs \ rows
             c == [call[t] EXCEPT !.pc = "orphans", !.todo = T]
  <2>1. c \in Calls /\ c.pc = "orphans" /\ c.op = "gc" /\ c.todo = T
    BY Zenon, <1>1, <1>2, <1>7, MovedCall DEF Collecting, Calls, List, At, IInv, Exclusive
  <2>2. Goto(t, c) /\ lock' = t /\ UNCHANGED <<rows, refs, blobs, acked, crashes>>
    BY <1>7 DEF List, At, IInv, Exclusive, Collecting
  <2>3. c.todo \cap rows' = {} BY <2>1, <2>2
  <2>4. TablesOK' BY <2>2 DEF IInv, TablesOK
  <2> HIDE DEF c, T
  <2> QED BY Zenon, <1>3, <2>1, <2>2, <2>3, <2>4, StepInside DEF Collecting
<1>8. CASE RemoveOrphan(t)
  <2> PICK d \in call[t].todo :
         blobs' = blobs \ {d} /\ Goto(t, [call[t] EXCEPT !.todo = @ \ {d}])
    BY Zenon, <1>8 DEF RemoveOrphan
  <2> DEFINE c == [call[t] EXCEPT !.todo = call[t].todo \ {d}]
  <2>1. c \in Calls /\ c.pc = "orphans" /\ c.op = "gc" /\ c.todo = call[t].todo \ {d}
    BY Zenon, <1>1, <1>2, <1>8, MovedCall DEF Collecting, Calls, RemoveOrphan, At, IInv, Exclusive
  <2>2. Goto(t, c) /\ lock' = t /\ UNCHANGED <<rows, refs, acked, crashes>>
    BY <1>8, <1>1, Zenon DEF RemoveOrphan, At, IInv, Exclusive, Collecting
  <2>3. c.todo \cap rows' = {} BY <1>8, <2>1, <2>2 DEF RemoveOrphan, At, IInv, Doomed
  <2>4. TablesOK' BY <2>2 DEF IInv, TablesOK
  <2> HIDE DEF c
  <2> QED BY <1>3, <2>1, <2>2, <2>3, <2>4, StepInside DEF Collecting
<1>9. CASE Finish(t)
  <2>1. TablesOK' BY <1>9 DEF Finish, IInv, TablesOK
  <2> QED BY <1>3, <1>9, <2>1, StepInside DEF Finish, Idle, Collecting
<1> QED BY Zenon, <1>4, <1>5, <1>6, <1>7, <1>8, <1>9

\* A new call, and the death of the process.
LEMMA EntryStep ==
    ASSUME IInv,
           \/ Crash
           \/ \E t \in Threads, op \in Operations, d \in Digests, a \in Artifacts : Call(t, op, d, a)
    PROVE  IInv'
<1>1. CASE Crash
  <2>1. TablesOK' BY <1>1, BlobAssumption DEF Crash, IInv, TablesOK
  <2>2. CallsOK' /\ lock' = None /\ \A t \in Threads : call'[t] = Idle
    BY <1>1 DEF Crash, CallsOK
  <2> QED BY <2>1, <2>2 DEF IInv, Exclusive, Doomed, Idle, Collecting
<1>2. ASSUME NEW t \in Threads, NEW op \in Operations, NEW d \in Digests, NEW a \in Artifacts,
             Call(t, op, d, a)
      PROVE  IInv'
  <2> DEFINE c == [op |-> op, pc |-> First(op), d |-> d, a |-> a, todo |-> {}, gone |-> {}]
  <2>1. /\ First(op) \in {"count", "unreference", "select", "row"}
        /\ op = "gc" <=> First(op) = "select"
        /\ First(op) = "count" => op = "delete"
        /\ First(op) = "row" => op \in {"put", "reference"}
    BY BlobAssumption DEF First
  <2>2. c \in Calls BY <2>1 DEF Calls, Outside
  <2>3. c.pc = First(op) /\ c.op = op /\ c.gone = {} OBVIOUS
  <2>4. Goto(t, c) /\ call[t].pc = "idle" /\ UNCHANGED <<rows, refs, blobs, lock, acked, crashes>>
    BY Zenon, <1>2 DEF Call, At
  <2>5. TablesOK' BY <2>4 DEF IInv, TablesOK
  <2> HIDE DEF c
  <2> QED BY <2>1, <2>2, <2>3, <2>4, <2>5, StepOutside DEF Collecting
<1> QED BY <1>1, <1>2

-----------------------------------------------------------------------------

\* The invariant holds of a new store and is kept by every step.
THEOREM Invariance == Spec => []IInv
<1>1. Init => IInv
  BY BlobAssumption
  DEF Init, IInv, CallsOK, TablesOK, Exclusive, Doomed, Idle, Collecting
<1>2. IInv /\ [Next]_vars => IInv'
  <2> SUFFICES ASSUME IInv, [Next]_vars PROVE IInv' OBVIOUS
  <2>1. CASE Next
    BY <2>1, ExistsStep, WriteStep, DeleteStep, CollectStep, EntryStep DEF Next
  <2>2. CASE UNCHANGED vars
    BY Zenon, <2>2
    DEF vars, IInv, CallsOK, TablesOK, Exclusive, Doomed, Idle, Referenced
  <2> QED BY <2>1, <2>2
<1> QED BY <1>1, <1>2, PTL DEF Spec

\* References are always to rows: delete and collect_garbage take the references of a
\* row along with it, and add_reference writes none for a row that is gone.
THEOREM BlobTypeCorrect == Spec => []TypeOK
<1>1. IInv => TypeOK
  BY DEF IInv, TablesOK, Exclusive, TypeOK
<1> QED BY <1>1, Invariance, PTL

\* collect_garbage never removes the file of a referenced blob, for any number of
\* threads that put, reference, delete and collect beside it.
THEOREM CollectorSpares == Spec => CollectorSparesReferenced
<1> DEFINE Spares ==
       \A d \in blobs \ blobs' :
         (\E t \in Threads : call[t].op = "gc" /\ call'[t] # call[t]) => ~ Referenced(d)
<1>1. IInv /\ [Next]_vars => [Spares]_vars
  <2> SUFFICES ASSUME IInv, Next, NEW d \in blobs \ blobs',
                      NEW g \in Threads, call[g].op = "gc", call'[g] # call[g]
               PROVE  ~ Referenced(d)
    OBVIOUS
  <2>1. PICK t \in Threads : RemoveFile(t) \/ Sweep(t) \/ RemoveOrphan(t)
    BY Zenon DEF Next, Crash, Call, AskRow, AskFile, Persist, InsertRow, InsertReference,
           RemoveReference, Count, DeleteRow, Select, Commit, List, Finish
  <2>2. CASE RemoveFile(t)
    <3>1. call[t].pc = "remove_file" /\ \A u \in Threads \ {t} : call'[u] = call[u]
      BY <2>2 DEF RemoveFile, At, Goto, IInv, CallsOK
    <3> QED BY <3>1 DEF IInv, Exclusive, Collecting
  <2>3. CASE Sweep(t)
    BY <2>3 DEF Sweep, At, IInv, Doomed
  <2>4. CASE RemoveOrphan(t)
    <3>1. d \notin rows BY <2>4 DEF RemoveOrphan, At, IInv, Doomed
    <3> QED BY Zenon, <3>1 DEF IInv, TablesOK, Referenced
  <2> QED BY <2>1, <2>2, <2>3, <2>4
<1>2. Spec => [][Spares]_vars
  BY <1>1, Invariance, PTL DEF Spec
<1> QED BY <1>2 DEF CollectorSparesReferenced

-----------------------------------------------------------------------------
(* Live preparation. *)

Statuses == {"running", "asked", "waiting", "claimed", "executed", "succeeded", "failed"}

Trials ==
    [status : Statuses, decision : Decisions \cup {Blank}, sound : BOOLEAN, doubt : BOOLEAN,
     late : BOOLEAN, effects : Nat, evaluations : Seq(BOOLEAN)]

Places ==
    {"rest", "open", "locked", "initialized", "dispatch", "look", "launch", "runtime", "waits",
     "unevaluated", "evaluated", "prevalidate", "materialize", "setup", "claim"}

ShellStates ==
    [task : {"none", "start", "finish", "live"}, pc : Places,
     delegation : Delegations \cup {Blank}, first : BOOLEAN, found : Nat, evaluation : Nat,
     approver : Approvers \cup {Blank}]

PreparationTypes ==
    /\ records \in [RecordNames -> PreparationRecords \cup {Blank}]
    /\ phaseLock \in Shells \cup {Blank}
    /\ shell \in [Shells -> ShellStates]
    /\ trials \in Seq(Trials)
    /\ edition \in BOOLEAN
    /\ approver \in Approvers \cup {Blank}

\* A decision that lets the tool run.
Approves(u) == u.decision # Blank /\ u.decision.outcome = "approved"

\* The run: the tool is entered once, after the approval, and an exact evaluation is of a
\* run that succeeded soundly.
GoodTrial(u) ==
    /\ u.status \in {"running", "asked", "waiting", "claimed"} => u.effects = 0
    /\ u.status \in {"executed", "succeeded"} => u.effects = 1
    /\ u.effects <= 1
    /\ u.status \in {"claimed", "executed", "succeeded"} => Approves(u)
    /\ u.effects = 1 => Approves(u)
    /\ \A i \in DOMAIN u.evaluations :
          u.evaluations[i] = TRUE => u.status = "succeeded" /\ u.sound = TRUE

TrialInv == Len(trials) <= 1 /\ (trials # <<>> => GoodTrial(trials[1]))

\* evaluated.json names the run and a passed evaluation of it.
EvaluationStands ==
    /\ records["evaluated"] \in [run : {1}, evaluation : Nat]
    /\ VerifiesPreflight(records["evaluated"].evaluation)

\* The record files name what is there.
FilesInv ==
    /\ Has("initialized") => records["initialized"] \in [approver : Approvers]
    /\ Has("dispatch") => Has("initialized")
    /\ trials # <<>> => Has("dispatch")
    /\ Has("awaiting") => trials # <<>> /\ records["awaiting"] = [run |-> 1]
    /\ Has("evaluated") => Has("awaiting") /\ DecisionHolds /\ EvaluationStands
    /\ Has("bound") => Has("evaluated") /\ records["bound"] = records["evaluated"]
    /\ edition => Has("bound")
    /\ Has("ready") =>
          /\ edition
          /\ records["ready"].run = 1
          /\ records["ready"].evaluation = records["evaluated"].evaluation
          /\ records["ready"].approver = records["initialized"].approver

\* What a command knows where it stands.
ShellInv(s) ==
    LET m == shell[s] IN
    /\ m.task \in {"start", "finish"} /\ m.pc # "open" => phaseLock = s
    /\ m.task = "live" => m.pc \in {"open", "claim"}
    /\ m.task = "none" => m.pc = "rest"
    /\ m.pc \in {"initialized", "dispatch"} => m.task = "start" /\ Has("initialized")
    /\ m.pc \in {"look", "launch"} => m.task = "start" /\ Has("dispatch")
    /\ m.pc = "launch" => m.found = Len(trials)
    /\ m.pc \in {"runtime", "waits", "unevaluated"} => m.task \in {"start", "finish"} /\ trials # <<>>
    /\ m.pc \in {"evaluated", "prevalidate", "materialize", "setup"} =>
          m.task = "finish" /\ VerifiesPreflight(m.evaluation)
    /\ m.task = "finish" /\ m.pc \notin {"open", "locked"} => Has("awaiting") /\ DecisionHolds
    /\ m.task = "finish" => m.delegation \in Delegations
    /\ m.pc = "unevaluated" => m.task = "finish"
    /\ m.pc \in {"prevalidate", "materialize", "setup"} =>
          Has("evaluated") /\ m.evaluation = records["evaluated"].evaluation
    /\ m.pc \in {"materialize", "setup"} => Has("bound")
    /\ m.pc = "setup" => edition
    /\ m.pc = "claim" => m.task = "live" /\ edition /\ VerifiesPreflight(m.evaluation)

ClaimsInv == \A c \in starts : edition /\ VerifiesPreflight(c.evaluation)

PreparationInv ==
    PreparationTypes /\ TrialInv /\ FilesInv /\ (\A s \in Shells : ShellInv(s)) /\ ClaimsInv

-----------------------------------------------------------------------------
(* What every step keeps. *)

\* A run is not replaced, its decision and its evaluations stand.
TrialKept ==
    trials # <<>> =>
        /\ trials' # <<>>
        /\ trials[1].decision # Blank => trials'[1].decision = trials[1].decision
        /\ \A i \in DOMAIN trials[1].evaluations :
              /\ i \in DOMAIN trials'[1].evaluations
              /\ trials'[1].evaluations[i] = trials[1].evaluations[i]

\* What a command or a claim relies on is not taken back.
Grows ==
    /\ \A n \in RecordNames : Has(n) => Has(n)'
    /\ Has("evaluated") => records'["evaluated"] = records["evaluated"]
    /\ edition => edition'
    /\ trials # <<>> => trials' # <<>>
    /\ DecisionHolds => DecisionHolds'
    /\ \A e : VerifiesPreflight(e) => VerifiesPreflight(e)'

\* Steps of the run alone take nothing back.
LEMMA RunKept ==
  ASSUME TrialKept, records' = records, edition' = edition
  PROVE  Grows
  <1>1. DecisionHolds => DecisionHolds'
    BY DEF TrialKept, DecisionHolds, Approved
  <1>2. \A e : VerifiesPreflight(e) => VerifiesPreflight(e)'
    BY DEF TrialKept, VerifiesPreflight
  <1> QED
    BY <1>1, <1>2 DEF Grows, Has, TrialKept

\* Write-once files take nothing back when they grow.
LEMMA FilesKept ==
  ASSUME FilesInv, trials' = trials, edition => edition',
         \A n \in RecordNames : Has(n) => Has(n)' /\ records'[n] = records[n]
  PROVE  Grows
  <1>1. DecisionHolds => Has("initialized")
    BY DEF DecisionHolds, Approved, FilesInv
  <1>2. DecisionHolds => DecisionHolds'
    BY <1>1 DEF DecisionHolds, Approved, RecordNames
  <1>3. \A e : VerifiesPreflight(e) => VerifiesPreflight(e)'
    BY DEF VerifiesPreflight
  <1>4. Has("evaluated") => records'["evaluated"] = records["evaluated"]
    BY DEF RecordNames
  <1> QED
    BY <1>2, <1>3, <1>4 DEF Grows

\* The evaluation that evaluated.json names is not taken back.
LEMMA EvaluationKept ==
  ASSUME EvaluationStands, records'["evaluated"] = records["evaluated"],
         \A e : VerifiesPreflight(e) => VerifiesPreflight(e)'
  PROVE  EvaluationStands'
  <1>1. PICK e : e = records["evaluated"].evaluation
    OBVIOUS
  <1>2. VerifiesPreflight(e)
    BY Zenon, <1>1 DEF EvaluationStands
  <1>3. VerifiesPreflight(e)' /\ records'["evaluated"].evaluation = e
    BY Zenon, <1>1, <1>2
  <1>4. VerifiesPreflight(records["evaluated"].evaluation)'
    BY Zenon, <1>3 DEF VerifiesPreflight
  <1> QED
    BY Zenon, <1>4 DEF EvaluationStands

\* A step that leaves the run and the file alone leaves it standing.
LEMMA EvaluationSame ==
  ASSUME EvaluationStands, records'["evaluated"] = records["evaluated"], trials' = trials
  PROVE  EvaluationStands'
  BY EvaluationKept DEF VerifiesPreflight

\* A command that stands still keeps what it knows.
LEMMA StandsStill ==
  ASSUME NEW s \in Shells, ShellInv(s), Grows, shell'[s] = shell[s],
         phaseLock = s => phaseLock' = s /\ Len(trials') = Len(trials)
  PROVE  ShellInv(s)'
  <1>1. /\ Has("initialized") => Has("initialized")'
        /\ Has("dispatch") => Has("dispatch")'
        /\ Has("awaiting") => Has("awaiting")'
        /\ Has("evaluated") => Has("evaluated")'
        /\ Has("bound") => Has("bound")'
    BY DEF Grows, RecordNames
  <1>2. /\ edition => edition'
        /\ trials # <<>> => trials' # <<>>
        /\ DecisionHolds => DecisionHolds'
        /\ Has("evaluated") => records'["evaluated"] = records["evaluated"]
    BY DEF Grows
  <1>3. VerifiesPreflight(shell[s].evaluation) => VerifiesPreflight(shell[s].evaluation)'
    <2>1. ASSUME NEW e, VerifiesPreflight(e), e = shell[s].evaluation
          PROVE  VerifiesPreflight(shell[s].evaluation)'
      BY <2>1 DEF Grows, VerifiesPreflight
    <2> QED
      BY <2>1
  <1> QED
    BY ZenonT(40), <1>1, <1>2, <1>3 DEF ShellInv

-----------------------------------------------------------------------------
(* The run. *)

\* A preparation has at most one run, so a run that exists is the first.
LEMMA SomeRun ==
  ASSUME PreparationTypes, TrialInv, trials # <<>>
  PROVE  trials \in Seq(Trials) /\ Len(trials) = 1 /\ DOMAIN trials = 1..1
  <1>1. trials \in Seq(Trials) /\ Len(trials) \in Nat /\ DOMAIN trials = 1..Len(trials)
    BY DEF PreparationTypes
  <1>2. CASE Len(trials) = 0
    <2>1. trials = <<>>
      BY <1>1, <1>2
    <2> QED
      BY <2>1
  <1> QED
    BY <1>1, <1>2 DEF TrialInv

\* A new row of the run that is sound itself and keeps decision and evaluations is a step.
LEMMA RunReplaced ==
  ASSUME PreparationTypes, TrialInv, trials # <<>>,
         NEW u \in Trials, trials' = [trials EXCEPT ![1] = u], GoodTrial(u),
         trials[1].decision # Blank => u.decision = trials[1].decision,
         \A i \in DOMAIN trials[1].evaluations :
            i \in DOMAIN u.evaluations /\ u.evaluations[i] = trials[1].evaluations[i]
  PROVE  trials' \in Seq(Trials) /\ TrialInv' /\ TrialKept /\ Len(trials') = Len(trials)
  <1>1. trials \in Seq(Trials) /\ Len(trials) = 1 /\ DOMAIN trials = 1..1
    BY SomeRun
  <1>2. /\ trials' \in Seq(Trials) /\ Len(trials') = 1
        /\ trials'[1] = u /\ trials' # <<>>
    BY <1>1
  <1>3. TrialInv'
    <2>1. GoodTrial(trials[1])'
      BY <1>2 DEF GoodTrial, Approves
    <2> QED
      BY <1>2, <2>1 DEF TrialInv
  <1> QED
    BY <1>1, <1>2, <1>3 DEF TrialKept

\* The run as it stands before a step.
LEMMA RunNow ==
  ASSUME PreparationTypes, TrialInv, trials # <<>>
  PROVE  trials[1] \in Trials /\ GoodTrial(trials[1])
  BY SomeRun DEF TrialInv

\* A step of the runtime moves the status where the rules of the run allow it.
LEMMA RunTurned ==
  ASSUME PreparationTypes, TrialInv, trials # <<>>, NEW from, NEW to \in Statuses,
         trials[1].status = from, trials' = [trials EXCEPT ![1].status = to],
         GoodTrial([trials[1] EXCEPT !.status = to])
  PROVE  trials' \in Seq(Trials) /\ TrialInv' /\ TrialKept /\ Len(trials') = Len(trials)
  <1> DEFINE u == [trials[1] EXCEPT !.status = to]
  <1>1. u \in Trials /\ u.decision = trials[1].decision /\ u.evaluations = trials[1].evaluations
    BY RunNow DEF Trials
  <1>2. trials' = [trials EXCEPT ![1] = u]
    OBVIOUS
  <1> HIDE DEF u
  <1>3. GoodTrial(u)
    BY DEF u
  <1> QED
    BY Zenon, <1>1, <1>2, <1>3, RunReplaced

\* Every status change the runtime makes keeps the run sound.
LEMMA RunSteps ==
  ASSUME PreparationTypes, TrialInv, trials # <<>>, NEW s \in Shells,
         \/ Proposes(s) \/ AsksApproval(s) \/ TakesUp(s) \/ Succeeds(s) \/ Fails(s)
  PROVE  trials' \in Seq(Trials) /\ TrialInv' /\ TrialKept /\ Len(trials') = Len(trials)
  <1> DEFINE From == trials[1].status
             To(to) == [trials[1] EXCEPT !.status = to]
  <1>1. trials[1] \in Trials /\ GoodTrial(trials[1])
    BY RunNow
  <1>2. ASSUME NEW to \in Statuses
        PROVE  /\ To(to).status = to /\ To(to).decision = trials[1].decision
               /\ To(to).effects = trials[1].effects /\ To(to).sound = trials[1].sound
               /\ To(to).evaluations = trials[1].evaluations
    BY <1>1 DEF Trials
  <1>3. ASSUME NEW to \in Statuses, trials' = [trials EXCEPT ![1].status = to], GoodTrial(To(to))
        PROVE  trials' \in Seq(Trials) /\ TrialInv' /\ TrialKept /\ Len(trials') = Len(trials)
    BY Zenon, <1>3, RunTurned
  <1> HIDE DEF To
  <1>4. CASE Proposes(s)
    <2>1. GoodTrial(To("asked"))
      BY <1>1, <1>2, <1>4 DEF Proposes, RunTurns, GoodTrial, Approves, Statuses
    <2> QED
      BY <2>1, <1>3, <1>4 DEF Proposes, RunTurns, Statuses
  <1>5. CASE AsksApproval(s)
    <2>1. GoodTrial(To("waiting"))
      BY <1>1, <1>2, <1>5 DEF AsksApproval, GoodTrial, Approves, Statuses
    <2> QED
      BY <2>1, <1>3, <1>5 DEF AsksApproval, Statuses
  <1>6. CASE TakesUp(s)
    <2>1. GoodTrial(To("claimed"))
      BY <1>1, <1>2, <1>6 DEF TakesUp, RunTurns, Approved, GoodTrial, Approves, Statuses
    <2> QED
      BY <2>1, <1>3, <1>6 DEF TakesUp, RunTurns, Statuses
  <1>7. CASE Succeeds(s)
    <2>1. GoodTrial(To("succeeded"))
      BY <1>1, <1>2, <1>7 DEF Succeeds, RunTurns, GoodTrial, Approves, Statuses
    <2> QED
      BY <2>1, <1>3, <1>7 DEF Succeeds, RunTurns, Statuses
  <1>8. CASE Fails(s)
    <2>1. trials[1].status # "succeeded" /\ trials' = [trials EXCEPT ![1].status = "failed"]
      BY <1>8 DEF Fails, RunTurns
    <2>2. GoodTrial(To("failed"))
      BY <1>1, <1>2, <2>1 DEF GoodTrial, Approves, Statuses
    <2> QED
      BY <2>1, <2>2, <1>3 DEF Statuses
  <1> QED
    BY <1>4, <1>5, <1>6, <1>7, <1>8

\* The tool is entered by a claimed run only, so it is entered once and under an approval.
LEMMA RunExecutes ==
  ASSUME PreparationTypes, TrialInv, trials # <<>>, NEW s \in Shells, Executes(s)
  PROVE  trials' \in Seq(Trials) /\ TrialInv' /\ TrialKept /\ Len(trials') = Len(trials)
  <1> DEFINE one == trials[1].effects + 1
             u == [trials[1] EXCEPT !.status = "executed", !.effects = one]
  <1>1. trials[1] \in Trials /\ GoodTrial(trials[1]) /\ trials[1].status = "claimed"
    BY RunNow DEF Executes
  <1>2. trials' = [trials EXCEPT ![1] = u]
    BY Zenon DEF Executes
  <1>3. one = 1
    BY <1>1 DEF GoodTrial
  <1> HIDE DEF one
  <1>4. /\ u \in Trials /\ u.decision = trials[1].decision
        /\ u.evaluations = trials[1].evaluations /\ u.sound = trials[1].sound
        /\ u.status = "executed" /\ u.effects = 1
    BY Zenon, <1>1, <1>3 DEF Trials, Statuses
  <1> HIDE DEF u
  <1>5. GoodTrial(u)
    BY <1>1, <1>4 DEF GoodTrial, Approves
  <1> QED
    BY Zenon, <1>4, <1>2, <1>5, RunReplaced

\* An evaluation is appended; an exact one only to a run that succeeded soundly.
LEMMA RunEvaluated ==
  ASSUME PreparationTypes, TrialInv, trials # <<>>, NEW exact \in BOOLEAN,
         exact => trials[1].status = "succeeded" /\ trials[1].sound,
         trials' = [trials EXCEPT ![1].evaluations = Append(trials[1].evaluations, exact)]
  PROVE  trials' \in Seq(Trials) /\ TrialInv' /\ TrialKept /\ Len(trials') = Len(trials)
  <1> DEFINE more == Append(trials[1].evaluations, exact)
             u == [trials[1] EXCEPT !.evaluations = more]
  <1>1. trials[1] \in Trials /\ GoodTrial(trials[1])
    BY RunNow
  <1>2. trials[1].evaluations \in Seq(BOOLEAN) /\ trials[1].sound \in BOOLEAN
    BY <1>1 DEF Trials
  <1>3. /\ more \in Seq(BOOLEAN) /\ DOMAIN more = 1..(Len(trials[1].evaluations) + 1)
        /\ DOMAIN trials[1].evaluations = 1..Len(trials[1].evaluations)
        /\ Len(trials[1].evaluations) \in Nat
        /\ \A i \in DOMAIN trials[1].evaluations : more[i] = trials[1].evaluations[i]
        /\ more[Len(trials[1].evaluations) + 1] = exact
    BY <1>2
  <1>4. trials' = [trials EXCEPT ![1] = u]
    OBVIOUS
  <1> HIDE DEF more
  <1>5. /\ u \in Trials /\ u.decision = trials[1].decision /\ u.evaluations = more
        /\ u.status = trials[1].status /\ u.effects = trials[1].effects
        /\ u.sound = trials[1].sound
    BY Zenon, <1>1, <1>3 DEF Trials
  <1> HIDE DEF u
  <1>6. \A i \in DOMAIN u.evaluations :
           u.evaluations[i] = TRUE => u.status = "succeeded" /\ u.sound = TRUE
    BY <1>1, <1>2, <1>3, <1>5 DEF GoodTrial
  <1>7. GoodTrial(u)
    BY <1>1, <1>5, <1>6 DEF GoodTrial, Approves
  <1>8. \A i \in DOMAIN trials[1].evaluations :
           i \in DOMAIN u.evaluations /\ u.evaluations[i] = trials[1].evaluations[i]
    BY <1>3, <1>5
  <1> QED
    BY Zenon, <1>4, <1>5, <1>7, <1>8, RunReplaced

\* A doubt or an expiry leaves the run's decision and evaluations alone.
LEMMA RunDoubted ==
  ASSUME PreparationTypes, TrialInv, trials # <<>>,
         \/ trials' = [trials EXCEPT ![1].doubt = TRUE]
         \/ trials' = [trials EXCEPT ![1].late = TRUE]
  PROVE  trials' \in Seq(Trials) /\ TrialInv' /\ TrialKept /\ Len(trials') = Len(trials)
  <1>1. trials[1] \in Trials /\ GoodTrial(trials[1])
    BY RunNow
  <1>2. PICK u \in Trials : /\ trials' = [trials EXCEPT ![1] = u]
                            /\ u.decision = trials[1].decision
                            /\ u.evaluations = trials[1].evaluations
                            /\ u.status = trials[1].status /\ u.effects = trials[1].effects
                            /\ u.sound = trials[1].sound
    <2>1. CASE trials' = [trials EXCEPT ![1].doubt = TRUE]
      <3>1. [trials[1] EXCEPT !.doubt = TRUE] \in Trials
        BY Zenon, <1>1 DEF Trials
      <3> QED
        BY ZenonT(40), <1>1, <2>1, <3>1 DEF Trials
    <2>2. CASE trials' = [trials EXCEPT ![1].late = TRUE]
      <3>1. [trials[1] EXCEPT !.late = TRUE] \in Trials
        BY Zenon, <1>1 DEF Trials
      <3> QED
        BY ZenonT(40), <1>1, <2>2, <3>1 DEF Trials
    <2> QED
      BY <2>1, <2>2
  <1>3. GoodTrial(u)
    BY <1>1, <1>2 DEF GoodTrial, Approves
  <1> QED
    BY Zenon, <1>2, <1>3, RunReplaced

\* A human decision is the first one and concerns a run that has not entered its tool.
LEMMA RunDecided ==
  ASSUME PreparationTypes, TrialInv, NEW a \in Approvers, NEW outcome \in {"approved", "denied"},
         Decides(a, outcome)
  PROVE  trials' \in Seq(Trials) /\ TrialInv' /\ TrialKept /\ Len(trials') = Len(trials)
  <1> DEFINE good == trials[1].sound /\ trials[1].status = "waiting"
             u == [trials[1] EXCEPT !.decision = [outcome |-> outcome, by |-> a], !.sound = good]
  <1>1. /\ trials # <<>> /\ trials[1] \in Trials /\ GoodTrial(trials[1])
        /\ trials[1].status \in {"asked", "waiting"} /\ trials[1].decision = Blank
    BY RunNow DEF Decides
  <1>2. trials' = [trials EXCEPT ![1] = u]
    BY Zenon DEF Decides
  <1>3. [outcome |-> outcome, by |-> a] \in Decisions /\ good \in BOOLEAN
    BY DEF Decisions
  <1> HIDE DEF good
  <1>4. /\ u \in Trials /\ u.evaluations = trials[1].evaluations
        /\ u.status = trials[1].status /\ u.effects = trials[1].effects
    BY Zenon, <1>1, <1>3 DEF Trials
  <1> HIDE DEF u
  <1>5. GoodTrial(u)
    BY <1>1, <1>4 DEF GoodTrial, Approves
  <1> QED
    BY Zenon, <1>1, <1>2, <1>4, <1>5, RunReplaced

\* The first run starts sound.
LEMMA RunStarted ==
  ASSUME PreparationTypes, TrialInv, Len(trials) = 0, trials' = Append(trials, NewTrial)
  PROVE  trials' \in Seq(Trials) /\ TrialInv' /\ TrialKept /\ trials' # <<>>
  <1>1. NewTrial \in Trials /\ GoodTrial(NewTrial)
    BY DEF NewTrial, Trials, GoodTrial, Statuses
  <1>2. trials \in Seq(Trials) /\ trials = <<>>
    BY DEF PreparationTypes
  <1>3. /\ trials' \in Seq(Trials) /\ Len(trials') = 1 /\ trials'[1] = NewTrial
        /\ trials' # <<>>
    BY <1>1, <1>2
  <1>4. GoodTrial(trials[1])'
    BY Zenon, <1>1, <1>3 DEF GoodTrial, Approves, NewTrial
  <1> QED
    BY <1>2, <1>3, <1>4 DEF TrialInv, TrialKept

-----------------------------------------------------------------------------
(* Steps that write no file of the preparation. *)

\* A step that writes no record, edition or claim keeps everything but the commands' places.
LEMMA QuietStep ==
  ASSUME PreparationInv, TrialKept, trials' \in Seq(Trials), TrialInv',
         records' = records, edition' = edition, starts' = starts,
         approver' \in Approvers \cup {Blank}, phaseLock' \in Shells \cup {Blank},
         shell' \in [Shells -> ShellStates], trials' # <<>> => Has("dispatch")
  PROVE  PreparationTypes' /\ TrialInv' /\ FilesInv' /\ ClaimsInv' /\ Grows
  <1>1. Grows
    BY RunKept
  <1>2. PreparationTypes'
    BY DEF PreparationInv, PreparationTypes
  <1>3. /\ DecisionHolds => DecisionHolds'
        /\ trials # <<>> => trials' # <<>>
        /\ EvaluationStands => EvaluationStands'
    BY <1>1, EvaluationKept DEF Grows
  <1>4. FilesInv'
    BY Zenon, <1>3 DEF PreparationInv, FilesInv, Has
  <1>5. ClaimsInv'
    BY <1>1 DEF PreparationInv, ClaimsInv, Grows
  <1> QED
    BY <1>1, <1>2, <1>4, <1>5

\* The other commands stand still, and one of them that has the lock sees no new run.
Alone(s) ==
    /\ \A t \in Shells \ {s} : shell'[t] = shell[t]
    /\ \A t \in Shells \ {s} : phaseLock = t => phaseLock' = t /\ Len(trials') = Len(trials)

\* One command moves; what the others know stays true.
LEMMA OthersStandStill ==
  ASSUME PreparationInv, Grows, NEW s \in Shells, Alone(s), ShellInv(s)'
  PROVE  \A t \in Shells : ShellInv(t)'
  <1>1. ASSUME NEW t \in Shells \ {s} PROVE ShellInv(t)'
    BY StandsStill DEF PreparationInv, Alone
  <1> QED
    BY <1>1

\* The acting command holds the lock, so that no other one has it.
LEMMA HoldsAlone ==
  ASSUME PreparationInv, NEW s \in Shells, phaseLock = s,
         \A t \in Shells \ {s} : shell'[t] = shell[t]
  PROVE  Alone(s)
  BY DEF Alone

\* A command that ends rests and gives up the lock it held.
LEMMA Ended ==
  ASSUME PreparationTypes, NEW s \in Shells, Ends(s)
  PROVE  /\ shell' \in [Shells -> ShellStates] /\ phaseLock' \in Shells \cup {Blank}
         /\ ShellInv(s)'
         /\ \A t \in Shells \ {s} : shell'[t] = shell[t] /\ (phaseLock = t => phaseLock' = t)
  <1>1. Resting \in ShellStates
    BY DEF Resting, ShellStates, Places
  <1>2. shell'[s] = Resting
    BY ZenonT(40) DEF Ends, PreparationTypes
  <1>3. ShellInv(s)'
    BY <1>2 DEF ShellInv, Resting
  <1> QED
    BY <1>1, <1>3 DEF Ends, PreparationTypes

\* A command moves on; m is where it then stands.
LEMMA MovedOn ==
  ASSUME PreparationTypes, NEW s \in Shells, NEW m \in ShellStates, shell' = [shell EXCEPT ![s] = m]
  PROVE  /\ shell' \in [Shells -> ShellStates] /\ shell'[s] = m
         /\ \A t \in Shells \ {s} : shell'[t] = shell[t]
  BY DEF PreparationTypes

\* A step that leaves the run alone keeps it.
LEMMA SameRun ==
  ASSUME PreparationInv, trials' = trials
  PROVE  TrialKept /\ trials' \in Seq(Trials) /\ TrialInv' /\ Len(trials') = Len(trials)
         /\ (trials' # <<>> => Has("dispatch"))
  BY Zenon DEF TrialKept, PreparationInv, PreparationTypes, TrialInv, GoodTrial, Approves, FilesInv

\* A command that ends and has written nothing: an answer given again, a refusal, a death.
LEMMA QuietEnd ==
  ASSUME PreparationInv, NEW s \in Shells, Ends(s), TrialKept, trials' \in Seq(Trials), TrialInv',
         Len(trials') = Len(trials), trials' # <<>> => Has("dispatch"),
         UNCHANGED <<records, edition, starts, approver>>
  PROVE  PreparationInv'
  <1>1. /\ shell' \in [Shells -> ShellStates] /\ phaseLock' \in Shells \cup {Blank}
        /\ ShellInv(s)' /\ Alone(s)
    BY Ended DEF PreparationInv, Alone
  <1>2. PreparationTypes' /\ TrialInv' /\ FilesInv' /\ ClaimsInv' /\ Grows
    BY ZenonT(40), <1>1, QuietStep DEF PreparationInv, PreparationTypes
  <1> QED
    BY <1>1, <1>2, OthersStandStill DEF PreparationInv

\* Commands that answer from finished records, or refuse, change nothing else.
LEMMA Ending ==
  ASSUME PreparationInv, NEW s \in Shells,
         ReplaysStart(s) \/ ReplaysFinish(s) \/ AlreadyStarted(s) \/ Refuses(s)
  PROVE  PreparationInv'
  BY SameRun, QuietEnd DEF ReplaysStart, ReplaysFinish, AlreadyStarted, Refuses,
     storeTables, surroundings

\* A command may die anywhere: files and run stay, the lock is freed by the system.
LEMMA Dying ==
  ASSUME PreparationInv, NEW s \in Shells, Dies(s)
  PROVE  PreparationInv'
  <1>1. CASE trials' = trials
    BY <1>1, SameRun, QuietEnd DEF Dies, storeTables, surroundings
  <1>2. CASE shell[s].pc = "runtime" /\ trials' = [trials EXCEPT ![1].doubt = TRUE]
    <2>1. trials # <<>> /\ Has("dispatch")
      BY <1>2 DEF PreparationInv, ShellInv, FilesInv
    <2>2. trials' \in Seq(Trials) /\ TrialInv' /\ TrialKept /\ Len(trials') = Len(trials)
      BY <1>2, <2>1, RunDoubted DEF PreparationInv
    <2> QED
      BY <2>1, <2>2, QuietEnd DEF Dies, surroundings
  <1> QED
    BY <1>1, <1>2 DEF Dies

\* The world around: nothing but the run, its evaluations and the surroundings change.
LEMMA AroundStep ==
  ASSUME PreparationInv, TrialKept, trials' \in Seq(Trials), TrialInv', Len(trials') = Len(trials),
         trials' # <<>> => Has("dispatch"), UNCHANGED <<records, phaseLock, shell, edition, starts>>,
         approver' \in Approvers \cup {Blank}
  PROVE  PreparationInv'
  <1>1. PreparationTypes' /\ TrialInv' /\ FilesInv' /\ ClaimsInv' /\ Grows
    BY QuietStep DEF PreparationInv, PreparationTypes
  <1>2. ASSUME NEW t \in Shells PROVE ShellInv(t)'
    BY <1>1, StandsStill DEF PreparationInv
  <1> QED
    BY <1>1, <1>2 DEF PreparationInv

\* Approvers, the clock, other evaluators and drift beside the commands.
LEMMA World ==
  ASSUME PreparationInv,
         \/ \E a \in Approvers, outcome \in {"approved", "denied"} : Decides(a, outcome)
         \/ Ages \/ (\E exact \in BOOLEAN : EvaluatesToo(exact)) \/ Drifts
  PROVE  PreparationInv'
  <1> USE DEF surroundings, storeTables
  <1>1. CASE \E a \in Approvers, outcome \in {"approved", "denied"} : Decides(a, outcome)
    <2>1. PICK a \in Approvers, outcome \in {"approved", "denied"} : Decides(a, outcome)
      BY <1>1
    <2>2. trials' \in Seq(Trials) /\ TrialInv' /\ TrialKept /\ Len(trials') = Len(trials)
      BY <2>1, RunDecided DEF PreparationInv
    <2>3. Has("dispatch")
      BY Zenon, <2>1 DEF Decides, PreparationInv, FilesInv
    <2> QED
      BY Zenon, <2>1, <2>2, <2>3, AroundStep DEF Decides, PreparationInv, PreparationTypes
  <1>2. CASE Ages
    <2>1. trials # <<>> /\ Has("dispatch")
      BY <1>2 DEF Ages, PreparationInv, FilesInv
    <2>2. trials' \in Seq(Trials) /\ TrialInv' /\ TrialKept /\ Len(trials') = Len(trials)
      BY <1>2, <2>1, RunDoubted DEF PreparationInv, Ages
    <2> QED
      BY <1>2, <2>1, <2>2, AroundStep DEF Ages, PreparationInv, PreparationTypes
  <1>3. CASE \E exact \in BOOLEAN : EvaluatesToo(exact)
    <2>1. PICK exact \in BOOLEAN : EvaluatesToo(exact)
      BY <1>3
    <2>2. trials # <<>> /\ Has("dispatch")
      BY <2>1 DEF EvaluatesToo, PreparationInv, FilesInv
    <2>3. trials' \in Seq(Trials) /\ TrialInv' /\ TrialKept /\ Len(trials') = Len(trials)
      BY Zenon, <2>1, <2>2, RunEvaluated DEF PreparationInv, EvaluatesToo, TraceHolds
    <2> QED
      BY Zenon, <2>1, <2>2, <2>3, AroundStep DEF EvaluatesToo, PreparationInv, PreparationTypes
  <1>4. CASE Drifts
    <2>1. approver' \in Approvers \cup {Blank}
      BY <1>4 DEF Drifts, PreparationInv, PreparationTypes
    <2> QED
      BY <1>4, <2>1, SameRun, AroundStep DEF Drifts
  <1> QED
    BY Zenon, <1>1, <1>2, <1>3, <1>4

\* The steps inside the runtime that the command does not see.
LEMMA Running ==
  ASSUME PreparationInv, NEW s \in Shells,
         Proposes(s) \/ TakesUp(s) \/ Executes(s) \/ Succeeds(s) \/ Fails(s)
  PROVE  PreparationInv'
  <1>1. shell[s].pc = "runtime"
    BY DEF Proposes, TakesUp, Executes, Succeeds, Fails, RunTurns
  <1>2. trials # <<>> /\ Has("dispatch")
    BY Zenon, <1>1 DEF PreparationInv, ShellInv, FilesInv
  <1>3. trials' \in Seq(Trials) /\ TrialInv' /\ TrialKept /\ Len(trials') = Len(trials)
    BY <1>2, RunSteps, RunExecutes DEF PreparationInv
  <1>4. UNCHANGED <<records, phaseLock, shell, edition, starts, approver>>
    BY DEF Proposes, TakesUp, Executes, Succeeds, Fails, RunTurns, surroundings
  <1> QED
    BY Zenon, <1>2, <1>3, <1>4, AroundStep DEF PreparationInv, PreparationTypes

\* A command that moves on without writing a file: its new state is m.
LEMMA QuietMove ==
  ASSUME PreparationInv, NEW s \in Shells, NEW m \in ShellStates, shell' = [shell EXCEPT ![s] = m],
         TrialKept, trials' \in Seq(Trials), TrialInv', trials' # <<>> => Has("dispatch"),
         UNCHANGED <<records, edition, starts, approver>>, phaseLock' \in Shells \cup {Blank},
         \A t \in Shells \ {s} : phaseLock = t => phaseLock' = t /\ Len(trials') = Len(trials),
         Grows => ShellInv(s)'
  PROVE  PreparationInv'
  <1>1. /\ shell' \in [Shells -> ShellStates]
        /\ \A t \in Shells \ {s} : shell'[t] = shell[t]
    BY Zenon, MovedOn DEF PreparationInv
  <1>2. Alone(s)
    BY <1>1 DEF Alone
  <1>3. PreparationTypes' /\ TrialInv' /\ FilesInv' /\ ClaimsInv' /\ Grows
    BY Zenon, <1>1, QuietStep DEF PreparationInv, PreparationTypes
  <1> QED
    BY <1>2, <1>3, OthersStandStill DEF PreparationInv

\* The same with the run as it was.
LEMMA PlainMove ==
  ASSUME PreparationInv, NEW s \in Shells, NEW m \in ShellStates, shell' = [shell EXCEPT ![s] = m],
         UNCHANGED <<records, phaseLock, trials, edition, starts, approver>>,
         ShellInv(s)'
  PROVE  PreparationInv'
  <1>1. phaseLock \in Shells \cup {Blank}
    BY DEF PreparationInv, PreparationTypes
  <1> QED
    BY Zenon, <1>1, SameRun, QuietMove

\* A command begins without the lock and knows nothing yet.
LEMMA Beginning ==
  ASSUME PreparationInv, NEW s \in Shells,
         \/ Begins(s, "start", Blank)
         \/ \E task \in {"finish", "live"}, d \in Delegations : Begins(s, task, d)
  PROVE  PreparationInv'
  <1>1. PICK task \in {"start", "finish", "live"}, d \in Delegations \cup {Blank} :
           Begins(s, task, d) /\ (task = "finish" => d \in Delegations)
    BY Zenon
  <1> DEFINE m == [Resting EXCEPT !.task = task, !.delegation = d, !.pc = "open"]
  <1>2. shell' = [shell EXCEPT ![s] = m]
    BY ZenonT(40), <1>1 DEF Begins
  <1>3. /\ m \in ShellStates /\ m.task = task /\ m.pc = "open" /\ m.delegation = d
    BY Zenon DEF Resting, ShellStates, Places
  <1> HIDE DEF m
  <1>4. shell'[s] = m
    BY <1>2 DEF PreparationInv, PreparationTypes
  <1>5. ShellInv(s)'
    BY Zenon, <1>1, <1>3, <1>4 DEF ShellInv
  <1> QED
    BY Zenon, <1>1, <1>2, <1>3, <1>5, PlainMove DEF Begins, storeTables, surroundings

\* phase.lock is taken only when it is free.
LEMMA Locking ==
  ASSUME PreparationInv, NEW s \in Shells, Locks(s)
  PROVE  PreparationInv'
  <1> DEFINE m == [shell[s] EXCEPT !.pc = "locked"]
  <1>1. shell[s] \in ShellStates /\ shell[s].task \in {"start", "finish"} /\ ShellInv(s)
    BY Zenon DEF Locks, PreparationInv, PreparationTypes
  <1>2. shell' = [shell EXCEPT ![s] = m]
    BY DEF Locks, Proceeds
  <1>3. /\ m \in ShellStates /\ m.task = shell[s].task /\ m.pc = "locked"
        /\ m.delegation = shell[s].delegation
    BY <1>1 DEF ShellStates, Places
  <1> HIDE DEF m
  <1>4. shell'[s] = m /\ phaseLock' = s
    BY <1>2 DEF PreparationInv, PreparationTypes, Locks
  <1>5. ShellInv(s)'
    BY Zenon, <1>1, <1>3, <1>4 DEF ShellInv
  <1>6. \A t \in Shells \ {s} : phaseLock # t
    BY Zenon, PreparationAssumption DEF Locks
  <1>7. UNCHANGED <<records, trials, edition, starts, approver>>
    BY DEF Locks, storeTables, surroundings
  <1> QED
    BY ZenonT(40), <1>2, <1>3, <1>4, <1>5, <1>6, <1>7, SameRun, QuietMove

\* Where a command stands after it has proceeded.
LEMMA Proceeded ==
  ASSUME PreparationInv, NEW s \in Shells, NEW pc \in Places, Proceeds(s, pc)
  PROVE  /\ shell'[s] \in ShellStates /\ shell' = [shell EXCEPT ![s] = shell'[s]]
         /\ shell'[s].pc = pc /\ shell'[s].task = shell[s].task
         /\ shell'[s].delegation = shell[s].delegation
         /\ shell'[s].evaluation = shell[s].evaluation
  <1>1. shell \in [Shells -> ShellStates]
    BY DEF PreparationInv, PreparationTypes
  <1>2. shell'[s] = [shell[s] EXCEPT !.pc = pc] /\ shell' = [shell EXCEPT ![s] = shell'[s]]
    BY <1>1 DEF Proceeds
  <1> QED
    BY <1>1, <1>2 DEF ShellStates

\* The steps of a start that only look or move on.
LEMMA Enlisting ==
  ASSUME PreparationInv, NEW s \in Shells, Enlists(s) \/ ResumesRun(s) \/ StillWaits(s) \/ Looks(s)
  PROVE  PreparationInv'
  <1> USE DEF storeTables, surroundings, Stands
  <1>1. ShellInv(s) /\ FilesInv /\ shell[s] \in ShellStates
    BY Zenon DEF PreparationInv, PreparationTypes
  <1>2. UNCHANGED <<records, phaseLock, trials, edition, starts, approver>>
    BY DEF Enlists, ResumesRun, StillWaits, Looks
  <1>3. CASE Enlists(s)
    <2>1. Proceeds(s, "dispatch") /\ shell[s].task = "start" /\ shell[s].pc = "initialized"
      BY Zenon, <1>3 DEF Enlists
    <2>2. ShellInv(s)'
      BY ZenonT(40), <1>1, <1>2, <2>1, Proceeded DEF ShellInv, Has, Places
    <2> QED
      BY Zenon, <1>2, <2>1, <2>2, Proceeded, PlainMove DEF Places
  <1>4. CASE ResumesRun(s)
    <2>1. /\ Proceeds(s, "runtime") /\ shell[s].task = "start" /\ shell[s].pc = "launch"
          /\ shell[s].found = 1
      BY Zenon, <1>4 DEF ResumesRun
    <2>2. trials # <<>>
      <3>1. Len(trials) = 1
        BY Zenon, <1>1, <2>1 DEF ShellInv
      <3> QED
        BY <3>1
    <2>3. ShellInv(s)'
      BY Zenon, <1>1, <1>2, <2>1, <2>2, Proceeded DEF ShellInv, Places
    <2> QED
      BY Zenon, <1>2, <2>1, <2>3, Proceeded, PlainMove DEF Places
  <1>5. CASE StillWaits(s)
    <2>1. Proceeds(s, "waits") /\ shell[s].pc = "runtime"
      BY Zenon, <1>5 DEF StillWaits
    <2>2. /\ DecisionHolds' <=> DecisionHolds
          /\ Has("awaiting")' <=> Has("awaiting")
      BY Zenon, <1>2 DEF DecisionHolds, Approved, Has
    <2>3. ShellInv(s)'
      BY Zenon, <1>1, <1>2, <2>1, <2>2, Proceeded DEF ShellInv, Places
    <2> QED
      BY ZenonT(40), <1>2, <2>1, <2>3, Proceeded, PlainMove DEF Places
  <1>6. CASE Looks(s)
    <2> DEFINE n == Len(trials)
               m == [shell[s] EXCEPT !.pc = "launch", !.found = n]
    <2>1. shell' = [shell EXCEPT ![s] = m] /\ shell[s].task = "start" /\ shell[s].pc = "look"
      BY Zenon, <1>6 DEF Looks
    <2>2. n \in Nat
      BY DEF PreparationInv, PreparationTypes
    <2> HIDE DEF n
    <2>3. m \in ShellStates /\ m.task = "start" /\ m.pc = "launch" /\ m.found = n
      BY Zenon, <1>1, <2>1, <2>2 DEF ShellStates, Places
    <2> HIDE DEF m
    <2>4. shell'[s] = m
      BY Zenon, <2>1 DEF PreparationInv, PreparationTypes
    <2>5. n = Len(trials')
      BY <1>2 DEF n
    <2>6. ShellInv(s)'
      BY Zenon, <1>1, <1>2, <2>1, <2>3, <2>4, <2>5 DEF ShellInv, Has
    <2> QED
      BY Zenon, <1>2, <2>1, <2>3, <2>6, PlainMove
  <1> QED
    BY <1>3, <1>4, <1>5, <1>6

\* The run asks for approval and the start command waits for it.
LEMMA Asking ==
  ASSUME PreparationInv, NEW s \in Shells, AsksApproval(s)
  PROVE  PreparationInv'
  <1>1. ShellInv(s) /\ FilesInv /\ Proceeds(s, "waits") /\ shell[s].pc = "runtime"
    BY Zenon DEF PreparationInv, AsksApproval
  <1>2. trials # <<>> /\ Has("dispatch")
    BY Zenon, <1>1 DEF ShellInv, FilesInv
  <1>3. trials' \in Seq(Trials) /\ TrialInv' /\ TrialKept /\ Len(trials') = Len(trials)
    BY <1>2, RunSteps DEF PreparationInv
  <1>4. UNCHANGED <<records, phaseLock, edition, starts, approver>> /\ phaseLock \in Shells \cup {Blank}
    BY Zenon DEF AsksApproval, surroundings, PreparationInv, PreparationTypes
  <1>5. ASSUME Grows PROVE ShellInv(s)'
    <2>1. /\ trials' # <<>>
          /\ DecisionHolds => DecisionHolds'
          /\ Has("awaiting")' <=> Has("awaiting")
      BY Zenon, <1>2, <1>4, <1>5 DEF Grows, Has
    <2> QED
      BY Zenon, <1>1, <1>4, <2>1, Proceeded DEF ShellInv, Places
  <1> QED
    BY Zenon, <1>1, <1>2, <1>3, <1>4, <1>5, Proceeded, QuietMove DEF Places

\* A run is started only when none was found under the lock.
LEMMA Starting ==
  ASSUME PreparationInv, NEW s \in Shells, StartsRun(s)
  PROVE  PreparationInv'
  <1>1. /\ ShellInv(s) /\ FilesInv /\ Proceeds(s, "runtime") /\ shell[s].pc = "launch"
        /\ shell[s].task = "start" /\ shell[s].found = 0
    BY Zenon DEF PreparationInv, StartsRun, Stands
  <1>2. Len(trials) = 0 /\ Has("dispatch") /\ phaseLock = s
    BY Zenon, <1>1 DEF ShellInv
  <1>3. trials' \in Seq(Trials) /\ TrialInv' /\ TrialKept /\ trials' # <<>>
    BY Zenon, <1>2, RunStarted DEF PreparationInv, StartsRun
  <1>4. UNCHANGED <<records, phaseLock, edition, starts, approver>>
    BY Zenon DEF StartsRun, surroundings
  <1>5. ShellInv(s)'
    BY Zenon, <1>1, <1>2, <1>3, <1>4, Proceeded DEF ShellInv, Places
  <1> QED
    BY ZenonT(40), <1>1, <1>2, <1>3, <1>4, <1>5, Proceeded, QuietMove DEF Places

\* finish goes on only with the decision of the approver that was initialised.
LEMMA Checking ==
  ASSUME PreparationInv, NEW s \in Shells, ChecksApproval(s)
  PROVE  PreparationInv'
  <1>1. /\ ShellInv(s) /\ Proceeds(s, "runtime")
        /\ shell[s].task = "finish" /\ shell[s].pc = "locked"
        /\ Has("awaiting") /\ Approved
        /\ trials[1].decision.by = records["initialized"].approver
    BY Zenon DEF PreparationInv, ChecksApproval, Stands, AwaitingHolds, DecisionHolds
  <1>2. UNCHANGED <<records, phaseLock, trials, edition, starts, approver>>
    BY DEF ChecksApproval, storeTables, surroundings
  <1>3. trials' # <<>> /\ DecisionHolds' /\ Has("awaiting")'
    BY Zenon, <1>1, <1>2 DEF Approved, DecisionHolds, Has
  <1>4. ShellInv(s)'
    BY Zenon, <1>1, <1>2, <1>3, Proceeded DEF ShellInv, Places
  <1> QED
    BY ZenonT(40), <1>1, <1>2, <1>4, Proceeded, PlainMove DEF Places

\* finish finds the one exact evaluation of the run, or none.
LEMMA Listing ==
  ASSUME PreparationInv, NEW s \in Shells, ListsEvaluations(s)
  PROVE  PreparationInv'
  <1>1. /\ ShellInv(s) /\ FilesInv /\ TrialInv /\ PreparationTypes /\ shell[s] \in ShellStates
        /\ shell[s].task = "finish" /\ shell[s].pc = "runtime"
        /\ UNCHANGED <<records, phaseLock, trials, edition, starts, approver>>
    BY DEF PreparationInv, PreparationTypes, ListsEvaluations, Stands, surroundings, storeTables
  <1>2. trials # <<>> /\ Has("awaiting") /\ DecisionHolds /\ phaseLock = s
    BY Zenon, <1>1 DEF ShellInv
  <1>3. trials' # <<>> /\ Has("awaiting")' /\ DecisionHolds' /\ phaseLock' = s
    BY Zenon, <1>1, <1>2 DEF Has, DecisionHolds, Approved
  <1>4. CASE Proceeds(s, "unevaluated")
    <2>1. ShellInv(s)'
      BY ZenonT(40), <1>1, <1>3, <1>4, Proceeded DEF ShellInv, Places
    <2> QED
      BY ZenonT(40), <1>1, <1>4, <2>1, Proceeded, PlainMove DEF Places
  <1>5. CASE /\ OneExact
             /\ shell' = [shell EXCEPT ![s].pc = "evaluated", ![s].evaluation = 1]
    <2> DEFINE m == [shell[s] EXCEPT !.pc = "evaluated", !.evaluation = 1]
    <2>1. m \in ShellStates /\ m.task = "finish" /\ m.pc = "evaluated" /\ m.evaluation = 1
          /\ m.delegation = shell[s].delegation
      BY Zenon, <1>1 DEF ShellStates, Places
    <2>2. shell' = [shell EXCEPT ![s] = m]
      BY Zenon, <1>5
    <2> HIDE DEF m
    <2>3. shell'[s] = m
      BY <1>1, <2>2 DEF PreparationTypes
    <2>4. 1 \in DOMAIN trials'[1].evaluations /\ trials'[1].evaluations[1]
      BY <1>1, <1>5 DEF OneExact
    <2>5. shell'[s].evaluation = 1
      BY Zenon, <2>1, <2>3
    <2>6. VerifiesPreflight(shell[s].evaluation)'
      BY Zenon, <1>3, <2>4, <2>5 DEF VerifiesPreflight
    <2>7. ShellInv(s)'
      BY ZenonT(40), <1>1, <1>3, <2>1, <2>3, <2>6 DEF ShellInv
    <2> QED
      BY Zenon, <1>1, <2>1, <2>2, <2>7, PlainMove
  <1> QED
    BY Zenon, <1>4, <1>5 DEF ListsEvaluations

\* finish appends an exact evaluation to those that are there by then.
LEMMA Evaluating ==
  ASSUME PreparationInv, NEW s \in Shells, Evaluates(s)
  PROVE  PreparationInv'
  <1> DEFINE e == Len(trials[1].evaluations) + 1
             m == [shell[s] EXCEPT !.pc = "evaluated", !.evaluation = e]
  <1>1. /\ ShellInv(s) /\ FilesInv /\ TrialInv /\ PreparationTypes /\ shell[s] \in ShellStates
        /\ shell[s].task = "finish" /\ shell[s].pc = "unevaluated"
    BY DEF PreparationInv, PreparationTypes, Evaluates, Stands
  <1>2. trials # <<>> /\ Has("dispatch") /\ Has("awaiting") /\ DecisionHolds /\ phaseLock = s
    BY Zenon, <1>1 DEF ShellInv, FilesInv
  <1>3. /\ UNCHANGED <<records, phaseLock, edition, starts, approver>>
        /\ shell' = [shell EXCEPT ![s] = m]
    BY Zenon DEF Evaluates, surroundings
  <1>4. /\ trials' = [trials EXCEPT ![1].evaluations = Append(trials[1].evaluations, TRUE)]
        /\ trials[1].status = "succeeded" /\ trials[1].sound
    BY Zenon DEF Evaluates, TraceHolds
  <1>5. /\ trials' \in Seq(Trials) /\ TrialInv' /\ TrialKept /\ Len(trials') = Len(trials)
    BY Zenon, <1>1, <1>2, <1>4, RunEvaluated
  <1>6. trials[1] \in Trials /\ trials \in Seq(Trials) /\ DOMAIN trials = 1..1
    BY Zenon, <1>1, <1>2, SomeRun, RunNow
  <1>7. trials[1].evaluations \in Seq(BOOLEAN)
    BY Zenon, <1>6 DEF Trials
  <1>8. trials'[1].evaluations = Append(trials[1].evaluations, TRUE)
    <2>1. trials'[1] = [trials[1] EXCEPT !.evaluations = Append(trials[1].evaluations, TRUE)]
      BY <1>4, <1>6
    <2>2. "evaluations" \in DOMAIN trials[1]
      BY Zenon, <1>6 DEF Trials
    <2> QED
      BY Zenon, <2>1, <2>2
  <1>9. e \in Nat /\ e \in DOMAIN trials'[1].evaluations /\ trials'[1].evaluations[e]
    BY <1>7, <1>8
  <1> HIDE DEF e
  <1>10. /\ m \in ShellStates /\ m.task = "finish" /\ m.pc = "evaluated" /\ m.evaluation = e
         /\ m.delegation = shell[s].delegation
    BY Zenon, <1>1, <1>9 DEF ShellStates, Places
  <1> HIDE DEF m
  <1>11. shell'[s] = m
    BY <1>1, <1>3 DEF PreparationTypes
  <1>12. VerifiesPreflight(shell[s].evaluation)'
    <2>1. trials' # <<>>
      BY Zenon, <1>2, <1>5 DEF TrialKept
    <2>2. shell'[s].evaluation = e
      BY Zenon, <1>10, <1>11
    <2> QED
      BY Zenon, <1>9, <2>1, <2>2 DEF VerifiesPreflight
  <1>13. ASSUME Grows PROVE ShellInv(s)'
    <2>1. DecisionHolds' /\ Has("awaiting")'
      BY Zenon, <1>2, <1>3, <1>13 DEF Grows, Has
    <2> QED
      BY ZenonT(40), <1>1, <1>2, <1>3, <1>10, <1>11, <1>12, <2>1 DEF ShellInv
  <1> QED
    BY Zenon, <1>2, <1>3, <1>5, <1>10, <1>13, QuietMove

\* A live start checks preflight, policy, delegation and edition before it claims.
LEMMA SettingUp ==
  ASSUME PreparationInv, NEW s \in Shells, NEW e \in 1..(MaxEvaluations + 1), SetsUp(s, e)
  PROVE  PreparationInv'
  <1> DEFINE m == [shell[s] EXCEPT !.pc = "claim", !.evaluation = e, !.approver = approver]
  <1>1. /\ shell[s] \in ShellStates /\ shell[s].task = "live" /\ approver \in Approvers \cup {Blank}
        /\ edition /\ VerifiesPreflight(e)
    BY DEF PreparationInv, PreparationTypes, SetsUp, Stands, StartSetup, Prevalidates, EditionHolds
  <1>2. /\ UNCHANGED <<records, phaseLock, trials, edition, starts, approver>>
        /\ shell' = [shell EXCEPT ![s] = m]
    BY Zenon DEF SetsUp, surroundings, storeTables
  <1>3. e \in Nat
    BY PreparationAssumption
  <1>4. m \in ShellStates /\ m.task = "live" /\ m.pc = "claim" /\ m.evaluation = e
    BY Zenon, <1>1, <1>3 DEF ShellStates, Places
  <1> HIDE DEF m
  <1>5. shell'[s] = m
    BY <1>2 DEF PreparationInv, PreparationTypes
  <1>6. edition' /\ VerifiesPreflight(e)'
    BY Zenon, <1>1, <1>2 DEF VerifiesPreflight
  <1>7. VerifiesPreflight(shell[s].evaluation)'
    BY <1>4, <1>5, <1>6 DEF VerifiesPreflight
  <1>8. ShellInv(s)'
    BY Zenon, <1>4, <1>5, <1>6, <1>7 DEF ShellInv
  <1> QED
    BY Zenon, <1>2, <1>4, <1>8, PlainMove

-----------------------------------------------------------------------------
(* Steps that write a file.  The command that writes has the lock. *)

\* The fields of the preparation's records, and that they are records of its directory.
LEMMA RecordFields ==
  ASSUME NEW e \in Nat
  PROVE  /\ [run |-> 1].run = 1
         /\ [run |-> 1, evaluation |-> e].run = 1
         /\ [run |-> 1, evaluation |-> e].evaluation = e
         /\ [run |-> 1, evaluation |-> e] \in [run : {1}, evaluation : Nat]
         /\ [run |-> 1, evaluation |-> e] \in [run : Nat, evaluation : Nat]
  BY Zenon

\* What evaluated.json holds.
LEMMA EvaluatedFields ==
  ASSUME NEW r \in [run : {1}, evaluation : Nat]
  PROVE  /\ r = [run |-> 1, evaluation |-> r.evaluation] /\ r.run = 1 /\ r.evaluation \in Nat
         /\ r \in [run : Nat, evaluation : Nat]
  OBVIOUS

\* The approver that initialized.json names is one.
LEMMA InitializedField ==
  ASSUME NEW r \in [approver : Approvers]
  PROVE  r.approver \in Approvers
  OBVIOUS

\* The records but one stay, and that one was absent or is the same.
LEMMA Published ==
  ASSUME PreparationInv, NEW n \in RecordNames, NEW record \in PreparationRecords,
         Publishable(n, record), Publishes(n, record)
  PROVE  /\ records' \in [RecordNames -> PreparationRecords \cup {Blank}]
         /\ records'[n] = record /\ Has(n)'
         /\ \A k \in RecordNames : k # n => records'[k] = records[k] /\ (Has(k)' <=> Has(k))
         /\ \A k \in RecordNames : Has(k) => Has(k)' /\ records'[k] = records[k]
  <1>1. record # Blank
    BY Zenon, PreparationAssumption
  <1> QED
    BY <1>1 DEF PreparationInv, PreparationTypes, Publishable, Publishes, Has

\* A step of s that writes files and leaves the run alone.
LEMMA WritingStep ==
  ASSUME PreparationInv, NEW s \in Shells, phaseLock = s,
         records' \in [RecordNames -> PreparationRecords \cup {Blank}],
         \A k \in RecordNames : Has(k) => Has(k)' /\ records'[k] = records[k],
         edition' \in BOOLEAN, edition => edition', UNCHANGED <<trials, starts, approver>>,
         shell' \in [Shells -> ShellStates], phaseLock' \in Shells \cup {Blank},
         \A t \in Shells \ {s} : shell'[t] = shell[t],
         FilesInv', Grows => ShellInv(s)'
  PROVE  PreparationInv'
  <1>1. Grows
    BY Zenon, FilesKept DEF PreparationInv
  <1>2. PreparationTypes'
    BY Zenon DEF PreparationInv, PreparationTypes
  <1>3. TrialInv'
    BY Zenon, SameRun
  <1>4. ClaimsInv'
    BY Zenon, <1>1 DEF PreparationInv, ClaimsInv, Grows
  <1>5. \A t \in Shells : ShellInv(t)'
    BY Zenon, <1>1, HoldsAlone, OthersStandStill
  <1> QED
    BY Zenon, <1>2, <1>3, <1>4, <1>5 DEF PreparationInv

\* initialized.json names the sole approver.
LEMMA Initializing ==
  ASSUME PreparationInv, NEW s \in Shells, Initializes(s)
  PROVE  PreparationInv'
  <1>1. /\ ShellInv(s) /\ FilesInv /\ Proceeds(s, "initialized")
        /\ shell[s].task = "start" /\ shell[s].pc = "locked"
        /\ UNCHANGED <<phaseLock, edition, trials, starts, approver>>
        /\ phaseLock \in Shells \cup {Blank} /\ edition \in BOOLEAN
    BY Zenon DEF PreparationInv, PreparationTypes, Initializes, Stands, storeTables, surroundings
  <1>2. phaseLock = s
    BY Zenon, <1>1 DEF ShellInv
  <1>3. /\ shell' \in [Shells -> ShellStates]
        /\ \A t \in Shells \ {s} : shell'[t] = shell[t]
    BY Zenon, <1>1, Proceeded, MovedOn DEF Places, PreparationInv
  <1>4. CASE records' = records /\ Has("initialized")
    <2>1. ShellInv(s)'
      BY Zenon, <1>1, <1>2, <1>4, Proceeded DEF ShellInv, Places, Has
    <2> QED
      BY ZenonT(40), <1>1, <1>4, <2>1, Proceeded, PlainMove DEF Places
  <1>5. CASE /\ ~Has("initialized") /\ approver # Blank
             /\ Publishes("initialized", [approver |-> approver])
    <2>1. [approver |-> approver] \in [approver : Approvers]
      BY Zenon, <1>5 DEF PreparationInv, PreparationTypes
    <2>2. /\ "initialized" \in RecordNames /\ [approver |-> approver] \in PreparationRecords
          /\ Publishable("initialized", [approver |-> approver])
      BY Zenon, <1>5, <2>1 DEF RecordNames, PreparationRecords, Publishable, Has
    <2>3. /\ records' \in [RecordNames -> PreparationRecords \cup {Blank}]
          /\ records'["initialized"] = [approver |-> approver] /\ Has("initialized")'
          /\ \A k \in RecordNames :
                k # "initialized" => records'[k] = records[k] /\ (Has(k)' <=> Has(k))
          /\ \A k \in RecordNames : Has(k) => Has(k)' /\ records'[k] = records[k]
      BY Zenon, <1>5, <2>2, Published
    <2>4. /\ ~Has("dispatch") /\ trials = <<>> /\ ~Has("awaiting") /\ ~Has("evaluated")
          /\ ~Has("bound") /\ ~edition /\ ~Has("ready")
      BY Zenon, <1>1, <1>5 DEF FilesInv
    <2>5. FilesInv'
      BY Zenon, <1>1, <2>1, <2>3, <2>4 DEF FilesInv, RecordNames
    <2>6. ShellInv(s)'
      BY ZenonT(40), <1>1, <1>2, <2>3, Proceeded DEF ShellInv, Places
    <2> QED
      BY Zenon, <1>1, <1>2, <1>3, <2>3, <2>5, <2>6, WritingStep
  <1> QED
    BY Zenon, <1>4, <1>5 DEF Initializes

\* dispatch.json is written before any run exists.
LEMMA Dispatching ==
  ASSUME PreparationInv, NEW s \in Shells, Dispatches(s)
  PROVE  PreparationInv'
  <1> DEFINE again == ~Has("dispatch")
             m == [shell[s] EXCEPT !.pc = "look", !.first = again]
  <1>1. /\ ShellInv(s) /\ FilesInv /\ shell[s] \in ShellStates
        /\ shell[s].task = "start" /\ shell[s].pc = "dispatch"
        /\ shell' = [shell EXCEPT ![s] = m] /\ again \in BOOLEAN
        /\ UNCHANGED <<phaseLock, edition, trials, starts, approver>>
        /\ phaseLock \in Shells \cup {Blank} /\ edition \in BOOLEAN
    BY Zenon DEF PreparationInv, PreparationTypes, Dispatches, Stands, storeTables, surroundings
  <1> HIDE DEF again
  <1>2. phaseLock = s /\ Has("initialized")
    BY <1>1 DEF ShellInv
  <1>3. m \in ShellStates /\ m.task = "start" /\ m.pc = "look"
    BY Zenon, <1>1 DEF ShellStates, Places
  <1> HIDE DEF m
  <1>4. /\ shell' \in [Shells -> ShellStates] /\ shell'[s] = m
        /\ \A t \in Shells \ {s} : shell'[t] = shell[t]
    BY Zenon, <1>1, <1>3, MovedOn DEF PreparationInv
  <1>5. /\ "dispatch" \in RecordNames /\ records["initialized"] \in PreparationRecords
        /\ Publishable("dispatch", records["initialized"])
        /\ Publishes("dispatch", records["initialized"])
    BY <1>1, <1>2 DEF RecordNames, FilesInv, PreparationRecords, Dispatches
  <1>6. /\ records' \in [RecordNames -> PreparationRecords \cup {Blank}]
        /\ Has("dispatch")'
        /\ \A k \in RecordNames :
              k # "dispatch" => records'[k] = records[k] /\ (Has(k)' <=> Has(k))
        /\ \A k \in RecordNames : Has(k) => Has(k)' /\ records'[k] = records[k]
    BY Zenon, <1>5, Published
  <1>7. DecisionHolds' <=> DecisionHolds
    BY Zenon, <1>1, <1>6 DEF DecisionHolds, Approved, RecordNames
  <1>8. Has("evaluated") /\ EvaluationStands =>
          EvaluationStands' /\ records'["evaluated"] = records["evaluated"]
    BY Zenon, <1>1, <1>6, EvaluationSame DEF RecordNames
  <1>9. FilesInv'
    BY Zenon, <1>1, <1>2, <1>6, <1>7, <1>8 DEF FilesInv, RecordNames
  <1>10. ShellInv(s)'
    BY Zenon, <1>1, <1>2, <1>3, <1>4, <1>6 DEF ShellInv
  <1> QED
    BY Zenon, <1>1, <1>2, <1>4, <1>6, <1>9, <1>10, WritingStep

\* awaiting.json names the run that waits.
LEMMA Awaiting ==
  ASSUME PreparationInv, NEW s \in Shells, Awaits(s)
  PROVE  PreparationInv'
  <1>1. /\ ShellInv(s) /\ FilesInv /\ PreparationTypes
        /\ shell[s].task = "start" /\ shell[s].pc = "waits" /\ Ends(s)
        /\ UNCHANGED <<edition, trials, starts, approver>> /\ edition \in BOOLEAN
    BY Zenon DEF PreparationInv, PreparationTypes, Awaits, Stands, storeTables, surroundings
  <1>2. phaseLock = s /\ trials # <<>>
    BY Zenon, <1>1 DEF ShellInv
  <1>3. /\ "awaiting" \in RecordNames /\ [run |-> 1] \in PreparationRecords
        /\ Publishable("awaiting", [run |-> 1]) /\ Publishes("awaiting", [run |-> 1])
    BY Zenon DEF RecordNames, PreparationRecords, Awaits
  <1>4. /\ records' \in [RecordNames -> PreparationRecords \cup {Blank}]
        /\ records'["awaiting"] = [run |-> 1] /\ Has("awaiting")'
        /\ \A k \in RecordNames :
              k # "awaiting" => records'[k] = records[k] /\ (Has(k)' <=> Has(k))
        /\ \A k \in RecordNames : Has(k) => Has(k)' /\ records'[k] = records[k]
    BY Zenon, <1>3, Published
  <1>5. DecisionHolds' <=> DecisionHolds
    BY Zenon, <1>1, <1>4 DEF DecisionHolds, Approved, RecordNames
  <1>6. Has("evaluated") /\ EvaluationStands => EvaluationStands'
    BY Zenon, <1>1, <1>4, EvaluationSame DEF RecordNames
  <1>7. FilesInv'
    BY Zenon, <1>1, <1>2, <1>4, <1>5, <1>6 DEF FilesInv, RecordNames
  <1> QED
    BY Zenon, <1>1, <1>2, <1>4, <1>7, Ended, WritingStep

\* evaluated.json is written after the evaluation it names.
LEMMA Recording ==
  ASSUME PreparationInv, NEW s \in Shells, WritesEvaluated(s)
  PROVE  PreparationInv'
  <1>1. /\ ShellInv(s) /\ FilesInv /\ Proceeds(s, "prevalidate")
        /\ shell[s].task = "finish" /\ shell[s].pc = "evaluated"
        /\ UNCHANGED <<phaseLock, edition, trials, starts, approver>>
        /\ phaseLock \in Shells \cup {Blank} /\ edition \in BOOLEAN
    BY Zenon DEF PreparationInv, PreparationTypes, WritesEvaluated, Stands, storeTables, surroundings
  <1> DEFINE e == shell[s].evaluation
             r == [run |-> 1, evaluation |-> e]
  <1>2. /\ phaseLock = s /\ Has("awaiting") /\ DecisionHolds /\ VerifiesPreflight(e)
    BY Zenon, <1>1 DEF ShellInv
  <1>3. e \in Nat
    <2>1. shell[s] \in ShellStates
      BY DEF PreparationInv, PreparationTypes
    <2> QED
      BY Zenon, <2>1 DEF ShellStates
  <1>4. EvaluatedRecord(s) = r
    <2>1. records["awaiting"] = [run |-> 1]
      BY Zenon, <1>1, <1>2 DEF FilesInv
    <2>2. records["awaiting"].run = 1
      BY Zenon, <1>3, <2>1, RecordFields
    <2> QED
      BY Zenon, <2>2 DEF EvaluatedRecord
  <1>5. r.evaluation = e /\ r \in [run : {1}, evaluation : Nat] /\ r \in PreparationRecords
    BY Zenon, <1>3, RecordFields DEF PreparationRecords
  <1> HIDE DEF r
  <1>6. "evaluated" \in RecordNames /\ Publishable("evaluated", r) /\ Publishes("evaluated", r)
    BY Zenon, <1>4 DEF RecordNames, WritesEvaluated
  <1>7. /\ records' \in [RecordNames -> PreparationRecords \cup {Blank}]
        /\ records'["evaluated"] = r /\ Has("evaluated")'
        /\ \A k \in RecordNames :
              k # "evaluated" => records'[k] = records[k] /\ (Has(k)' <=> Has(k))
        /\ \A k \in RecordNames : Has(k) => Has(k)' /\ records'[k] = records[k]
    BY Zenon, <1>6, <1>5, Published
  <1>8. DecisionHolds'
    BY Zenon, <1>1, <1>2, <1>7 DEF DecisionHolds, Approved, RecordNames
  <1>9. EvaluationStands'
    <2>1. VerifiesPreflight(records["evaluated"].evaluation)'
      BY Zenon, <1>1, <1>2, <1>7, <1>5 DEF VerifiesPreflight
    <2> QED
      BY Zenon, <1>7, <1>5, <2>1 DEF EvaluationStands
  <1>10. Has("ready") => records'["evaluated"] = records["evaluated"]
    BY Zenon, <1>1, <1>7 DEF FilesInv, RecordNames
  <1>11. Has("bound") => records'["evaluated"] = records["evaluated"]
    BY Zenon, <1>1, <1>7 DEF FilesInv, RecordNames
  <1>12. FilesInv'
    BY Zenon, <1>1, <1>2, <1>7, <1>8, <1>9, <1>10, <1>11 DEF FilesInv, RecordNames
  <1>13. /\ shell' \in [Shells -> ShellStates]
        /\ \A t \in Shells \ {s} : shell'[t] = shell[t]
    BY Zenon, <1>1, Proceeded, MovedOn DEF Places, PreparationInv
  <1>14. ShellInv(s)'
    <2>1. Has("awaiting")'
      BY Zenon, <1>2, <1>7 DEF RecordNames
    <2>2. shell'[s].evaluation = e
      BY Zenon, <1>1, Proceeded DEF Places
    <2>3. VerifiesPreflight(shell[s].evaluation)'
      BY Zenon, <1>1, <1>2, <2>2 DEF VerifiesPreflight
    <2>4. shell'[s].evaluation = records'["evaluated"].evaluation
      BY Zenon, <1>7, <1>5, <2>2
    <2> HIDE DEF e
    <2> QED
      BY ZenonT(40), <1>1, <1>2, <1>7, <1>8, <2>1, <2>3, <2>4, Proceeded DEF ShellInv, Places
  <1> QED
    BY Zenon, <1>1, <1>2, <1>7, <1>12, <1>13, <1>14, WritingStep

\* The binding record repeats evaluated.json.
LEMMA Binding ==
  ASSUME PreparationInv, NEW s \in Shells, Binds(s)
  PROVE  PreparationInv'
  <1>1. /\ ShellInv(s) /\ FilesInv /\ Proceeds(s, "materialize")
        /\ shell[s].task = "finish" /\ shell[s].pc = "prevalidate"
        /\ UNCHANGED <<phaseLock, edition, trials, starts, approver>>
        /\ phaseLock \in Shells \cup {Blank} /\ edition \in BOOLEAN
    BY Zenon DEF PreparationInv, PreparationTypes, Binds, Stands, storeTables, surroundings
  <1>2. /\ phaseLock = s /\ Has("awaiting") /\ DecisionHolds /\ Has("evaluated")
        /\ VerifiesPreflight(shell[s].evaluation)
        /\ shell[s].evaluation = records["evaluated"].evaluation
    BY Zenon, <1>1 DEF ShellInv
  <1>3. records["evaluated"] \in [run : {1}, evaluation : Nat] /\ EvaluationStands
    BY Zenon, <1>1, <1>2 DEF FilesInv, EvaluationStands
  <1>4. /\ "bound" \in RecordNames /\ records["evaluated"] \in PreparationRecords
        /\ Publishable("bound", records["evaluated"])
        /\ Publishes("bound", records["evaluated"])
    <2>1. records["evaluated"] \in PreparationRecords
      BY Zenon, <1>3, EvaluatedFields DEF PreparationRecords
    <2> QED
      BY Zenon, <2>1 DEF RecordNames, Binds
  <1>5. /\ records' \in [RecordNames -> PreparationRecords \cup {Blank}]
        /\ records'["bound"] = records["evaluated"] /\ Has("bound")'
        /\ \A k \in RecordNames :
              k # "bound" => records'[k] = records[k] /\ (Has(k)' <=> Has(k))
        /\ \A k \in RecordNames : Has(k) => Has(k)' /\ records'[k] = records[k]
    BY Zenon, <1>4, Published
  <1>6. /\ DecisionHolds' /\ Has("awaiting")' /\ Has("evaluated")'
        /\ records'["evaluated"] = records["evaluated"]
    BY Zenon, <1>1, <1>2, <1>5 DEF DecisionHolds, Approved, RecordNames
  <1>7. EvaluationStands'
    BY Zenon, <1>1, <1>3, <1>6, EvaluationSame
  <1>8. FilesInv'
    BY Zenon, <1>1, <1>2, <1>5, <1>6, <1>7 DEF FilesInv, RecordNames
  <1>9. /\ shell' \in [Shells -> ShellStates]
        /\ \A t \in Shells \ {s} : shell'[t] = shell[t]
    BY Zenon, <1>1, Proceeded, MovedOn DEF Places, PreparationInv
  <1>10. ShellInv(s)'
    <2>1. shell'[s].evaluation = shell[s].evaluation
      BY Zenon, <1>1, Proceeded DEF Places
    <2>2. VerifiesPreflight(shell[s].evaluation)'
      BY Zenon, <1>1, <1>2, <2>1 DEF VerifiesPreflight
    <2> QED
      BY ZenonT(40), <1>1, <1>2, <1>5, <1>6, <2>1, <2>2, Proceeded DEF ShellInv, Places
  <1> QED
    BY Zenon, <1>1, <1>2, <1>5, <1>8, <1>9, <1>10, WritingStep

\* The edition is put on disk after the record that binds it.
LEMMA Materializing ==
  ASSUME PreparationInv, NEW s \in Shells, Materializes(s)
  PROVE  PreparationInv'
  <1>1. /\ ShellInv(s) /\ FilesInv /\ Proceeds(s, "setup") /\ edition' = TRUE
        /\ shell[s].task = "finish" /\ shell[s].pc = "materialize"
        /\ UNCHANGED <<records, phaseLock, trials, starts, approver>>
        /\ phaseLock \in Shells \cup {Blank}
        /\ records \in [RecordNames -> PreparationRecords \cup {Blank}]
    BY Zenon DEF PreparationInv, PreparationTypes, Materializes, Stands, storeTables, surroundings
  <1>2. /\ phaseLock = s /\ Has("awaiting") /\ DecisionHolds /\ Has("evaluated") /\ Has("bound")
        /\ VerifiesPreflight(shell[s].evaluation)
        /\ shell[s].evaluation = records["evaluated"].evaluation
    BY Zenon, <1>1 DEF ShellInv
  <1>3. /\ DecisionHolds' <=> DecisionHolds
        /\ EvaluationStands => EvaluationStands'
        /\ \A n \in RecordNames : Has(n)' <=> Has(n)
    BY Zenon, <1>1, EvaluationSame DEF DecisionHolds, Approved, Has
  <1>4. FilesInv'
    BY Zenon, <1>1, <1>2, <1>3 DEF FilesInv, RecordNames
  <1>5. /\ shell' \in [Shells -> ShellStates]
        /\ \A t \in Shells \ {s} : shell'[t] = shell[t]
    BY ZenonT(40), <1>1, Proceeded, MovedOn DEF Places, PreparationInv
  <1>6. ShellInv(s)'
    <2>1. Has("awaiting")' /\ Has("evaluated")' /\ Has("bound")'
      BY ZenonT(40), <1>2, <1>3 DEF RecordNames
    <2>2. shell'[s].evaluation = shell[s].evaluation
      BY Zenon, <1>1, Proceeded DEF Places
    <2>3. VerifiesPreflight(shell[s].evaluation)'
      BY Zenon, <1>1, <1>2, <2>2 DEF VerifiesPreflight
    <2> QED
      BY ZenonT(40), <1>1, <1>2, <1>3, <2>1, <2>2, <2>3, Proceeded DEF ShellInv, Places
  <1> QED
    BY Zenon, <1>1, <1>2, <1>3, <1>4, <1>5, <1>6, WritingStep

\* What ready.json holds.
LEMMA ReadyFields ==
  ASSUME NEW a \in Approvers, NEW d \in Delegations, NEW e \in Nat, NEW r,
         r = [run |-> 1, evaluation |-> e, approver |-> a, delegation |-> d]
  PROVE  /\ r \in [run : Nat, evaluation : Nat, approver : Approvers, delegation : Delegations]
         /\ r.run = 1 /\ r.evaluation = e /\ r.approver = a
  BY Zenon

\* ready.json is written last, from records that are all there.
LEMMA Readying ==
  ASSUME PreparationInv, NEW s \in Shells, Readies(s)
  PROVE  PreparationInv'
  <1>1. /\ ShellInv(s) /\ FilesInv /\ PreparationTypes
        /\ shell[s].task = "finish" /\ shell[s].pc = "setup" /\ Ends(s)
        /\ UNCHANGED <<edition, trials, starts, approver>> /\ edition \in BOOLEAN
        /\ Has("initialized") /\ records["initialized"].approver = approver
    BY Zenon DEF PreparationInv, PreparationTypes, Readies, Stands, storeTables, surroundings,
           BindingsHold
  <1> DEFINE e == shell[s].evaluation
  <1>2. /\ phaseLock = s /\ e = records["evaluated"].evaluation /\ Has("evaluated") /\ edition
        /\ shell[s].delegation \in Delegations
    BY Zenon, <1>1 DEF ShellInv
  <1>3. records["evaluated"].run = 1 /\ e \in Nat /\ approver \in Approvers
    <2>1. /\ records["evaluated"] \in [run : {1}, evaluation : Nat]
          /\ records["initialized"] \in [approver : Approvers]
      BY Zenon, <1>1, <1>2 DEF FilesInv, EvaluationStands
    <2>2. records["evaluated"].run = 1 /\ e \in Nat
      BY Zenon, <1>2, <2>1, EvaluatedFields
    <2>3. records["initialized"].approver \in Approvers
      BY Zenon, <2>1, InitializedField
    <2> QED
      BY Zenon, <1>1, <2>2, <2>3
  <1> DEFINE r == ReadyRecord(s)
  <1>4. /\ r \in PreparationRecords
        /\ r.run = 1 /\ r.evaluation = e /\ r.approver = approver
    <2>1. r = [run |-> 1, evaluation |-> e, approver |-> approver,
               delegation |-> shell[s].delegation]
      BY Zenon, <1>2, <1>3 DEF ReadyRecord
    <2> HIDE DEF r
    <2>2. r \in [run : Nat, evaluation : Nat, approver : Approvers, delegation : Delegations]
      BY Zenon, <1>2, <1>3, <2>1, ReadyFields
    <2>3. r.run = 1 /\ r.evaluation = e /\ r.approver = approver
      BY Zenon, <1>2, <1>3, <2>1, ReadyFields
    <2> QED
      BY Zenon, <2>2, <2>3 DEF PreparationRecords
  <1>5. "ready" \in RecordNames /\ Publishable("ready", r) /\ Publishes("ready", r)
    BY Zenon DEF RecordNames, Readies
  <1> HIDE DEF r
  <1>6. /\ records' \in [RecordNames -> PreparationRecords \cup {Blank}]
        /\ records'["ready"] = r /\ Has("ready")'
        /\ \A k \in RecordNames :
              k # "ready" => records'[k] = records[k] /\ (Has(k)' <=> Has(k))
        /\ \A k \in RecordNames : Has(k) => Has(k)' /\ records'[k] = records[k]
    BY Zenon, <1>4, <1>5, Published
  <1>7. DecisionHolds' <=> DecisionHolds
    BY Zenon, <1>1, <1>6 DEF DecisionHolds, Approved, RecordNames
  <1>8. Has("evaluated") /\ EvaluationStands =>
          EvaluationStands' /\ records'["evaluated"] = records["evaluated"]
    BY Zenon, <1>1, <1>6, EvaluationSame DEF RecordNames
  <1>9. FilesInv'
    BY Zenon, <1>1, <1>2, <1>4, <1>6, <1>7, <1>8 DEF FilesInv, RecordNames
  <1> QED
    BY ZenonT(40), <1>1, <1>2, <1>6, <1>9, Ended, WritingStep

\* A live claim rests on what its setup checked, none of which was taken back since.
LEMMA Claiming ==
  ASSUME PreparationInv, NEW s \in Shells, ClaimsLiveStart(s)
  PROVE  PreparationInv'
  <1>1. /\ Ends(s) /\ UNCHANGED <<records, edition, trials, approver>>
        /\ shell[s].pc = "claim" /\ ShellInv(s) /\ ClaimsInv
    BY Zenon DEF ClaimsLiveStart, Stands, surroundings, PreparationInv
  <1>2. /\ shell' \in [Shells -> ShellStates] /\ phaseLock' \in Shells \cup {Blank}
        /\ ShellInv(s)' /\ Alone(s)
    BY Zenon, <1>1, Ended DEF PreparationInv, Alone
  <1>3. TrialKept /\ TrialInv'
    BY Zenon, <1>1, SameRun
  <1>4. Grows
    BY Zenon, <1>1, <1>3, RunKept
  <1>5. PreparationTypes'
    BY Zenon, <1>1, <1>2 DEF PreparationInv, PreparationTypes
  <1>6. FilesInv'
    BY Zenon, <1>1, EvaluationSame DEF PreparationInv, FilesInv, Has, DecisionHolds, Approved
  <1>7. ClaimsInv'
    <2>1. edition /\ VerifiesPreflight(shell[s].evaluation)
      BY Zenon, <1>1 DEF ShellInv
    <2>2. \A c \in starts' : VerifiesPreflight(c.evaluation)
      <3>1. Readiness(s).evaluation = shell[s].evaluation
        BY Zenon DEF Readiness
      <3>2. starts' = starts \cup {Readiness(s)}
        BY Zenon DEF ClaimsLiveStart
      <3>3. \A c \in starts : VerifiesPreflight(c.evaluation)
        BY Zenon, <1>1 DEF ClaimsInv
      <3> QED
        BY ZenonT(40), <2>1, <3>1, <3>2, <3>3
    <2> QED
      BY Zenon, <1>1, <2>1, <2>2 DEF ClaimsInv, VerifiesPreflight
  <1> QED
    BY Zenon, <1>2, <1>3, <1>4, <1>5, <1>6, <1>7, OthersStandStill DEF PreparationInv

-----------------------------------------------------------------------------

\* An empty directory has nothing to back.
LEMMA PreparationInitially ==
  ASSUME PreparationInit
  PROVE  PreparationInv
  <1>1. PreparationTypes
    <2>1. Resting \in ShellStates
      BY Zenon DEF Resting, ShellStates, Places
    <2>2. shell \in [Shells -> ShellStates]
      BY <2>1 DEF PreparationInit
    <2>3. trials \in Seq(Trials)
      BY DEF PreparationInit
    <2> QED
      BY ZenonT(40), <2>2, <2>3 DEF PreparationInit, PreparationTypes
  <1>2. TrialInv /\ ClaimsInv
    BY DEF PreparationInit, TrialInv, ClaimsInv
  <1>3. FilesInv
    BY ZenonT(40) DEF PreparationInit, FilesInv, Has, RecordNames
  <1>4. \A s \in Shells : ShellInv(s)
    BY Zenon DEF PreparationInit, ShellInv, Resting
  <1> QED
    BY Zenon, <1>1, <1>2, <1>3, <1>4 DEF PreparationInv

\* Every step of every command, and of the world beside them, keeps the invariant.
LEMMA PreparationStep ==
  ASSUME PreparationInv, [PreparationNext]_preparationVars
  PROVE  PreparationInv'
  <1>1. CASE UNCHANGED preparationVars
    BY Zenon, <1>1, SameRun, AroundStep DEF preparationVars, storeTables, surroundings, PreparationInv,
       PreparationTypes
  <1>2. CASE PreparationNext
    BY ZenonT(40), <1>2, World, Running, Beginning, Locking, Enlisting, Asking, Starting, Checking,
       Listing, Evaluating, SettingUp, Ending, Dying, Initializing, Dispatching, Awaiting, Recording, Binding,
       Materializing, Readying, Claiming
       DEF PreparationNext
  <1> QED
    BY Zenon, <1>1, <1>2

\* The invariant gives the property.
LEMMA InvariantBacks ==
  ASSUME PreparationInv
  PROVE  PreparationIsBacked
  <1>1. ASSUME NEW e, VerifiesPreflight(e) PROVE RunStands(e)
    <2>1. trials # <<>> /\ GoodTrial(trials[1]) /\ trials[1] \in Trials
      BY <1>1, RunNow DEF VerifiesPreflight, PreparationInv
    <2>2. trials[1].evaluations \in Seq(BOOLEAN) /\ trials[1].sound \in BOOLEAN
      BY Zenon, <2>1 DEF Trials
    <2>3. trials[1].evaluations[e] = TRUE /\ e \in DOMAIN trials[1].evaluations
      BY Zenon, <1>1, <2>2 DEF VerifiesPreflight
    <2>4. trials[1].status = "succeeded" /\ trials[1].sound /\ trials[1].effects = 1
      BY Zenon, <2>1, <2>3 DEF GoodTrial
    <2> QED
      BY Zenon, <1>1, <2>1, <2>4 DEF RunStands
  <1>2. OneTrial
    BY Zenon DEF OneTrial, PreparationInv, FilesInv, TrialInv, GoodTrial, Approves, Approved
  <1>3. ReadyIsBacked
    <2>1. SUFFICES ASSUME Has("ready")
          PROVE  /\ \A n \in RecordNames : Has(n)
                 /\ RunStands(records["ready"].evaluation) /\ edition
                 /\ trials[1].decision.by = records["initialized"].approver
                 /\ records["ready"].approver = records["initialized"].approver
                 /\ records["evaluated"] = [run |-> records["ready"].run,
                                             evaluation |-> records["ready"].evaluation]
                 /\ records["bound"] = records["evaluated"]
      BY Zenon DEF ReadyIsBacked
    <2>2. /\ edition /\ Has("bound") /\ Has("evaluated") /\ Has("awaiting") /\ Has("dispatch")
          /\ Has("initialized") /\ DecisionHolds /\ EvaluationStands
          /\ records["ready"].run = 1
          /\ records["ready"].evaluation = records["evaluated"].evaluation
          /\ records["ready"].approver = records["initialized"].approver
          /\ records["bound"] = records["evaluated"]
      BY Zenon, <2>1 DEF PreparationInv, FilesInv
    <2>3. RunStands(records["ready"].evaluation)
      BY Zenon, <1>1, <2>2 DEF EvaluationStands
    <2>4. records["evaluated"] = [run |-> records["ready"].run,
                                  evaluation |-> records["ready"].evaluation]
      BY Zenon, <2>2, EvaluatedFields DEF EvaluationStands
    <2> QED
      BY Zenon, <2>1, <2>2, <2>3, <2>4 DEF DecisionHolds, RecordNames
  <1>4. StartIsPrepared
    <2>1. edition => Has("bound") /\ VerifiesPreflight(records["bound"].evaluation)
      <3> SUFFICES ASSUME edition
                   PROVE  Has("bound") /\ VerifiesPreflight(records["bound"].evaluation)
        OBVIOUS
      <3>1. Has("bound") /\ EvaluationStands /\ records["bound"] = records["evaluated"]
        BY Zenon DEF PreparationInv, FilesInv
      <3> QED
        BY Zenon, <3>1 DEF EvaluationStands
    <2>2. \A c \in starts : edition /\ VerifiesPreflight(c.evaluation)
      BY Zenon DEF PreparationInv, ClaimsInv
    <2> QED
      BY Zenon, <1>1, <2>1, <2>2 DEF StartIsPrepared
  <1> QED
    BY Zenon, <1>2, <1>3, <1>4 DEF PreparationIsBacked

\* The strengthened invariant of a preparation holds in every state: the records, the run,
\* what each command knows where it stands and the live claims agree.
THEOREM PreparationInvariant == PreparationSpec => []PreparationInv
  BY PreparationInitially, PreparationStep, PTL DEF PreparationSpec

\* live-prepare and live-start, for any number of commands, deaths and drifts: one run with
\* one approved effect, a packet that stands on its whole chain, and no live claim without a
\* passed evaluation and the edition it binds.
THEOREM PreparationBacked == PreparationSpec => []PreparationIsBacked
  BY PreparationInvariant, InvariantBacks, PTL

=============================================================================
