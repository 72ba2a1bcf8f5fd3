------------------------------ MODULE BlobStore ------------------------------
(***************************************************************************)
(* ContentAddressedStore: blobs in files named by their digest, with a row *)
(* for each blob and for each reference to one in content.db.              *)
(*                                                                         *)
(* Threads share one store.  Its connection is behind a mutex, which a     *)
(* call takes for each statement and gives back before it touches a file;  *)
(* only collect_garbage keeps it from its first statement to its last file *)
(* removal.  Each statement and each file operation is one action.  The    *)
(* process may die between any two, which rolls an open transaction back.  *)
(*                                                                         *)
(* A blob is its digest: put names the file by what it writes and renames  *)
(* it into place whole.                                                    *)
(***************************************************************************)
EXTENDS Naturals, FiniteSets

CONSTANTS
    Threads, Digests, Artifacts,
    Operations,   \* the calls threads make
    None,
    MaxCrashes    \* bound: deaths of the process

ASSUME BlobAssumption ==
    /\ Operations \subseteq {"put", "reference", "unreference", "delete", "gc"}
    /\ None \notin Threads \cup Digests \cup Artifacts
    /\ MaxCrashes \in Nat

VARIABLES
    rows,     \* content_blobs
    refs,     \* content_blob_references
    blobs,    \* the digests that have a file
    lock,     \* the thread that keeps the mutex, or None
    call,     \* call[t]: where thread t's call stands
    acked,    \* digests a put or a reference was answered for since they were last dropped
    crashes

vars == <<rows, refs, blobs, lock, call, acked, crashes>>

Idle == [op |-> "none", pc |-> "idle"]

Init ==
    /\ rows = {} /\ refs = {} /\ blobs = {}
    /\ lock = None
    /\ call = [t \in Threads |-> Idle]
    /\ acked = {} /\ crashes = 0

Goto(t, next) == call' = [call EXCEPT ![t] = next]

Move(t, pc) == Goto(t, [call[t] EXCEPT !.pc = pc])

At(t, pc) == call[t].pc = pc

Free == lock = None

Referenced(d) == \E a \in Artifacts : <<d, a>> \in refs

\* Every call but gc begins with exists, delete after its count.
First(op) ==
    CASE op = "delete"      -> "count"
      [] op = "unreference" -> "unreference"
      [] op = "gc"          -> "select"
      [] OTHER              -> "row"

Call(t, op, d, a) ==
    /\ At(t, "idle") /\ op \in Operations
    /\ Goto(t, [op |-> op, pc |-> First(op), d |-> d, a |-> a, todo |-> {}, gone |-> {}])
    /\ UNCHANGED <<rows, refs, blobs, lock, acked, crashes>>

-----------------------------------------------------------------------------
(* exists: the row under the mutex, then the file. *)

\* Where a call goes on when the blob is there, and when it is not.
Found(t) ==
    CASE call[t].op = "put"       -> Goto(t, Idle) /\ acked' = acked \cup {call[t].d}
      [] call[t].op = "reference" -> Move(t, "insert_ref") /\ UNCHANGED acked
      [] call[t].op = "delete"    -> Move(t, "delete_row") /\ UNCHANGED acked

Missing(t) ==
    /\ IF call[t].op = "put" THEN Move(t, "persist") ELSE Goto(t, Idle)
    /\ UNCHANGED acked

AskRow(t) ==
    /\ At(t, "row") /\ Free
    /\ IF call[t].d \in rows THEN Move(t, "file") /\ UNCHANGED acked ELSE Missing(t)
    /\ UNCHANGED <<rows, refs, blobs, lock, crashes>>

AskFile(t) ==
    /\ At(t, "file")
    /\ IF call[t].d \in blobs THEN Found(t) ELSE Missing(t)
    /\ UNCHANGED <<rows, refs, blobs, lock, crashes>>

-----------------------------------------------------------------------------
(* put *)

\* NamedTempFile::persist renames over whatever is there.
Persist(t) ==
    /\ At(t, "persist")
    /\ blobs' = blobs \cup {call[t].d}
    /\ Move(t, "insert_row")
    /\ UNCHANGED <<rows, refs, lock, acked, crashes>>

\* INSERT OR IGNORE
InsertRow(t) ==
    /\ At(t, "insert_row") /\ Free
    /\ rows' = rows \cup {call[t].d}
    /\ acked' = acked \cup {call[t].d}
    /\ Goto(t, Idle)
    /\ UNCHANGED <<refs, blobs, lock, crashes>>

-----------------------------------------------------------------------------
(* add_reference, remove_reference *)

\* The foreign key refuses a reference to a row that is gone.
InsertReference(t) ==
    LET d == call[t].d
    IN  /\ At(t, "insert_ref") /\ Free
        /\ IF d \in rows THEN refs' = refs \cup {<<d, call[t].a>>} /\ acked' = acked \cup {d}
           ELSE UNCHANGED <<refs, acked>>
        /\ Goto(t, Idle)
        /\ UNCHANGED <<rows, blobs, lock, crashes>>

RemoveReference(t) ==
    /\ At(t, "unreference") /\ Free
    /\ refs' = refs \ {<<call[t].d, call[t].a>>}
    /\ Goto(t, Idle)
    /\ UNCHANGED <<rows, blobs, lock, acked, crashes>>

-----------------------------------------------------------------------------
(* delete *)

Count(t) ==
    /\ At(t, "count") /\ Free
    /\ IF Referenced(call[t].d) THEN Goto(t, Idle) ELSE Move(t, "row")
    /\ UNCHANGED <<rows, refs, blobs, lock, acked, crashes>>

\* ON DELETE CASCADE takes the references along.
DeleteRow(t) ==
    LET d == call[t].d
    IN  /\ At(t, "delete_row") /\ Free
        /\ IF d \in rows THEN Move(t, "remove_file") ELSE Goto(t, Idle)
        /\ rows' = rows \ {d}
        /\ refs' = {r \in refs : r[1] # d}
        /\ acked' = acked \ {d}
        /\ UNCHANGED <<blobs, lock, crashes>>

RemoveFile(t) ==
    /\ At(t, "remove_file")
    /\ blobs' = blobs \ {call[t].d}
    /\ Goto(t, Idle)
    /\ UNCHANGED <<rows, refs, lock, acked, crashes>>

-----------------------------------------------------------------------------
(* collect_garbage *)

\* Mutant: the mutex is given back once the digests are read.
SelectUnlocked(t) ==
    /\ At(t, "select") /\ Free
    /\ Goto(t, [call[t] EXCEPT !.pc = "sweep", !.todo = {d \in rows : ~ Referenced(d)}])
    /\ UNCHANGED <<rows, refs, blobs, lock, acked, crashes>>

Select(t) ==
    /\ At(t, "select") /\ Free
    /\ lock' = t
    /\ Goto(t, [call[t] EXCEPT !.pc = "sweep", !.todo = {d \in rows : ~ Referenced(d)}])
    /\ UNCHANGED <<rows, refs, blobs, acked, crashes>>

\* One unreferenced blob: its file, and its row in the open transaction.
Sweep(t) ==
    /\ At(t, "sweep")
    /\ \E d \in call[t].todo :
          /\ blobs' = blobs \ {d}
          /\ Goto(t, [call[t] EXCEPT !.todo = @ \ {d}, !.gone = @ \cup {d}])
          /\ acked' = acked \ {d}
    /\ UNCHANGED <<rows, refs, lock, crashes>>

Commit(t) ==
    /\ At(t, "sweep") /\ call[t].todo = {}
    /\ rows' = rows \ call[t].gone
    /\ refs' = {r \in refs : r[1] \notin call[t].gone}
    /\ Move(t, "list")
    /\ UNCHANGED <<blobs, lock, acked, crashes>>

\* orphaned_blob_paths
List(t) ==
    /\ At(t, "list")
    /\ Goto(t, [call[t] EXCEPT !.pc = "orphans", !.todo = blobs \ rows])
    /\ UNCHANGED <<rows, refs, blobs, lock, acked, crashes>>

RemoveOrphan(t) ==
    /\ At(t, "orphans")
    /\ \E d \in call[t].todo :
          /\ blobs' = blobs \ {d}
          /\ Goto(t, [call[t] EXCEPT !.todo = @ \ {d}])
    /\ UNCHANGED <<rows, refs, lock, acked, crashes>>

Finish(t) ==
    /\ At(t, "orphans") /\ call[t].todo = {}
    /\ lock' = None
    /\ Goto(t, Idle)
    /\ UNCHANGED <<rows, refs, blobs, acked, crashes>>

Crash ==
    /\ crashes < MaxCrashes /\ crashes' = crashes + 1
    /\ call' = [t \in Threads |-> Idle]
    /\ lock' = None
    /\ UNCHANGED <<rows, refs, blobs, acked>>

Next ==
    \/ Crash
    \/ \E t \in Threads :
         \/ \E op \in Operations, d \in Digests, a \in Artifacts : Call(t, op, d, a)
         \/ AskRow(t) \/ AskFile(t) \/ Persist(t) \/ InsertRow(t)
         \/ InsertReference(t) \/ RemoveReference(t)
         \/ Count(t) \/ DeleteRow(t) \/ RemoveFile(t)
         \/ Select(t) \/ Sweep(t) \/ Commit(t) \/ List(t) \/ RemoveOrphan(t) \/ Finish(t)

Spec == Init /\ [][Next]_vars

-----------------------------------------------------------------------------

\* Type: references are to rows, and only collect_garbage keeps the mutex.
TypeOK ==
    /\ rows \subseteq Digests /\ blobs \subseteq Digests /\ acked \subseteq Digests
    /\ refs \subseteq rows \X Artifacts
    /\ lock # None => call[lock].op = "gc"
    /\ crashes \in 0 .. MaxCrashes

\* collect_garbage never removes the file of a referenced blob, whatever the other
\* threads reference meanwhile.
CollectorSparesReferenced ==
    [][\A d \in blobs \ blobs' :
         (\E t \in Threads : call[t].op = "gc" /\ call'[t] # call[t]) => ~ Referenced(d)]_vars

\* "references retain shared digest": a reference goes only by remove_reference.
ReferencesGoOnRequest ==
    [][\A r \in refs \ refs' :
         \E t \in Threads : call[t].op = "unreference" /\ call[t].d = r[1]
                                /\ call[t].a = r[2] /\ call'[t] # call[t]]_vars

\* A put that is answered has stored the blob: at its answer the file is there.
PutIsStored ==
    [][\A t \in Threads : At(t, "insert_row") /\ rows' # rows /\ call'[t] = Idle
           => call[t].d \in blobs']_vars

=============================================================================
