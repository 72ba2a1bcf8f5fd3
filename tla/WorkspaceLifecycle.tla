------------------------- MODULE WorkspaceLifecycle -------------------------
(***************************************************************************)
(* The guarded lifecycle of an operator workspace: provisioners upgrade    *)
(* the database to schema 14 and write the one policy row, servers open    *)
(* what is there, and both first take the lock file of the workspace.      *)
(*                                                                         *)
(* A proof directory holds a database, a lock file and the key files.      *)
(* Files are named by their inode.  The workspace path leads to one        *)
(* directory.  Lock files and keys may be replaced and the directory       *)
(* copied while processes run; a process that dies gives up its flock.     *)
(***************************************************************************)
EXTENDS Integers, Sequences, FiniteSets

CONSTANTS
    Provisioners, Servers,
    Dirs,        \* proof directories
    Documents,   \* provisioning documents
    NoRow, Nobody,
    OldSchema,   \* schema of the database at first
    MayFail,     \* whether a storage or environment call may fail
    MaxCrashes,  \* bound: processes that die
    MaxMoves,    \* bound: files replaced, directories copied or switched
    MaxAudit,    \* bound: events a server appends
    MaxStarts    \* bound: servers started

Processes == Provisioners \cup Servers

VARIABLES
    dirs,      \* what every directory holds
    path,      \* the directory that the workspace path leads to
    holder,    \* who holds the flock of a lock file
    proc,      \* the processes
    catalog,   \* schema catalog of the build that is installed
    inodes,    \* inodes and identifiers given out
    counts     \* bounds used up

vars == <<dirs, path, holder, proc, catalog, inodes, counts>>

Idle == [pc |-> "idle", dir |-> Nobody, lock |-> 0, key |-> 0, document |-> Nobody,
         catalog |-> 0, result |-> "none"]

Unused == [schema |-> 0, row |-> NoRow, lock |-> 0, key |-> 0, singletons |-> {},
           audit |-> 0, head |-> 0]

\* The path leads to one directory with a database and keys; no lock file yet.
Init ==
    /\ path \in Dirs
    /\ dirs = [d \in Dirs |-> IF d = path THEN [Unused EXCEPT !.schema = OldSchema, !.key = 1]
                              ELSE Unused]
    /\ holder = <<>>
    /\ proc = [p \in Processes |-> Idle]
    /\ catalog = 1
    /\ inodes = 1
    /\ counts = [crashes |-> 0, moves |-> 0, starts |-> 0]

Holds(p) == proc[p].lock \in DOMAIN holder /\ holder[proc[p].lock] = p

\* Whatever ends a process closes its descriptors, and with them its flock.
Closed(p) == [i \in {j \in DOMAIN holder : holder[j] # p} |-> holder[i]]

Goes(p, pc) == proc' = [proc EXCEPT ![p].pc = pc]

Exits(p, result) ==
    /\ proc' = [proc EXCEPT ![p] = [Idle EXCEPT !.result = result]]
    /\ holder' = Closed(p)
    /\ UNCHANGED <<dirs, path, catalog, inodes, counts>>

\* What every step of the lifecycle may meet.
Fails(p) ==
    /\ MayFail
    /\ proc[p].pc \notin {"idle", "serving"}
    /\ Exits(p, "unavailable")

-----------------------------------------------------------------------------
(* Checks. *)

\* The directory and database paths lead to the descriptors: verify_guarded_paths when a
\* connection is opened, and the first part of verify_live.
Guarded(p) == path = proc[p].dir

\* verify_live: so does the path of the lock file.
Live(p) == Guarded(p) /\ dirs[path].lock = proc[p].lock

Singletons == {"workspace", "enrollment", "budget", "audit_head"}

\* verify_audit_head: the chain has no gap and ends at the head.
AuditHeadHolds(d) == dirs[d].audit = dirs[d].head

\* Mutant of DescriptorsHold: only the key files are compared.
KeysHold(p, row) == row.key = dirs[proc[p].dir].key

\* verify_workspace_descriptors
DescriptorsHold(p, row) ==
    /\ row.proof = proc[p].dir
    /\ row.lock = proc[p].lock
    /\ row.key = dirs[proc[p].dir].key

\* verify_persisted_policy
PolicyHolds(p, row) ==
    /\ row.catalog = proc[p].catalog
    /\ dirs[proc[p].dir].singletons = Singletons
    /\ DescriptorsHold(p, row)
    /\ AuditHeadHolds(proc[p].dir)

\* verify_existing_policy
ExistingHolds(p, row) == PolicyHolds(p, row) /\ row.document = proc[p].document
-----------------------------------------------------------------------------
(* The lock. *)

\* acquire_operator_workspace_lock opens the lock file; only provisioning creates a missing one.
OpenLock(p, document) ==
    LET create == p \in Provisioners /\ dirs[path].lock = 0
        lock == IF create THEN inodes + 1 ELSE dirs[path].lock
    IN  /\ proc[p].pc = "idle"
        /\ IF p \in Servers
           THEN counts.starts < MaxStarts /\ counts' = [counts EXCEPT !.starts = @ + 1]
           ELSE proc[p].result # "ok" /\ UNCHANGED counts
        /\ IF lock = 0 THEN proc' = [proc EXCEPT ![p].result = "unsafe_workspace"]
           ELSE proc' = [proc EXCEPT ![p] = [Idle EXCEPT !.pc = "flock", !.dir = path,
                             !.lock = lock, !.document = document, !.catalog = catalog]]
        /\ inodes' = IF create THEN lock ELSE inodes
        /\ dirs' = [dirs EXCEPT ![path].lock = lock]
        /\ UNCHANGED <<path, holder, catalog>>

Flock(p) ==
    /\ proc[p].pc = "flock"
    /\ IF proc[p].lock \in DOMAIN holder THEN Exits(p, "lock_unavailable")
       ELSE /\ holder' = [i \in DOMAIN holder \cup {proc[p].lock} |->
                             IF i = proc[p].lock THEN p ELSE holder[i]]
            /\ Goes(p, IF p \in Servers THEN "open" ELSE "upgrade")
            /\ UNCHANGED <<dirs, path, catalog, inodes, counts>>

\* verify_live, and the connection that is opened next, at the start of a guarded call.
Begin(p, at, then) ==
    /\ proc[p].pc = at
    /\ IF Live(p) THEN Goes(p, then) /\ UNCHANGED <<dirs, path, holder, catalog, inodes, counts>>
       ELSE Exits(p, "movement_detected")

\* verify_live once the connection is closed.
End(p, at, then) == Begin(p, at, then)

-----------------------------------------------------------------------------
(* Provisioning: upgrade, initialize, reopen, release. *)

BeginUpgrade(p) == Begin(p, "upgrade", "migrate")

\* run_migrations_through to 14 in one exclusive transaction, re-reading the version inside.
Migrate(p) ==
    /\ proc[p].pc = "migrate"
    /\ IF dirs[proc[p].dir].schema \in {13, 14}
       THEN /\ dirs' = [dirs EXCEPT ![proc[p].dir].schema = 14]
            /\ Goes(p, "upgraded")
            /\ UNCHANGED <<path, holder, catalog, inodes, counts>>
       ELSE Exits(p, "schema_mismatch")

EndUpgrade(p) == End(p, "upgraded", "initialize")

BeginInitialize(p) == Begin(p, "initialize", "load")

\* load_workspace_row; a policy that is there is compared and left alone.
LoadPolicy(p) ==
    LET row == dirs[proc[p].dir].row IN
    /\ proc[p].pc = "load"
    /\ IF dirs[proc[p].dir].schema # 14 THEN Exits(p, "schema_mismatch")
       ELSE IF row = NoRow THEN Goes(p, "principals")
                /\ UNCHANGED <<dirs, path, holder, catalog, inodes, counts>>
       ELSE IF ExistingHolds(p, row) THEN Goes(p, "initialized")
                /\ UNCHANGED <<dirs, path, holder, catalog, inodes, counts>>
       ELSE Exits(p, "policy_mismatch")

\* validate_key_descriptors reads the key files before the transaction begins.
ReadPrincipals(p) ==
    /\ proc[p].pc = "principals"
    /\ proc' = [proc EXCEPT ![p].pc = "insert", ![p].key = dirs[proc[p].dir].key]
    /\ UNCHANGED <<dirs, path, holder, catalog, inodes, counts>>

NewRow(p) ==
    [workspace |-> inodes + 1, document |-> proc[p].document, catalog |-> proc[p].catalog,
     proof |-> proc[p].dir, lock |-> proc[p].lock, key |-> proc[p].key]

\* The transaction of create_policy; singleton = 1 admits one row.
InsertPolicy(p) ==
    /\ proc[p].pc = "insert"
    /\ IF dirs[proc[p].dir].row # NoRow THEN Exits(p, "unavailable")
       ELSE /\ dirs' = [dirs EXCEPT ![proc[p].dir].row = NewRow(p),
                                    ![proc[p].dir].singletons = Singletons]
            /\ inodes' = inodes + 1
            /\ Goes(p, "initialized")
            /\ UNCHANGED <<path, holder, catalog, counts>>

EndInitialize(p) == End(p, "initialized", "reopen")

-----------------------------------------------------------------------------
(* open_operator_schema14_existing, by a provisioner to see that it works and by a server. *)

BeginOpen(p) == Begin(p, IF p \in Servers THEN "open" ELSE "reopen", "policy")

OpenPolicy(p) ==
    LET d == dirs[proc[p].dir] IN
    /\ proc[p].pc = "policy"
    /\ IF d.schema = 14 /\ d.row # NoRow /\ PolicyHolds(p, d.row)
       THEN /\ Goes(p, IF p \in Servers THEN "bind" ELSE "release")
            /\ UNCHANGED <<dirs, path, holder, catalog, inodes, counts>>
       ELSE Exits(p, "policy_mismatch")

\* release_operator_workspace_lock
Release(p) ==
    /\ proc[p].pc = "release"
    /\ Exits(p, IF Live(p) THEN "ok" ELSE "movement_detected")

-----------------------------------------------------------------------------
(* A server. *)

\* preflight_control_plane binds last; what it is bound to is the workspace that was opened.
Bind(p) ==
    /\ proc[p].pc = "bind"
    /\ Goes(p, "serving")
    /\ UNCHANGED <<dirs, path, holder, catalog, inodes, counts>>

\* An event and the head of the chain are written together.
AppendAudit(p) ==
    /\ proc[p].pc = "serving"
    /\ dirs[proc[p].dir].audit < MaxAudit
    /\ dirs' = [dirs EXCEPT ![proc[p].dir].audit = @ + 1, ![proc[p].dir].head = @ + 1]
    /\ UNCHANGED <<path, holder, proc, catalog, inodes, counts>>

\* shutdown_control_plane drains and closes the store; whatever fails, the lock goes last.
Shutdown(p) ==
    /\ proc[p].pc = "serving"
    /\ Goes(p, "closing")
    /\ UNCHANGED <<dirs, path, holder, catalog, inodes, counts>>

CloseStore(p) ==
    /\ proc[p].pc = "closing"
    /\ Goes(p, "release")
    /\ UNCHANGED <<dirs, path, holder, catalog, inodes, counts>>

-----------------------------------------------------------------------------
(* Everything else. *)

Crash(p) ==
    /\ proc[p].pc # "idle"
    /\ counts.crashes < MaxCrashes
    /\ counts' = [counts EXCEPT !.crashes = @ + 1]
    /\ proc' = [proc EXCEPT ![p] = [Idle EXCEPT !.result = "crashed"]]
    /\ holder' = Closed(p)
    /\ UNCHANGED <<dirs, path, catalog, inodes>>

\* SqliteStore::open by an ordinary command brings the database to schema 13 and no further.
OrdinaryOpen ==
    /\ dirs[path].schema < 13
    /\ dirs' = [dirs EXCEPT ![path].schema = 13]
    /\ UNCHANGED <<path, holder, proc, catalog, inodes, counts>>

MayMove == counts.moves < MaxMoves /\ counts' = [counts EXCEPT !.moves = @ + 1]

\* A lock or key file is replaced by another one.
ReplaceFile(file) ==
    /\ MayMove
    /\ dirs[path][file] # 0
    /\ dirs' = [dirs EXCEPT ![path][file] = inodes + 1]
    /\ inodes' = inodes + 1
    /\ UNCHANGED <<path, holder, proc, catalog>>

\* The directory is copied to where the path then leads.
CopyDirectory(d) ==
    /\ MayMove
    /\ dirs[d].schema = 0
    /\ dirs' = [dirs EXCEPT ![d] = [dirs[path] EXCEPT !.lock = IF @ = 0 THEN 0 ELSE inodes + 1,
                                                     !.key = inodes + 2]]
    /\ inodes' = inodes + 2
    /\ path' = d
    /\ UNCHANGED <<holder, proc, catalog>>

\* The path is led back to a directory it had led to before.
SwitchDirectory(d) ==
    /\ MayMove
    /\ d # path
    /\ dirs[d].schema # 0
    /\ path' = d
    /\ UNCHANGED <<dirs, holder, proc, catalog, inodes>>

\* Another build is installed.
InstallBuild ==
    /\ MayMove
    /\ catalog' = catalog + 1
    /\ UNCHANGED <<dirs, path, holder, proc, inodes>>

Provisioning(p) ==
    \/ BeginUpgrade(p) \/ Migrate(p) \/ EndUpgrade(p)
    \/ BeginInitialize(p) \/ LoadPolicy(p) \/ ReadPrincipals(p) \/ InsertPolicy(p)
    \/ EndInitialize(p)

Serving(p) == Bind(p) \/ AppendAudit(p) \/ Shutdown(p) \/ CloseStore(p)

Step(p) ==
    \/ Flock(p) \/ BeginOpen(p) \/ OpenPolicy(p) \/ Release(p)
    \/ p \in Provisioners /\ Provisioning(p)
    \/ p \in Servers /\ Serving(p)

Next ==
    \/ \E p \in Provisioners, document \in Documents : OpenLock(p, document)
    \/ \E p \in Servers : OpenLock(p, Nobody)
    \/ \E p \in Processes : Step(p) \/ Fails(p) \/ Crash(p)
    \/ OrdinaryOpen
    \/ \E file \in {"lock", "key"} : ReplaceFile(file)
    \/ \E d \in Dirs : CopyDirectory(d) \/ SwitchDirectory(d)
    \/ InstallBuild

Spec == Init /\ [][Next]_vars

-----------------------------------------------------------------------------
(* Properties. *)

Results == {"none", "ok", "unavailable", "unsafe_workspace", "lock_unavailable", "crashed",
            "movement_detected", "schema_mismatch", "policy_mismatch"}

\* The state has its type, and only a process that is running holds a lock.
TypeOK ==
    /\ path \in Dirs
    /\ \A d \in Dirs : dirs[d].schema \in {0, OldSchema, 13, 14} /\ dirs[d].lock \in 0..inodes
    /\ \A p \in Processes : proc[p].result \in Results /\ proc[p].lock \in 0..inodes
    /\ \A i \in DOMAIN holder : i \in 1..inodes /\ proc[holder[i]].lock = i

\* Who has the operator store open.
Opened(p) == proc[p].pc \in {"bind", "serving", "closing"}

\* acquire_operator_workspace_lock and verify_workspace_descriptors together are the "split-brain
\* boundary": whatever was replaced or copied, a workspace is open in one server at a time.
OneServer ==
    \A p, q \in Servers :
        Opened(p) /\ Opened(q)
        /\ dirs[proc[p].dir].row.workspace = dirs[proc[q].dir].row.workspace => p = q

\* create_policy: a policy that was written is never written again, also when two provisioners
\* hold different lock files.
PolicyStands ==
    [][\A d \in Dirs : dirs[d].row # NoRow => dirs'[d].row = dirs[d].row]_vars

=============================================================================
