----------------------------- MODULE MCWorkspace -----------------------------
(***************************************************************************)
(* Small instances of what keeps a workspace: its blobs, its identity      *)
(* files, its archives, the guarded opening of its database, the           *)
(* provisioning and serving of its operator store and the preparation of a *)
(* live run.  They share no state: a behaviour exercises the one that part *)
(* names.                                                                  *)
(***************************************************************************)
EXTENDS BlobStore, LivePreparation, TLC

CONSTANTS t1, t2, d1, a1,               \* threads, a digest, an artifact
          kb, kc, q1, q2, g1, g2,           \* keys, proofs and delegations
          Own, Agent, OwnKey, ZeroKey,
          Absent, Torn, NoRow, Nobody,
          c1, c2, h1, h2, e1      \* commands, approvers and a delegation of a preparation

VARIABLES
    part,
    config, keypair, archived, stored, drawn, command, opened, inForce, crossed, deaths,
    enrolled, grants, proofs, files, held, registry, written, shelf, me, out, runs, lost,
    leads, entry, side, at, given, leaf, guard, conn, migrates, migrated, result, moves,
    dirs, path, holder, proc, catalog, inodes, counts

\* Two commands that change the identity, and one that only opens the workspace.
Roles == [w1 |-> {"init", "rotate"}, w2 |-> {"rotate"}, w3 |-> {"open"}]

Identity == INSTANCE WorkspaceIdentity WITH
    Callers <- DOMAIN Roles, Commands <- Roles, MaxIdentity <- 3, MaxCrashes <- 1,
    call <- command, crashes <- deaths

Base ==
    [principals |-> {<<Agent, kb>>}, grants |-> {}, proofs |-> {}, files |-> {}, blobs |-> {},
     registry |-> "theirs"]

ProofOf(key, time) == [id |-> q2, actor |-> Agent, key |-> key, time |-> time]

\* Another workspace's archive; a later one of the same proof, with a delegation; and one
\* whose proof was signed by another key than its principal's.
Archives ==
    {[Base EXCEPT !.proofs = {ProofOf(kb, 1)}, !.files = {ProofOf(kb, 1)}, !.blobs = {"b"}],
     [Base EXCEPT !.proofs = {ProofOf(kb, 2)}, !.files = {ProofOf(kb, 2)},
                  !.grants = {[id |-> g2, terms |-> "theirs", revoked |-> FALSE]}],
     [Base EXCEPT !.proofs = {ProofOf(kc, 1)}]}

Transfer == INSTANCE WorkspaceTransfer WITH
    Commands <- {"c1", "c2"}, AgentKeys <- {kb, kc}, Proofs <- {q1, q2}, Grants <- {g1, g2},
    OwnProofs <- {q1}, OwnGrants <- {g1}, Foreign <- Archives, Overlap <- TRUE,
    Uses <- {"export", "import", "execute", "record", "grant", "revoke", "enrol"},
    MaxRuns <- 3, MaxCrashes <- 1, blobs <- held, drawn <- written, crashes <- lost

Open == INSTANCE TrustedOpen WITH
    Dirs <- {"d1", "d2"}, Files <- {"f1", "f2"}, Safe <- {"d1", "d2", "f1", "f2"}, MaxMoves <- 3

\* Servers while directories are moved and copied, provisioners with two documents while
\* things fail, and servers while things fail.
Lifecycle == INSTANCE WorkspaceLifecycle WITH
    Provisioners <- {"p1"}, Servers <- {"s1", "s2"}, Dirs <- {"d1", "d2"},
    Documents <- {"limits"}, OldSchema <- 13, MayFail <- FALSE, MaxCrashes <- 0, MaxMoves <- 2,
    MaxAudit <- 1, MaxStarts <- 2

Provisioning == INSTANCE WorkspaceLifecycle WITH
    Provisioners <- {"p1"}, Servers <- {"s1", "s2"}, Dirs <- {"d1", "d2"},
    Documents <- {"limits", "other"}, OldSchema <- 12, MayFail <- TRUE, MaxCrashes <- 1,
    MaxMoves <- 1, MaxAudit <- 1, MaxStarts <- 1

Failing == INSTANCE WorkspaceLifecycle WITH
    Provisioners <- {"p1"}, Servers <- {"s1", "s2"}, Dirs <- {"d1", "d2"},
    Documents <- {"limits"}, OldSchema <- 12, MayFail <- TRUE, MaxCrashes <- 1,
    MaxMoves <- 1, MaxAudit <- 1, MaxStarts <- 2

identityVars ==
    <<config, keypair, archived, stored, drawn, command, opened, inForce, crossed, deaths>>
transferVars ==
    <<enrolled, grants, proofs, files, held, registry, written, shelf, me, out, runs, lost>>
openVars == <<leads, entry, side, at, given, leaf, guard, conn, migrates, migrated, result, moves>>
lifecycleVars == <<dirs, path, holder, proc, catalog, inodes, counts>>
others == <<identityVars, transferVars, openVars, lifecycleVars>>

\* No open has begun: the workspace of the parts that are not about opening.
NotOpened ==
    /\ leads = "d1" /\ given = "d1" /\ entry = [d \in {"d1", "d2"} |-> None]
    /\ side = [d \in {"d1", "d2"} |-> "none"]
    /\ at = 0 /\ leaf = None /\ guard = None /\ conn = None
    /\ migrates = FALSE /\ migrated = {} /\ result = "none" /\ moves = 0

WorkspaceInit ==
    /\ part \in {"blobs", "identity", "transfer", "open", "lifecycle", "provisioning", "failing",
                "preparation"}
    /\ Init /\ Identity!Init /\ Transfer!Init /\ PreparationInit
    /\ approver = h1 \* the approvers are alike
    /\ IF part \in {"provisioning", "failing"} THEN Provisioning!Init ELSE Lifecycle!Init
    /\ path = "d1" \* the directories are alike
    /\ IF part = "open" THEN Open!Init ELSE NotOpened

WorkspaceNext ==
    \/ part = "blobs" /\ Next /\ UNCHANGED <<part, others, preparationVars>>
    \/ /\ part = "identity" /\ Identity!Next
       /\ UNCHANGED <<part, vars, transferVars, openVars, lifecycleVars, preparationVars>>
    \/ /\ part = "transfer" /\ Transfer!Next
       /\ UNCHANGED <<part, vars, identityVars, openVars, lifecycleVars, preparationVars>>
    \/ /\ part = "open" /\ Open!Next
       /\ UNCHANGED <<part, vars, identityVars, transferVars, lifecycleVars, preparationVars>>
    \/ /\ part = "lifecycle" /\ Lifecycle!Next
       /\ UNCHANGED <<part, vars, identityVars, transferVars, openVars, preparationVars>>
    \/ /\ part = "provisioning" /\ Provisioning!Next
       /\ UNCHANGED <<part, vars, identityVars, transferVars, openVars, preparationVars>>
    \/ /\ part = "failing" /\ Failing!Next
       /\ UNCHANGED <<part, vars, identityVars, transferVars, openVars, preparationVars>>
    \/ part = "preparation" /\ PreparationNext /\ UNCHANGED <<part, vars, others>>

WorkspaceSpec == WorkspaceInit /\ [][WorkspaceNext]_<<part, vars, others, preparationVars>>

-----------------------------------------------------------------------------

\* No command opens a workspace under an identity that its two files never named
\* together, whatever init or rotation died or is at work, unless the change to that
\* identity overlapped with another.
OpenedWasInForce == Identity!OpenedWasInForce

\* Every stored proof verifies under the key enrolled for its actor.
StoredProofsVerify == Transfer!StoredProofsVerify

\* An open that succeeds has in SQLite the file that its descriptor guards, after fewer
\* than four moves of the directory or the file; and, whatever was replaced, copied or
\* moved, a workspace is open in one server at a time.
OpenedOnce == Open!OpenedIsGuarded /\ Lifecycle!OneServer

=============================================================================
