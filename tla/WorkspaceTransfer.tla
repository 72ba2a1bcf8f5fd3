-------------------------- MODULE WorkspaceTransfer --------------------------
(***************************************************************************)
(* proof export and proof import on one workspace, beside the commands     *)
(* that enrol principals, grant and revoke delegations and record proofs.  *)
(*                                                                         *)
(* A command is the sequence of its steps that remain: a transaction on    *)
(* the store or one file operation each.  Commands are processes without a *)
(* common lock, and may die between two steps.                             *)
(*                                                                         *)
(* An archive is its manifest and its proof files.  Proofs carry the key   *)
(* that signed them; a delegation is its terms and whether it is revoked,  *)
(* from Own to Agent.  Blobs are stored in one step (BlobStore details it).*)
(***************************************************************************)
EXTENDS Naturals, Sequences, SequencesExt

CONSTANTS
    Commands,         \* processes
    Own, Agent,       \* the workspace's principal and the one it grants to
    OwnKey, ZeroKey,  \* Own's key; the key of a principal enrolled by a grant
    AgentKeys,        \* keys other commands enrol Agent with
    Proofs, Grants,   \* ids
    OwnProofs, OwnGrants, \* the ids this workspace draws
    Foreign,          \* archives from elsewhere
    Uses,             \* the commands run
    None,
    Overlap,          \* whether commands overlap
    MaxRuns, MaxCrashes   \* bounds: commands begun, commands that die

VARIABLES
    enrolled,   \* principals: id to key
    grants,     \* delegations: id to [terms, revoked]
    proofs,     \* proofs: id to [actor, key, time]
    files,      \* .proof/data/proofs
    blobs, registry,
    drawn,      \* ids drawn
    shelf,      \* archives exported
    me, out,    \* each command's state; its last outcome
    runs, crashes

store == <<enrolled, grants, proofs, files, blobs, registry>>
vars == <<store, drawn, shelf, me, out, runs, crashes>>

Idle == [use |-> "none", todo |-> <<>>, a |-> None]

Empty == [proofs |-> {}, principals |-> {}, grants |-> {}, blobs |-> {}, registry |-> "none",
          files |-> {}]

Init ==
    /\ enrolled = [p \in {Own, Agent} |-> IF p = Own THEN OwnKey ELSE None]
    /\ grants = [g \in Grants |-> None]
    /\ proofs = [q \in Proofs |-> None]
    /\ files = [q \in Proofs |-> None]
    /\ blobs = {} /\ registry = "none" /\ drawn = {} /\ shelf = {}
    /\ me = [c \in Commands |-> Idle]
    /\ out = [c \in Commands |-> None]
    /\ runs = 0 /\ crashes = 0

\* One step <<phase, item>> for each item.
Each(phase, items) == [i \in DOMAIN SetToSeq(items) |-> <<phase, SetToSeq(items)[i]>>]

-----------------------------------------------------------------------------
(* What each command does *)

\* read_import_archive refuses two data files of one name.
Readable(a) == \A f, h \in a.files : f.id = h.id => f = h

\* preflight_workspace_files: every proof file is a proof of the manifest.
FilesBound(a) == a.files \subseteq a.proofs

Preflight(a) ==
    Each("pre_principal", a.principals) \o Each("pre_grant", a.grants) \o Each("verify", a.proofs)

\* Mutant: proofs are stored before the principals they were verified under.
ImportProofsFirst(a) ==
    Preflight(a) \o Each("look", a.proofs) \o Each("principal", a.principals)
        \o Each("exact", a.grants) \o Each("blob", a.blobs) \o <<<<"registry", a.registry>>>>
        \o Each("file", a.files)

\* cmd_import after the archive is read
Import(a) ==
    Preflight(a) \o Each("principal", a.principals) \o Each("exact", a.grants)
        \o Each("look", a.proofs) \o Each("blob", a.blobs) \o <<<<"registry", a.registry>>>>
        \o Each("file", a.files)

\* cmd_export
Export ==
    <<<<"x_files", None>>, <<"x_registry", None>>, <<"x_proofs", None>>, <<"x_principals", None>>,
      <<"x_grants", None>>, <<"x_blobs", None>>, <<"x_tar", None>>>>

OwnProof(q) == [id |-> q, actor |-> Own, key |-> OwnKey, time |-> 1]

NewGrant(g) == [id |-> g, terms |-> "granted", revoked |-> FALSE]

\* execute_governed: the engine stores the proof, then the file is written.
Execute(q) == <<<<"principal", <<Own, OwnKey>>>>, <<"save", OwnProof(q)>>, <<"file", OwnProof(q)>>>>

\* cmd_schema_create, cmd_object_create: the file only.
Record(q) == <<<<"file", OwnProof(q)>>>>

Grant(g) == <<<<"principal", <<Own, OwnKey>>>>, <<"placeholder", None>>, <<"grant", NewGrant(g)>>>>

Begin(c) ==
    LET Go(use, todo, a) ==
            /\ use \in Uses
            /\ me' = [me EXCEPT ![c] = [use |-> use, todo |-> todo, a |-> a]]
            /\ out' = [out EXCEPT ![c] = None]
            /\ runs' = runs + 1
            /\ UNCHANGED <<store, shelf, crashes>>
        Fresh(id) == id \notin drawn /\ drawn' = drawn \cup {id}
    IN  /\ me[c].use = "none" /\ runs < MaxRuns
        /\ Overlap \/ \A d \in Commands : me[d].use = "none"
        /\ \/ Go("export", Export, Empty) /\ UNCHANGED drawn
           \/ \E a \in shelf \cup Foreign :
                Readable(a) /\ FilesBound(a) /\ Go("import", Import(a), a) /\ UNCHANGED drawn
           \/ \E q \in OwnProofs : Fresh(q) /\ Go("execute", Execute(q), None)
           \/ \E q \in OwnProofs : Fresh(q) /\ Go("record", Record(q), None)
           \/ \E g \in OwnGrants : Fresh(g) /\ Go("grant", Grant(g), None)
           \/ \E g \in Grants : Go("revoke", <<<<"revoke", g>>>>, None) /\ UNCHANGED drawn
           \/ \E k \in AgentKeys :
                Go("enrol", <<<<"principal", <<Agent, k>>>>>>, None) /\ UNCHANGED drawn

-----------------------------------------------------------------------------
(* The steps *)

Head1(c, phase) == me[c].todo # <<>> /\ Head(me[c].todo)[1] = phase

Item(c) == Head(me[c].todo)[2]

\* The command goes on with its next step, or ends.
Continue(c, more, a) ==
    LET todo == more \o Tail(me[c].todo)
    IN  IF todo = <<>>
        THEN /\ me' = [me EXCEPT ![c] = Idle]
             /\ out' = [out EXCEPT ![c] = [use |-> me[c].use, result |-> "done", phase |-> "end"]]
        ELSE me' = [me EXCEPT ![c].todo = todo, ![c].a = a] /\ UNCHANGED out

Fails(c) ==
    /\ me' = [me EXCEPT ![c] = Idle]
    /\ out' = [out EXCEPT ![c] = [use |-> me[c].use, result |-> "refused",
                                  phase |-> Head(me[c].todo)[1]]]

Next1(c) == Continue(c, <<>>, me[c].a)

Check(c, ok) == (IF ok THEN Next1(c) ELSE Fails(c)) /\ UNCHANGED store

\* The key an imported proof is verified with: the enrolled one, else the archive's.
KeyOf(p, a) ==
    IF enrolled[p] # None THEN enrolled[p]
    ELSE IF \E k \in a.principals : k[1] = p
    THEN (CHOOSE k \in a.principals : k[1] = p)[2]
    ELSE None

PreflightPrincipal(c) ==
    /\ Head1(c, "pre_principal")
    /\ Check(c, enrolled[Item(c)[1]] \in {None, Item(c)[2]})

PreflightGrant(c) ==
    /\ Head1(c, "pre_grant")
    /\ Check(c, /\ \A p \in {Own, Agent} : KeyOf(p, me[c].a) # None
                /\ grants[Item(c).id] \in {None, Item(c)})

VerifyProof(c) == Head1(c, "verify") /\ Check(c, KeyOf(Item(c).actor, me[c].a) = Item(c).key)

\* save_principal: an insert or an exact no-op.
SavePrincipal(c) ==
    LET p == Item(c)[1]
        k == Item(c)[2]
    IN  /\ Head1(c, "principal")
        /\ IF enrolled[p] \in {None, k} THEN Next1(c) /\ enrolled' = [enrolled EXCEPT ![p] = k]
           ELSE Fails(c) /\ UNCHANGED enrolled
        /\ UNCHANGED <<grants, proofs, files, blobs, registry>>

\* save_delegation_principal without a key: any key of an enrolled principal will do.
SavePlaceholder(c) ==
    /\ Head1(c, "placeholder")
    /\ Next1(c)
    /\ enrolled' = [enrolled EXCEPT ![Agent] = IF @ = None THEN ZeroKey ELSE @]
    /\ UNCHANGED <<grants, proofs, files, blobs, registry>>

SaveDelegation(c) ==
    /\ Head1(c, "grant")
    /\ Next1(c)
    /\ grants' = [grants EXCEPT ![Item(c).id] = Item(c)]
    /\ UNCHANGED <<enrolled, proofs, files, blobs, registry>>

\* save_imported_delegation_exact
SaveExact(c) ==
    /\ Head1(c, "exact")
    /\ IF grants[Item(c).id] \in {None, Item(c)}
       THEN Next1(c) /\ grants' = [grants EXCEPT ![Item(c).id] = Item(c)]
       ELSE Fails(c) /\ UNCHANGED grants
    /\ UNCHANGED <<enrolled, proofs, files, blobs, registry>>

Revoke(c) ==
    /\ Head1(c, "revoke")
    /\ IF grants[Item(c)] # None
       THEN Next1(c) /\ grants' = [grants EXCEPT ![Item(c)].revoked = TRUE]
       ELSE Fails(c) /\ UNCHANGED grants
    /\ UNCHANGED <<enrolled, proofs, files, blobs, registry>>

Newer(q) == proofs[q.id] = None \/ proofs[q.id].time < q.time

\* cmd_import loads the stored proof, and saves its own only if that is older.
LookAtProof(c) ==
    /\ Head1(c, "look")
    /\ Continue(c, IF Newer(Item(c)) THEN <<<<"save", Item(c)>>>> ELSE <<>>, me[c].a)
    /\ UNCHANGED store

\* SqliteStore::save_proof refuses what is not newer.
SaveProof(c) ==
    /\ Head1(c, "save")
    /\ IF Newer(Item(c)) THEN Next1(c) /\ proofs' = [proofs EXCEPT ![Item(c).id] = Item(c)]
       ELSE Fails(c) /\ UNCHANGED proofs
    /\ UNCHANGED <<enrolled, grants, files, blobs, registry>>

SaveBlob(c) ==
    /\ Head1(c, "blob")
    /\ Next1(c)
    /\ blobs' = blobs \cup {Item(c)}
    /\ UNCHANGED <<enrolled, grants, proofs, files, registry>>

SaveRegistry(c) ==
    /\ Head1(c, "registry")
    /\ Next1(c)
    /\ registry' = Item(c)
    /\ UNCHANGED <<enrolled, grants, proofs, files, blobs>>

SaveFile(c) ==
    /\ Head1(c, "file")
    /\ Next1(c)
    /\ files' = [files EXCEPT ![Item(c).id] = Item(c)]
    /\ UNCHANGED <<enrolled, grants, proofs, blobs, registry>>

-----------------------------------------------------------------------------
(* The reads of cmd_export.  Ids are listed, then loaded one at a time. *)

Gather(c, phase, more, a) == Head1(c, phase) /\ Continue(c, more, a) /\ UNCHANGED store

Present(f) == {x \in DOMAIN f : f[x] # None}

ListFiles(c) == Gather(c, "x_files", Each("x_file", Present(files)), me[c].a)

\* The file is read and saved at once: save_proof refuses one already stored.
TakeFile(c) ==
    /\ Head1(c, "x_file")
    /\ IF Newer(files[Item(c)]) THEN Next1(c) /\ proofs' = [proofs EXCEPT ![Item(c)] = files[Item(c)]]
       ELSE Fails(c) /\ UNCHANGED proofs
    /\ UNCHANGED <<enrolled, grants, files, blobs, registry>>

ReadRegistry(c) == Gather(c, "x_registry", <<>>, [me[c].a EXCEPT !.registry = registry])

ListProofs(c) == Gather(c, "x_proofs", Each("x_proof", Present(proofs)), me[c].a)

LoadProof(c) == Gather(c, "x_proof", <<>>, [me[c].a EXCEPT !.proofs = @ \cup {proofs[Item(c)]}])

ReadPrincipals(c) ==
    Gather(c, "x_principals", <<>>,
           [me[c].a EXCEPT !.principals = {<<p, enrolled[p]>> : p \in Present(enrolled)}])

ListGrants(c) == Gather(c, "x_grants", Each("x_grant", Present(grants)), me[c].a)

LoadGrant(c) == Gather(c, "x_grant", <<>>, [me[c].a EXCEPT !.grants = @ \cup {grants[Item(c)]}])

ReadBlobs(c) == Gather(c, "x_blobs", <<>>, [me[c].a EXCEPT !.blobs = blobs])

WriteArchive(c) ==
    /\ Head1(c, "x_tar")
    /\ Next1(c)
    /\ shelf' = shelf \cup {[me[c].a EXCEPT !.files = {files[q] : q \in Present(files)}]}
    /\ UNCHANGED store

Crash(c) ==
    /\ me[c].use # "none" /\ crashes < MaxCrashes
    /\ crashes' = crashes + 1
    /\ me' = [me EXCEPT ![c] = Idle]
    /\ UNCHANGED <<store, drawn, shelf, out, runs>>

Step(c) ==
    /\ \/ PreflightPrincipal(c) \/ PreflightGrant(c) \/ VerifyProof(c)
       \/ SavePrincipal(c) \/ SavePlaceholder(c) \/ SaveDelegation(c) \/ SaveExact(c) \/ Revoke(c)
       \/ LookAtProof(c) \/ SaveProof(c) \/ SaveBlob(c) \/ SaveRegistry(c) \/ SaveFile(c)
       \/ ListFiles(c) \/ TakeFile(c) \/ ReadRegistry(c) \/ ListProofs(c) \/ LoadProof(c)
       \/ ReadPrincipals(c) \/ ListGrants(c) \/ LoadGrant(c) \/ ReadBlobs(c)
    /\ UNCHANGED <<drawn, shelf, runs, crashes>>

Next ==
    \E c \in Commands :
       \/ Begin(c)
       \/ Step(c)
       \/ WriteArchive(c) /\ UNCHANGED <<drawn, runs, crashes>>
       \/ Crash(c)

Spec == Init /\ [][Next]_vars

-----------------------------------------------------------------------------

\* Every stored proof verifies under the principal enrolled for its actor: import
\* verifies with keys that are enrolled, unchanged, before the first proof is stored.
StoredProofsVerify ==
    \A q \in Present(proofs) : enrolled[proofs[q].actor] = proofs[q].key

\* An import stores no principal and no delegation while a proof of its archive fails
\* to verify.
VerifiedBeforeAuthority ==
    [][\A c \in Commands :
         me[c].use = "import" /\ me'[c] # me[c] /\ (enrolled' # enrolled \/ grants' # grants)
             => \A q \in me[c].a.proofs : KeyOf(q.actor, me[c].a) = q.key]_vars

Refused(c, use) == out[c] # None /\ out[c].use = use /\ out[c].result = "refused"

\* Running alone, an export of a workspace that only commands wrote is not refused.
LoneExportFinishes == \A c \in Commands : ~ Refused(c, "export")

=============================================================================
