------------------------- MODULE PreviewPublication -------------------------
(***************************************************************************)
(* release.publish v2: publish_preview and verify_preview_publication.     *)
(*                                                                         *)
(* A publication reads an edition, writes the artifact to a temporary      *)
(* file, syncs it, hard-links it under its final name and unlinks the      *)
(* temporary one.  Publishers are calls of the engine; each system call is *)
(* one action, may fail, and the process may die before the next.          *)
(*                                                                         *)
(* The engine's replay ledger is reduced to what a handler sees of it: a   *)
(* key that was claimed is never claimed again (ExecutionEngine models it  *)
(* whole).  Publishers that use separate databases share only the files.   *)
(***************************************************************************)
EXTENDS Naturals, FiniteSets, Functions

CONSTANTS
    Editions,
    Keys,          \* idempotency keys, the names of the artifacts
    Publishers,    \* the calls that may be in progress together
    SharedLedger,  \* whether every publisher uses one replay ledger
    Flaws,         \* what PreviewRequest::parse can find wrong with a request
    None,
    MaxStamp,      \* bound: timestamps of execution contexts
    MaxFaults      \* bound: crashes and failing system calls

\* A request; manifest says which edition's manifest digest it names.  A flawed
\* one is otherwise right.
Requests ==
    {request \in [key : Keys, edition : Editions, manifest : Editions, flaw : Flaws] :
        request.flaw # "none" => request.manifest = request.edition}

Artifacts == [request : Requests, manifest : Editions, stamp : 1 .. MaxStamp]

VARIABLES
    editions,  \* editions[e]: "sound", or how its file was damaged
    finals,    \* finals[e][k]: None, or the bytes under the final name
    temps,     \* temps[e]: temporary files left, each [key, writer]
    calls,     \* calls[p]: where publisher p stands
    claims,    \* claims: the <<ledger, key>> pairs ever claimed
    answers,   \* the outcomes the engine completed: [request, artifact]
    faults

vars == <<editions, finals, temps, calls, claims, answers, faults>>

Idle == [pc |-> "idle", request |-> None, artifact |-> None]

Init ==
    /\ editions = [e \in Editions |-> "sound"]
    /\ finals = [e \in Editions |-> [k \in Keys |-> None]]
    /\ temps = [e \in Editions |-> {}]
    /\ calls = [p \in Publishers |-> Idle]
    /\ claims = {}
    /\ answers = {}
    /\ faults = 0

Ledger(p) == IF SharedLedger THEN None ELSE p

Finish(p) == calls' = [calls EXCEPT ![p] = Idle]

Go(p, pc) == calls' = [calls EXCEPT ![p].pc = pc]

-----------------------------------------------------------------------------
(* What a request and an edition must be. *)

\* validate_request_text: both ids are spelt as canonical UUIDs, the key is a v7.
CanonicalIds(request) == request.flaw # "uuid_spelling"

\* valid_version_label and valid_sha256_digest.
WellFormedTexts(request) == request.flaw # "label_or_digest"

\* PreviewRequest::parse: also the preview environment and no unknown field.
Parses(request) ==
    /\ CanonicalIds(request)
    /\ WellFormedTexts(request)
    /\ request.flaw # "environment_or_field"

\* The damage load_manifest detects: a field it does not know, another edition's
\* id, objects that do not have the recorded digest.
Damages == {"unknown_field", "wrong_id", "wrong_digest"}

\* validate_persisted_edition: the edition and its objects have known fields only.
KnownFields(e) == editions[e] # "unknown_field"

\* load_manifest: the edition file is sound and has the manifest the request names.
Loads(request) ==
    /\ KnownFields(request.edition)
    /\ editions[request.edition] \notin {"wrong_id", "wrong_digest"}
    /\ request.manifest = request.edition

-----------------------------------------------------------------------------
(* publish_preview. *)

\* The engine claims the key; a claimed, failed or completed one is not entered again.
Claim(p, request) ==
    /\ calls[p].pc = "idle"
    /\ <<Ledger(p), request.key>> \notin claims
    /\ claims' = claims \cup {<<Ledger(p), request.key>>}
    /\ calls' = [calls EXCEPT ![p] = [Idle EXCEPT !.pc = "load", !.request = request]]
    /\ UNCHANGED <<editions, finals, temps, answers, faults>>

\* parse, load_manifest, and the artifact with the context's timestamp.
Prepare(p, stamp) ==
    LET request == calls[p].request IN
    /\ calls[p].pc = "load"
    /\ IF Parses(request) /\ Loads(request)
       THEN calls' = [calls EXCEPT ![p].pc = "look", ![p].artifact =
                [request |-> request, manifest |-> request.manifest, stamp |-> stamp]]
       ELSE Finish(p)
    /\ UNCHANGED <<editions, finals, temps, claims, answers, faults>>

\* open_existing_file under the final name.
Final(p) == finals[calls[p].request.edition][calls[p].request.key]

\* Mutant of SameBytes: whatever is there is taken for the artifact.
AnyBytes(existing, artifact) == TRUE

\* equal_existing.
SameBytes(existing, artifact) == existing = artifact

\* publish_immutable finds the final file: equal bytes answer, others conflict.
Look(p) ==
    /\ calls[p].pc = "look"
    /\ IF Final(p) = None
       THEN Go(p, "create")
       ELSE IF SameBytes(Final(p), calls[p].artifact) THEN Go(p, "answer") ELSE Finish(p)
    /\ UNCHANGED <<editions, finals, temps, claims, answers, faults>>

Temp(p) == [key |-> calls[p].request.key, writer |-> p]

\* create_new_file; the name holds a fresh UUIDv7.
CreateTemp(p) ==
    /\ calls[p].pc = "create"
    /\ temps' = [temps EXCEPT ![calls[p].request.edition] = @ \cup {Temp(p)}]
    /\ Go(p, "write")
    /\ UNCHANGED <<editions, finals, claims, answers, faults>>

\* write_and_sync.
WriteAndSync(p) ==
    /\ calls[p].pc = "write"
    /\ Go(p, "link")
    /\ UNCHANGED <<editions, finals, temps, claims, answers, faults>>

\* hard_link_open_file_at, the name being free.
Put(p, bytes) ==
    finals' = [finals EXCEPT ![calls[p].request.edition][calls[p].request.key] = bytes]

\* The link never replaces; on EEXIST the bytes are compared and
\* the temporary file stays.
Link(p) ==
    /\ calls[p].pc = "link"
    /\ IF Final(p) = None
       THEN Put(p, calls[p].artifact) /\ Go(p, "unlink")
       ELSE /\ IF SameBytes(Final(p), calls[p].artifact) THEN Go(p, "answer") ELSE Finish(p)
            /\ UNCHANGED finals
    /\ UNCHANGED <<editions, temps, claims, answers, faults>>

\* remove_file_at.
Unlink(p) ==
    /\ calls[p].pc = "unlink"
    /\ temps' = [temps EXCEPT ![calls[p].request.edition] = @ \ {Temp(p)}]
    /\ Go(p, "answer")
    /\ UNCHANGED <<editions, finals, claims, answers, faults>>

\* The engine completes the claim with the output.
Answer(p) ==
    /\ calls[p].pc = "answer"
    /\ answers' = answers \cup {[request |-> calls[p].request, artifact |-> calls[p].artifact]}
    /\ Finish(p)
    /\ UNCHANGED <<editions, finals, temps, claims, faults>>

\* A system call fails, the completion fails, or the process dies: nothing is undone.
Fault(p) ==
    /\ calls[p].pc # "idle"
    /\ faults < MaxFaults
    /\ faults' = faults + 1
    /\ Finish(p)
    /\ UNCHANGED <<editions, finals, temps, claims, answers>>

\* An edition's file is damaged from outside.
Damage(e, damage) ==
    /\ editions[e] = "sound"
    /\ faults < MaxFaults
    /\ faults' = faults + 1
    /\ editions' = [editions EXCEPT ![e] = damage]
    /\ UNCHANGED <<finals, temps, calls, claims, answers>>

Next ==
    \/ \E p \in Publishers, request \in Requests : Claim(p, request)
    \/ \E p \in Publishers, stamp \in 1 .. MaxStamp : Prepare(p, stamp)
    \/ \E p \in Publishers : Look(p)
    \/ \E p \in Publishers : CreateTemp(p)
    \/ \E p \in Publishers : WriteAndSync(p)
    \/ \E p \in Publishers : Link(p)
    \/ \E p \in Publishers : Unlink(p)
    \/ \E p \in Publishers : Answer(p)
    \/ \E p \in Publishers : Fault(p)
    \/ \E e \in Editions, damage \in Damages : Damage(e, damage)

Spec == Init /\ [][Next]_vars

-----------------------------------------------------------------------------
(* verify_preview_publication. *)

\* is_expected_temporary_name.
OwnTemporary(temp, request) == temp.key = request.key

\* verify_preview_directory_integrity: one final artifact, the expected one, and
\* beside it only temporary files of the same name.
OnlyOwnEntries(request) ==
    /\ finals[request.edition][request.key] # None
    /\ \A k \in Keys \ {request.key} : finals[request.edition][k] = None
    /\ \A temp \in temps[request.edition] : OwnTemporary(temp, request)

\* read_preview_artifact, the directory, load_manifest again, and the binding of
\* artifact and output.
Verifies(answer) ==
    /\ Parses(answer.request)
    /\ OnlyOwnEntries(answer.request)
    /\ Loads(answer.request)
    /\ finals[answer.request.edition][answer.request.key] = answer.artifact

-----------------------------------------------------------------------------
(* Properties. *)

TypeOK ==
    /\ editions \in [Editions -> Damages \cup {"sound"}]
    /\ finals \in [Editions -> [Keys -> Artifacts \cup {None}]]
    /\ \A e \in Editions : temps[e] \subseteq [key : Keys, writer : Publishers]
    /\ \A p \in Publishers : calls[p].pc \in
           {"idle", "load", "look", "create", "write", "link", "unlink", "answer"}
    /\ faults \in 0 .. MaxFaults

\* equal_existing: an answered publication is the artifact on disk, also when
\* two publishers with separate ledgers used one key.
AnswerIsOnDisk ==
    \A answer \in answers : finals[answer.request.edition][answer.request.key] = answer.artifact

\* load_manifest: an artifact holds the manifest of its own edition.
ArtifactFitsEdition ==
    \A e \in Editions, k \in Keys : finals[e][k] # None => finals[e][k].manifest = e

\* The other publications that ever reached the directory of an edition.
Alone(answer) ==
    LET e == answer.request.edition IN
    /\ \A k \in Keys \ {answer.request.key} : finals[e][k] = None
    /\ \A temp \in temps[e] : temp.key = answer.request.key

\* verify_preview_publication accepts every answered publication of a sound
\* edition that was published under one key, whatever died beside it.
LonePublicationVerifies ==
    \A answer \in answers :
        Alone(answer) /\ editions[answer.request.edition] = "sound" => Verifies(answer)

\* The recovery the contract gives: when the publication under one key was cut
\* off and is abandoned, with its files preserved, a publication under a new
\* key that is answered is verified.
NewKeyVerifies ==
    \A answer \in answers :
        /\ editions[answer.request.edition] = "sound"
        /\ \A other \in answers : other.request.edition = answer.request.edition => other = answer
        => Verifies(answer)
=============================================================================
