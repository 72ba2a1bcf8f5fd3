-------------------------- MODULE ContentWorkspace --------------------------
(***************************************************************************)
(* The content handlers over the files of .proof/data.                     *)
(*                                                                         *)
(* A handler runs inside ExecutionEngine (whose claims are modelled there) *)
(* and has no transaction: it lists a directory, reads file after file,    *)
(* and writes file after file with std::fs::write, which truncates before  *)
(* it fills.  Callers are threads or processes on one workspace; each file *)
(* operation is one action, and a caller may die between any two.          *)
(*                                                                         *)
(* A digest of a state is the state.  updated_at is a stamp that every     *)
(* mutation takes fresh.  Authors, who prepare changesets and submit or    *)
(* reopen objects through the library, are external and write a whole file *)
(* at once.                                                                *)
(***************************************************************************)
EXTENDS Naturals, Sequences, FiniteSets, SequencesExt

CONSTANTS
    Objects,     \* object ids: numbers, in the order of the BTreeMap
    Changesets,  \* changeset ids
    Plans,       \* the edit lists an author may write
    Contents,    \* contents: a function from field names to kinds of value
    Fields,      \* Fields[name]: [required, type], the schema
    SchemaFiles, \* the names under which the schema is stored
    Callers,
    Exclusive,   \* whether one call, or one author, is at work at a time
    Absent,      \* no such file
    Torn,        \* a truncated file: no reader can parse it
    MaxStamp,    \* bound: mutations
    MaxEditions, \* bound: editions written
    MaxCrashes   \* bound: callers that die

Kinds == {"null", "text", "number"}

Statuses == {"draft", "submitted", "approved", "committed", "published"}

Record == [status : Statuses, revision : Nat, content : Contents, stamp : Nat]

ASSUME ContentAssumption ==
    /\ Objects \subseteq Nat
    /\ SchemaFiles \subseteq {"id", "id-version"}
    /\ \A content \in Contents : \A name \in DOMAIN content : content[name] \in Kinds
    /\ Exclusive \in BOOLEAN
    /\ MaxStamp \in Nat /\ MaxEditions \in Nat /\ MaxCrashes \in Nat

VARIABLES
    files,       \* files[o]: Absent, Torn or the Record in objects/<o>.json
    changesets,  \* changesets[s]: Absent, Torn or the changeset's file
    editions,    \* the editions written, with what was true when they were
    calls,       \* calls[c]: where caller c's handler stands
    stamp,       \* Utc::now
    crashes,
    last,        \* last[o]: the last whole record of o, Absent once removed
    born,        \* object ids ever used
    touched,     \* changesets a dying commit left applied in part or in whole
    seen,        \* seen[c]: directory states since c began to list
    crossed      \* callers whose commit was under way when another changed an object file

vars == <<files, changesets, editions, calls, stamp, crashes, last, born, touched, seen, crossed>>

-----------------------------------------------------------------------------
(* Schemas, objects and changesets: the pure part. *)

\* FieldType::accepts.
Accepts(type, kind) ==
    type = "json" \/ type = kind

\* SchemaDefinition::validate_object: the schema has fields, none required is
\* missing or null, no value has the wrong type, no field is unknown.
ValidContent(content) ==
    /\ DOMAIN Fields # {}
    /\ \A name \in DOMAIN Fields :
           Fields[name].required => name \in DOMAIN content /\ content[name] # "null"
    /\ \A name \in DOMAIN Fields \cap DOMAIN content :
           content[name] # "null" => Accepts(Fields[name].type, content[name])
    /\ DOMAIN content \subseteq DOMAIN Fields

\* ObjectStatus::can_transition_to.
CanTransition(from, to) ==
    <<from, to>> \in {<<"draft", "submitted">>, <<"submitted", "approved">>, <<"approved", "committed">>,
                      <<"committed", "published">>, <<"published", "draft">>}

\* Object::transition_to, once the transition is allowed.
Transitioned(record, to) ==
    [record EXCEPT !.status = to, !.stamp = stamp + 1,
                   !.revision = IF to = "draft" THEN @ + 1 ELSE @]

\* Object::create.
NewObject(content) == [status |-> "draft", revision |-> 1, content |-> content, stamp |-> stamp + 1]

\* Object::update_content and the update edit of apply: new content, next revision.
Updated(record, content) ==
    [record EXCEPT !.content = content, !.revision = @ + 1, !.stamp = stamp + 1]

Without(state, o) == Restrict(state, DOMAIN state \ {o})

With(state, o, record) == [p \in DOMAIN state \cup {o} |-> IF p = o THEN record ELSE state[p]]

\* ChangeSet::validate, one edit: ok is the answer so far, staged the objects,
\* expected the revision each later edit must name.
StageEdit(acc, edit) ==
    LET o == edit.object IN
    CASE edit.op = "create" ->
             [acc EXCEPT !.ok = @ /\ o \notin DOMAIN acc.staged /\ ValidContent(edit.content)
                                  /\ SchemaFiles # {} /\ edit.status = "draft",
                         !.staged = With(@, o, [status |-> edit.status, revision |-> 1,
                                                content |-> edit.content, stamp |-> 0])]
      [] edit.op = "update" ->
             IF o \in DOMAIN acc.expected /\ o \in DOMAIN acc.staged /\ acc.expected[o] = edit.expected
             THEN [ok |-> acc.ok /\ SchemaFiles # {} /\ ValidContent(edit.content),
                   staged |-> With(acc.staged, o, Updated(acc.staged[o], edit.content)),
                   expected |-> With(acc.expected, o, acc.expected[o] + 1)]
             ELSE [acc EXCEPT !.ok = FALSE]
      [] edit.op = "delete" ->
             IF o \in DOMAIN acc.expected /\ o \in DOMAIN acc.staged /\ acc.expected[o] = edit.expected
             THEN [acc EXCEPT !.staged = Without(@, o), !.expected = Without(@, o)]
             ELSE [acc EXCEPT !.ok = FALSE]

\* The changeset's base_state_digest is the digest of the loaded state.
BaseMatches(changeset, state) == changeset.base = state

\* ChangeSet::validate.
Valid(changeset, state) ==
    /\ BaseMatches(changeset, state)
    /\ changeset.edits # <<>>
    /\ FoldLeft(StageEdit,
                [ok |-> TRUE, staged |-> state, expected |-> [o \in DOMAIN state |-> state[o].revision]],
                changeset.edits).ok

\* ChangeSet::apply, one edit.
ApplyEdit(state, edit) ==
    CASE edit.op = "create" ->
             With(state, edit.object, [NewObject(edit.content) EXCEPT !.status = "committed"])
      [] edit.op = "update" ->
             With(state, edit.object, Updated(state[edit.object], edit.content))
      [] edit.op = "delete" -> Without(state, edit.object)

\* ChangeSet::apply.
Apply(edits, state) == FoldLeft(ApplyEdit, state, edits)

\* ChangeSet::transition_to.
ChangesetMoves ==
    {<<"draft", "submitted">>, <<"submitted", "approved">>, <<"submitted", "rejected">>,
     <<"approved", "committed">>}

ChangesetStatuses == {"draft", "submitted", "approved", "committed", "rejected"}

-----------------------------------------------------------------------------
(* The store, and what a caller holds. *)

IsRecord(file) == file # Absent /\ file # Torn

Committed(file) == IsRecord(file) /\ file.status = "committed"

Present == {o \in Objects : files[o] # Absent}

\* What the object files hold between two writes.
Current == [o \in {p \in Objects : IsRecord(files[p])} |-> files[o]]

\* What a reader of the directory meets.
View == [o \in Present |-> files[o]]

Idle ==
    [pc |-> "idle", op |-> "none", cs |-> Absent, changeset |-> Absent, todo |-> {},
     state |-> <<>>, result |-> <<>>, phase |-> 0]

Init ==
    /\ files = [o \in Objects |-> Absent]
    /\ changesets = [s \in Changesets |-> Absent]
    /\ editions = {}
    /\ calls = [c \in Callers |-> Idle]
    /\ stamp = 0
    /\ crashes = 0
    /\ last = [o \in Objects |-> Absent]
    /\ born = {}
    /\ touched = {}
    /\ seen = [c \in Callers |-> {}]
    /\ crossed = {}

Finish(c) == calls' = [calls EXCEPT ![c] = Idle]

\* Nobody else is at work, where that is assumed.
Free == Exclusive => \A c \in Callers : calls[c].pc = "idle"

\* A mutation takes Utc::now.
Tick == stamp < MaxStamp /\ stamp' = stamp + 1

-----------------------------------------------------------------------------
(* External authors. *)

\* ChangeSet::new over the current objects: the file is a draft.
AuthorChangeset(s, edits) ==
    /\ Free
    /\ changesets[s] = Absent
    /\ \A o \in Objects : files[o] # Torn
    /\ \A i \in DOMAIN edits :
           edits[i].op = "create" => edits[i].object \notin born \/ edits[i].object \in Present
    /\ changesets' = [changesets EXCEPT ![s] = [status |-> "draft", base |-> Current, edits |-> edits]]
    /\ born' = born \cup {edits[i].object : i \in {j \in DOMAIN edits : edits[j].op = "create"}}
    /\ UNCHANGED <<files, editions, calls, stamp, crashes, last, touched>>

\* ChangeSet::transition_to, up to the decision; committing is the handler's.
AuthorDecides(s, next) ==
    /\ Free
    /\ IsRecord(changesets[s])
    /\ next # "committed"
    /\ <<changesets[s].status, next>> \in ChangesetMoves
    /\ changesets' = [changesets EXCEPT ![s].status = next]
    /\ UNCHANGED <<files, editions, calls, stamp, crashes, last, born, touched>>

\* Object::transition_to by an author: a draft is submitted, a published object reopened.
AuthorMoves(o, next) ==
    /\ Free
    /\ IsRecord(files[o])
    /\ next \in {"submitted", "draft"}
    /\ CanTransition(files[o].status, next)
    /\ Tick
    /\ files' = [files EXCEPT ![o] = Transitioned(files[o], next)]
    /\ last' = [last EXCEPT ![o] = Transitioned(files[o], next)]
    /\ UNCHANGED <<changesets, editions, calls, crashes, born, touched>>

-----------------------------------------------------------------------------
(* Handlers of one object: load, check, save. *)

\* save_object of one object, and with it the answer.
SaveOne(c, op, o, record) ==
    calls' = [calls EXCEPT ![c] =
        [Idle EXCEPT !.pc = "work", !.op = op, !.todo = {o},
                     !.state = IF IsRecord(files[o]) THEN (o :> files[o]) ELSE <<>>,
                     !.result = (o :> record)]]

\* cmd_object_create (the object.create handler itself saves nothing).
ObjectCreate(c, o, content) ==
    /\ calls[c].pc = "idle" /\ Free
    /\ o \notin born
    /\ SchemaFiles # {} /\ ValidContent(content)
    /\ Tick
    /\ born' = born \cup {o}
    /\ SaveOne(c, "create", o, NewObject(content))
    /\ UNCHANGED <<files, changesets, editions, crashes, last, touched>>

\* execute_object_edit refuses an object that is not a draft.
Editable(record) == record.status = "draft"

\* execute_object_edit, up to the save; load_schema_for_object reads the
\* schema under its versioned name.
ObjectEdit(c, o, content) ==
    /\ calls[c].pc = "idle" /\ Free
    /\ IsRecord(files[o])
    /\ Editable(files[o])
    /\ "id-version" \in SchemaFiles
    /\ ValidContent(content)
    /\ Tick
    /\ SaveOne(c, "edit", o, Updated(files[o], content))
    /\ UNCHANGED <<files, changesets, editions, crashes, last, born, touched>>

\* execute_approve and execute_release, up to the save.
ObjectMove(c, o, next) ==
    /\ calls[c].pc = "idle" /\ Free
    /\ IsRecord(files[o])
    /\ next \in {"approved", "published"}
    /\ CanTransition(files[o].status, next)
    /\ Tick
    /\ SaveOne(c, "move", o, Transitioned(files[o], next))
    /\ UNCHANGED <<files, changesets, editions, crashes, last, born, touched>>

-----------------------------------------------------------------------------
(* changeset.commit and edition.create. *)

\* execute_changeset_commit reads the changeset; its status is looked at later.
CommitLoad(c, s) ==
    /\ calls[c].pc = "idle" /\ Free
    /\ IsRecord(changesets[s])
    /\ calls' = [calls EXCEPT ![c] =
           [Idle EXCEPT !.pc = "list", !.op = "commit", !.cs = s, !.changeset = changesets[s]]]
    /\ UNCHANGED <<files, changesets, editions, stamp, crashes, last, born, touched>>

\* execute_edition_create requires a committed changeset.
EditionLoad(c, s) ==
    /\ calls[c].pc = "idle" /\ Free
    /\ IsRecord(changesets[s])
    /\ changesets[s].status = "committed"
    /\ Cardinality(editions) < MaxEditions
    /\ calls' = [calls EXCEPT ![c] =
           [Idle EXCEPT !.pc = "list", !.op = "edition", !.cs = s, !.changeset = changesets[s]]]
    /\ UNCHANGED <<files, changesets, editions, stamp, crashes, last, born, touched>>

\* load_base_state lists the directory.
List(c) ==
    /\ calls[c].pc = "list"
    /\ calls' = [calls EXCEPT ![c].pc = "read", ![c].todo = Present]
    /\ UNCHANGED <<files, changesets, editions, stamp, crashes, last, born, touched>>

\* load_base_state reads one file; one that is gone or torn fails the call.
ReadOne(c, o) ==
    /\ calls[c].pc = "read"
    /\ o \in calls[c].todo
    /\ IF IsRecord(files[o])
       THEN calls' = [calls EXCEPT ![c].todo = @ \ {o}, ![c].state = With(@, o, files[o])]
       ELSE Finish(c)
    /\ UNCHANGED <<files, changesets, editions, stamp, crashes, last, born, touched>>

\* Edition::new and save_edition.  "current" records whether the objects were
\* ever together in the directory while the call read it.
SaveEdition(c) ==
    /\ calls[c].pc = "read" /\ calls[c].op = "edition" /\ calls[c].todo = {}
    /\ editions' = editions \cup
           {[cs |-> calls[c].cs, objects |-> calls[c].state, current |-> calls[c].state \in seen[c]]}
    /\ Finish(c)
    /\ UNCHANGED <<files, changesets, stamp, crashes, last, born, touched>>

\* commit_with_result: validate, then the status, then apply.
CommitDecide(c) ==
    LET call == calls[c]
        result == Apply(call.changeset.edits, call.state)
    IN
    /\ call.pc = "read" /\ call.op = "commit" /\ call.todo = {}
    /\ IF /\ Valid(call.changeset, call.state)
          /\ call.changeset.status = "approved"
          /\ SchemaFiles # {}
       THEN /\ Tick
            /\ calls' = [calls EXCEPT ![c].pc = "work", ![c].result = result, ![c].phase = 1,
                                      ![c].todo = {}]
       ELSE Finish(c) /\ UNCHANGED stamp
    /\ UNCHANGED <<files, changesets, editions, crashes, last, born, touched>>

\* Mutant of Phases: the changeset is saved before the objects.
PhasesSealFirst == <<"begin", "seal", "write", "remove">>

\* The order in which execute_changeset_commit writes: every object of the
\* result, then the removals, then the changeset.
Phases == <<"begin", "write", "remove", "seal">>

\* The next group of files to write.
NextPhase(c) ==
    LET call == calls[c]
        next == IF call.phase < 4 THEN Phases[call.phase + 1] ELSE "end"
    IN
    /\ call.pc = "work" /\ call.op = "commit" /\ call.todo = {}
    /\ calls' = [calls EXCEPT ![c].phase = @ + 1,
           ![c].todo = CASE next = "write" -> DOMAIN call.result
                         [] next = "remove" -> DOMAIN call.state \ DOMAIN call.result
                         [] OTHER -> {},
           ![c].pc = IF next = "seal" THEN "seal" ELSE "work"]
    /\ next # "end"
    /\ UNCHANGED <<files, changesets, editions, stamp, crashes, last, born, touched>>

Writing(c) ==
    /\ calls[c].pc = "work" /\ calls[c].todo # {}
    /\ calls[c].op = "commit" => Phases[calls[c].phase] = "write"

First(todo) == CHOOSE o \in todo : \A p \in todo : o <= p

\* save_object opens the file, which truncates it.
Truncate(c) ==
    LET o == First(calls[c].todo) IN
    /\ Writing(c)
    /\ files' = [files EXCEPT ![o] = Torn]
    /\ calls' = [calls EXCEPT ![c].pc = "fill"]
    /\ UNCHANGED <<changesets, editions, stamp, crashes, last, born, touched>>

\* ... and fills it.  A handler of one object has then answered.
Fill(c) ==
    LET o == First(calls[c].todo) IN
    /\ calls[c].pc = "fill"
    /\ files' = [files EXCEPT ![o] = calls[c].result[o]]
    /\ last' = [last EXCEPT ![o] = calls[c].result[o]]
    /\ IF calls[c].op = "commit"
       THEN calls' = [calls EXCEPT ![c].pc = "work", ![c].todo = @ \ {o}]
       ELSE Finish(c)
    /\ UNCHANGED <<changesets, editions, stamp, crashes, born, touched>>

\* remove_object of an object the result no longer has.
RemoveObject(c) ==
    LET o == First(calls[c].todo) IN
    /\ calls[c].pc = "work" /\ calls[c].op = "commit" /\ calls[c].todo # {}
    /\ Phases[calls[c].phase] = "remove"
    /\ files' = [files EXCEPT ![o] = Absent]
    /\ last' = [last EXCEPT ![o] = Absent]
    /\ calls' = [calls EXCEPT ![c].todo = @ \ {o}]
    /\ UNCHANGED <<changesets, editions, stamp, crashes, born, touched>>

\* save_changeset truncates ...
SealOpen(c) ==
    /\ calls[c].pc = "seal"
    /\ changesets' = [changesets EXCEPT ![calls[c].cs] = Torn]
    /\ calls' = [calls EXCEPT ![c].pc = "sealing"]
    /\ UNCHANGED <<files, editions, stamp, crashes, last, born, touched>>

\* ... and writes the committed changeset.
SealFill(c) ==
    /\ calls[c].pc = "sealing"
    /\ changesets' = [changesets EXCEPT ![calls[c].cs] =
           [calls[c].changeset EXCEPT !.status = "committed"]]
    /\ calls' = [calls EXCEPT ![c].pc = "work"]
    /\ UNCHANGED <<files, editions, stamp, crashes, last, born, touched>>

\* The commit has written everything and answers.
CommitAnswer(c) ==
    /\ calls[c].pc = "work" /\ calls[c].op = "commit" /\ calls[c].todo = {} /\ calls[c].phase = 4
    /\ Finish(c)
    /\ UNCHANGED <<files, changesets, editions, stamp, crashes, last, born, touched>>

\* The process dies: files stay as they are.
Crash(c) ==
    /\ calls[c].pc \in {"work", "fill", "seal", "sealing"}
    /\ crashes < MaxCrashes
    /\ crashes' = crashes + 1
    /\ touched' = IF calls[c].op = "commit" /\ ~Committed(changesets[calls[c].cs])
                        /\ View # calls[c].state
                  THEN touched \cup {calls[c].cs} ELSE touched
    /\ Finish(c)
    /\ UNCHANGED <<files, changesets, editions, stamp, last, born>>

-----------------------------------------------------------------------------

\* What each edition call has seen the directory hold since it began to list, and the commits
\* that were not alone in it since they did.
Observe ==
    /\ seen' = [c \in Callers |->
           IF calls'[c].pc = "read" /\ calls'[c].op = "edition" THEN seen[c] \cup {View'} ELSE {}]
    /\ crossed' = {c \in Callers :
           /\ calls'[c].op = "commit" /\ calls'[c].pc # "list"
           /\ c \in crossed \/ (files' # files /\ calls'[c] = calls[c])}

Next ==
    \/ \E s \in Changesets, edits \in Plans : AuthorChangeset(s, edits) /\ Observe
    \/ \E s \in Changesets, next \in ChangesetStatuses : AuthorDecides(s, next) /\ Observe
    \/ \E o \in Objects, next \in Statuses : AuthorMoves(o, next) /\ Observe
    \/ \E c \in Callers, o \in Objects, content \in Contents : ObjectCreate(c, o, content) /\ Observe
    \/ \E c \in Callers, o \in Objects, content \in Contents : ObjectEdit(c, o, content) /\ Observe
    \/ \E c \in Callers, o \in Objects, next \in Statuses : ObjectMove(c, o, next) /\ Observe
    \/ \E c \in Callers, s \in Changesets : CommitLoad(c, s) /\ Observe
    \/ \E c \in Callers, s \in Changesets : EditionLoad(c, s) /\ Observe
    \/ \E c \in Callers : List(c) /\ Observe
    \/ \E c \in Callers, o \in Objects : ReadOne(c, o) /\ Observe
    \/ \E c \in Callers : SaveEdition(c) /\ Observe
    \/ \E c \in Callers : CommitDecide(c) /\ Observe
    \/ \E c \in Callers : NextPhase(c) /\ Observe
    \/ \E c \in Callers : Truncate(c) /\ Observe
    \/ \E c \in Callers : Fill(c) /\ Observe
    \/ \E c \in Callers : RemoveObject(c) /\ Observe
    \/ \E c \in Callers : SealOpen(c) /\ Observe
    \/ \E c \in Callers : SealFill(c) /\ Observe
    \/ \E c \in Callers : CommitAnswer(c) /\ Observe
    \/ \E c \in Callers : Crash(c) /\ Observe

Spec == Init /\ [][Next]_vars

-----------------------------------------------------------------------------
(* Properties. *)

TypeOK ==
    /\ \A o \in Objects : files[o] \in {Absent, Torn} \cup Record
    /\ \A s \in Changesets : IsRecord(changesets[s]) => changesets[s].status \in ChangesetStatuses
    /\ \A c \in Callers : calls[c].pc \in {"idle", "list", "read", "work", "fill", "seal", "sealing"}
    /\ stamp \in 0 .. MaxStamp
    /\ crashes \in 0 .. MaxCrashes

Unstamped(state) == [o \in DOMAIN state |-> [state[o] EXCEPT !.stamp = 0]]

\* A changeset file comes to say "committed".
Seals(c, s) ==
    /\ Committed(changesets'[s]) /\ ~Committed(changesets[s])
    /\ calls[c].cs = s /\ calls'[c] # calls[c]

\* The object files are the base of the changeset with its edits applied.
Whole(s) == Unstamped(View) = Unstamped(Apply(changesets[s].edits, changesets[s].base))

\* execute_changeset_commit: when a changeset file comes to say "committed",
\* every object of its base with its edits applied is on disk, and no other,
\* wherever an earlier process died and whatever the others write meanwhile,
\* except an object file between the commit's listing and its last write.
CommitIsWhole ==
    [][\A c \in Callers, s \in Changesets : Seals(c, s) /\ c \notin crossed => Whole(s)']_vars

\* Not so: nothing keeps others out between load_base_state and save_changeset.
CommitIsAlwaysWhole == [][\A c \in Callers, s \in Changesets : Seals(c, s) => Whole(s)']_vars

\* edition.create: an edition's objects were all the object files there were,
\* together, at one moment of the call.
SnapshotIsCurrent == \A e \in editions : e.current

\* changeset.commit: what a committed changeset put into an object is written
\* over only by a call that has read it.
CommitIsReflected ==
    [][\A c \in Callers, s \in Changesets :
         /\ calls[c].pc = "fill" /\ calls'[c].pc # "fill" /\ last' # last
         /\ Committed(changesets[s]) /\ calls[c].cs # s
         => LET o == First(calls[c].todo)
                result == Unstamped(Apply(changesets[s].edits, changesets[s].base))
            IN
            (/\ IsRecord(last[o]) /\ o \in DOMAIN result
             /\ [last[o] EXCEPT !.stamp = 0] = result[o]
             /\ o \in DOMAIN changesets[s].base => result[o] # Unstamped(changesets[s].base)[o])
            => o \in DOMAIN calls[c].state /\ calls[c].state[o] = last[o]]_vars
=============================================================================
