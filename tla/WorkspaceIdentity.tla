-------------------------- MODULE WorkspaceIdentity --------------------------
(***************************************************************************)
(* The workspace identity: .proof/config.json names the actor,             *)
(* .proof/keypair.json holds its key, .proof/rotated/ the keys before it.  *)
(*                                                                         *)
(* init creates both files with create_new; open reads both and compares;  *)
(* rotate opens, archives the old key, rewrites config and then keypair,   *)
(* each by truncating and filling, and registers the principal in the      *)
(* store.  Commands are processes without a lock between them: each file   *)
(* operation is one action and a process may die between any two.          *)
(*                                                                         *)
(* An identity is a principal id with its key; modes, links and the base64 *)
(* of the key are left out: a file that does not decode is Torn.           *)
(***************************************************************************)
EXTENDS Naturals, FiniteSets

CONSTANTS
    Callers,
    Commands,    \* Commands[c]: the commands that caller c runs
    MaxIdentity, \* bound: identities that generate_keypair draws
    Absent, Torn,
    MaxCrashes   \* bound: processes that die

\* Each is drawn once; they are numbered in the order of their draws.
Identities == 1..MaxIdentity

VARIABLES
    config,    \* Absent, Torn or the identity config.json names
    keypair,   \* Absent, Torn or the identity whose key keypair.json holds
    archived,  \* identities with a whole file in rotated/
    stored,    \* principals in the store
    drawn,     \* identities drawn so far
    call,      \* call[c]: where caller c's command stands
    opened,    \* identities some command opened, and may have signed with
    inForce,   \* identities that both files have named at one time
    crossed,   \* identities whose change of the files overlapped with another change
    crashes

vars == <<config, keypair, archived, stored, drawn, call, opened, inForce, crossed, crashes>>

Idle == [cmd |-> "none", pc |-> "idle"]

Init ==
    /\ config = Absent /\ keypair = Absent
    /\ archived = {} /\ stored = {} /\ drawn = {}
    /\ call = [c \in Callers |-> Idle]
    /\ opened = {} /\ inForce = {} /\ crossed = {} /\ crashes = 0

At(c, pc) == call[c].pc = pc

Goto(c, next) == call' = [call EXCEPT ![c] = next]

Move(c, pc) == Goto(c, [call[c] EXCEPT !.pc = pc])

\* The callers that have begun to change the files and are not done with the second one.
Changing ==
    {c \in Callers : call[c].pc \in {"fill_config", "truncate_keypair", "create_keypair",
                                    "fill_keypair"}}

\* The ghosts every action keeps.
Observe ==
    /\ crossed' = IF Cardinality(Changing') > 1
                  THEN crossed \cup {call'[c].new : c \in Changing'} ELSE crossed
    /\ inForce' = IF config' = keypair' /\ config' \in Identities
                  THEN inForce \cup {config'} ELSE inForce

Quiet == UNCHANGED <<opened, crashes>> /\ Observe

-----------------------------------------------------------------------------
(* init *)

Begin(c, cmd) ==
    /\ At(c, "idle") /\ cmd \in Commands[c]
    /\ Goto(c, [cmd |-> cmd, old |-> Absent, new |-> Absent,
                pc |-> IF cmd = "init" THEN "look_config" ELSE "read_config"])
    /\ UNCHANGED <<config, keypair, archived, stored, drawn>> /\ Quiet

\* refuse_existing_workspace_identity: config.json, then keypair.json
LookConfig(c) ==
    /\ At(c, "look_config")
    /\ IF config = Absent THEN Move(c, "look_keypair") ELSE Goto(c, Idle)
    /\ UNCHANGED <<config, keypair, archived, stored, drawn>> /\ Quiet

LookKeypair(c) ==
    /\ At(c, "look_keypair")
    /\ IF keypair = Absent THEN Move(c, "draw") ELSE Goto(c, Idle)
    /\ UNCHANGED <<config, keypair, archived, stored, drawn>> /\ Quiet

\* generate_keypair
Draw(c) ==
    /\ At(c, "draw")
    /\ Cardinality(drawn) < MaxIdentity
    /\ LET id == Cardinality(drawn) + 1 IN
          /\ drawn' = drawn \cup {id}
          /\ Goto(c, [call[c] EXCEPT !.new = id,
                        !.pc = IF call[c].cmd = "init" THEN "create_config"
                               ELSE "reread_config"])
    /\ UNCHANGED <<config, keypair, archived, stored>> /\ Quiet

\* write_new_private_file: create_new refuses a file that is there
CreateConfig(c) ==
    /\ At(c, "create_config")
    /\ IF config = Absent THEN config' = Torn /\ Move(c, "fill_config")
       ELSE Goto(c, Idle) /\ UNCHANGED config
    /\ UNCHANGED <<keypair, archived, stored, drawn>> /\ Quiet

CreateKeypair(c) ==
    /\ At(c, "create_keypair")
    /\ IF keypair = Absent THEN keypair' = Torn /\ Move(c, "fill_keypair")
       ELSE Goto(c, Idle) /\ UNCHANGED keypair
    /\ UNCHANGED <<config, archived, stored, drawn>> /\ Quiet

-----------------------------------------------------------------------------
(* open *)

ReadConfig(c) ==
    /\ At(c, "read_config")
    /\ IF config \in Identities
       THEN Goto(c, [call[c] EXCEPT !.pc = "read_keypair", !.old = config])
       ELSE Goto(c, Idle)
    /\ UNCHANGED <<config, keypair, archived, stored, drawn>> /\ Quiet

\* Mutant: the key's identity is not compared.
KeyLoads(actor, key) == key \in Identities

\* ensure_workspace_identity
Matches(actor, key) == key \in Identities /\ key = actor

\* load_keypair and the comparison: the workspace is open
ReadKeypair(c) ==
    /\ At(c, "read_keypair")
    /\ IF Matches(call[c].old, keypair)
       THEN /\ opened' = opened \cup {call[c].old}
            /\ IF call[c].cmd = "rotate" THEN Move(c, "archive") ELSE Goto(c, Idle)
       ELSE Goto(c, Idle) /\ UNCHANGED opened
    /\ UNCHANGED <<config, keypair, archived, stored, drawn, crashes>> /\ Observe

-----------------------------------------------------------------------------
(* rotate, once open *)

\* write_new_private_file under a fresh name; a death in between leaves a file nobody
\* reads
Archive(c) ==
    /\ At(c, "archive")
    /\ archived' = archived \cup {call[c].old}
    /\ Move(c, "draw")
    /\ UNCHANGED <<config, keypair, stored, drawn>> /\ Quiet

RereadConfig(c) ==
    /\ At(c, "reread_config")
    /\ IF config \in Identities THEN Move(c, "truncate_config") ELSE Goto(c, Idle)
    /\ UNCHANGED <<config, keypair, archived, stored, drawn>> /\ Quiet

\* write_private_file truncates ...
TruncateConfig(c) ==
    /\ At(c, "truncate_config")
    /\ config' = Torn /\ Move(c, "fill_config")
    /\ UNCHANGED <<keypair, archived, stored, drawn>> /\ Quiet

TruncateKeypair(c) ==
    /\ At(c, "truncate_keypair")
    /\ keypair' = Torn /\ Move(c, "fill_keypair")
    /\ UNCHANGED <<config, archived, stored, drawn>> /\ Quiet

\* ... and fills
FillConfig(c) ==
    /\ At(c, "fill_config")
    /\ config' = call[c].new
    /\ Move(c, IF call[c].cmd = "init" THEN "create_keypair" ELSE "truncate_keypair")
    /\ UNCHANGED <<keypair, archived, stored, drawn>> /\ Quiet

\* Key files differ in length: over another caller's fill a longer tail may remain.
FillKeypair(c) ==
    /\ At(c, "fill_keypair")
    /\ keypair' \in IF keypair = Torn THEN {call[c].new} ELSE {call[c].new, Torn}
    /\ Move(c, "store")
    /\ UNCHANGED <<config, archived, stored, drawn>> /\ Quiet

\* save_principal
Store(c) ==
    /\ At(c, "store")
    /\ stored' = stored \cup {call[c].new}
    /\ Goto(c, Idle)
    /\ UNCHANGED <<config, keypair, archived, drawn>> /\ Quiet

Crash(c) ==
    /\ ~ At(c, "idle") /\ crashes < MaxCrashes
    /\ crashes' = crashes + 1
    /\ Goto(c, Idle)
    /\ UNCHANGED <<config, keypair, archived, stored, drawn, opened>> /\ Observe

Next ==
    \E c \in Callers :
        \/ \E cmd \in Commands[c] : Begin(c, cmd)
        \/ LookConfig(c) \/ LookKeypair(c) \/ Draw(c) \/ CreateConfig(c) \/ CreateKeypair(c)
        \/ ReadConfig(c) \/ ReadKeypair(c)
        \/ Archive(c) \/ RereadConfig(c)
        \/ TruncateConfig(c) \/ FillConfig(c) \/ TruncateKeypair(c) \/ FillKeypair(c)
        \/ Store(c) \/ Crash(c)

Spec == Init /\ [][Next]_vars

-----------------------------------------------------------------------------

\* Type.
TypeOK ==
    /\ {config, keypair} \subseteq Identities \cup {Absent, Torn}
    /\ archived \subseteq drawn /\ stored \subseteq drawn /\ drawn \subseteq Identities
    /\ opened \cup inForce \cup crossed \subseteq drawn
    /\ crashes \in 0 .. MaxCrashes

\* No command opens a workspace, and so none signs, under an identity that the two
\* files never named together, whatever init or rotation died or is at work, unless
\* two changes overlapped and the identity is of one of them: open reads the files one
\* after the other, and the second may have been replaced in between.
OpenedWasInForce == opened \ crossed \subseteq inForce

\* Not so, with overlapping changes: whoever opens does so under an identity that the
\* files named together.
OpenedIsNeverMixed == opened \subseteq inForce

\* Among commands that take turns, every identity that was ever in force is still the
\* current key or in rotated/, wherever a command died.
IdentityIsKept == \A id \in inForce : id = keypair \/ id \in archived

=============================================================================
