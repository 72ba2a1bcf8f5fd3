---------------------------- MODULE TrustedOpen ----------------------------
(***************************************************************************)
(* How an existing database is opened in a trusted directory.  Guards are  *)
(* descriptors; SQLite itself opens by path name.  Between any two system  *)
(* calls somebody may rename the database, lead the directory path         *)
(* somewhere else, or make or remove a journal file.  The source asks its  *)
(* callers to exclude that; the checks are there to notice when they fail. *)
(***************************************************************************)
EXTENDS Integers, Sequences

CONSTANTS
    Dirs, Files,
    Safe,      \* directories and files with the right owner, mode and links
    None,
    MaxMoves   \* bound: renames and the like

VARIABLES
    leads,     \* the directory that the path leads to
    entry,     \* the file under the database name in every directory
    side,      \* the journal of every directory: "none", "safe" or "unsafe"
    at,        \* steps of the open that are done
    given,     \* the directory descriptor of the caller
    leaf,      \* what the database name led to at first
    guard,     \* the database descriptor
    conn,      \* the file that SQLite has open
    migrates,  \* whether the open applies ordinary migrations
    migrated,  \* files that were migrated
    result,
    moves

vars == <<leads, entry, side, at, given, leaf, guard, conn, migrates, migrated, result, moves>>

open == <<given, leaf, guard, conn, migrates, migrated>>

\* A file with two names has two links and is not safe; it is left out.
OneName(e) == \A d, x \in Dirs : d # x /\ e[d] # None => e[d] # e[x]

Init ==
    /\ leads \in Dirs /\ given = leads
    /\ entry \in [Dirs -> Files \cup {None}] /\ OneName(entry)
    /\ side \in [Dirs -> {"none", "safe", "unsafe"}]
    /\ at = 0
    /\ leaf = None /\ guard = None /\ conn = None
    /\ migrates \in BOOLEAN
    /\ migrated = {}
    /\ result = "none"
    /\ moves = 0

Verify == <<"directory", "pathname", "sidecars">>

\* Mutant of Program: nothing is looked at once SQLite has the file.
ProgramShort == <<"directory", "leaf", "guard", "sidecars">> \o Verify
                \o <<"open", "read write">> \o <<"migrate">>

\* open_existing_connection_with_hook, call by call.
Program ==
    <<"directory", "leaf", "guard", "sidecars">> \o Verify
    \o <<"open", "read write", "moved">> \o Verify
    \o <<"migrate", "moved">> \o Verify

Running == result = "none" /\ at < Len(Program)

Next1 == Program[at + 1]

Named == entry[leads]

\* validate_existing_sidecars looks in the directory of the descriptor; none is fine.
SidecarsHold == side[given] # "unsafe"

\* What a step asks; steps that only change something ask nothing.
Holds ==
    CASE Next1 = "directory" -> given \in Safe /\ leads \in Safe /\ leads = given
      [] Next1 = "leaf" -> entry[given] \in Safe
      [] Next1 = "guard" -> entry[given] \in Safe /\ entry[given] = leaf
      [] Next1 = "sidecars" -> SidecarsHold
      [] Next1 = "pathname" -> Named \in Safe /\ Named = guard
      [] Next1 = "open" -> Named # None
      [] Next1 = "moved" -> Named = conn
      [] OTHER -> TRUE

Refuse ==
    /\ Running
    /\ ~Holds
    /\ result' = "refused"
    /\ UNCHANGED <<leads, entry, side, at, moves, open>>

\* What a step that passes leaves behind.
Proceed ==
    /\ Running
    /\ Holds
    /\ at' = at + 1
    /\ result' = IF at' = Len(Program) THEN "open" ELSE "none"
    /\ leaf' = IF Next1 = "leaf" THEN entry[given] ELSE leaf
    /\ guard' = IF Next1 = "guard" THEN entry[given] ELSE guard
    /\ conn' = IF Next1 = "open" THEN Named ELSE conn
    /\ migrated' = IF Next1 = "migrate" /\ migrates THEN migrated \cup {conn} ELSE migrated
    /\ UNCHANGED <<leads, entry, side, given, migrates, moves>>

MayMove == result = "none" /\ moves < MaxMoves /\ moves' = moves + 1

Rename(d, f) ==
    /\ MayMove
    /\ entry[d] # f
    /\ entry' = [entry EXCEPT ![d] = f] /\ OneName(entry')
    /\ UNCHANGED <<leads, side, at, result, open>>

LeadElsewhere(d) ==
    /\ MayMove
    /\ d # leads
    /\ leads' = d
    /\ UNCHANGED <<entry, side, at, result, open>>

ChangeJournal(d, s) ==
    /\ MayMove
    /\ side[d] # s
    /\ side' = [side EXCEPT ![d] = s]
    /\ UNCHANGED <<leads, entry, at, result, open>>

Next ==
    \/ Refuse \/ Proceed
    \/ \E d \in Dirs, f \in Files \cup {None} : Rename(d, f)
    \/ \E d \in Dirs : LeadElsewhere(d)
    \/ \E d \in Dirs, s \in {"none", "safe", "unsafe"} : ChangeJournal(d, s)

Spec == Init /\ [][Next]_vars

-----------------------------------------------------------------------------

\* open_existing_connection_with_hook: after fewer than four moves, an open that succeeds has in
\* SQLite the very file that its descriptor guards, and the path led there at the last look.
\* Alternating moves could satisfy each check in turn; it takes four of them.
OpenedIsGuarded == result = "open" => conn = guard /\ guard \in Safe

=============================================================================
