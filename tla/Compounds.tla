----------------------------- MODULE Compounds -----------------------------
(***************************************************************************)
(* The files of code/ (data/ goes through the same functions): compound.c  *)
(* and the part of sysenv.c that names, picks, reads, writes and removes   *)
(* them, one step for each call that touches the directory.  The user      *)
(* copies files into it while the process runs, the process may be killed  *)
(* between any two calls, and the user may throw away broken files while   *)
(* no process runs.                                                        *)
(***************************************************************************)
EXTENDS Integers, FiniteSets

CONSTANTS
  Code,       \* what a compound can be: its length and eight bytes
  DrawnName,  \* the names dsy-name prints
  UserName,   \* the names the user gives
  Absent,     \* there is no file of that name
  Torn,       \* a file of less than 16 bytes
  Nothing,    \* an unset variable
  Shelves,    \* the files the directory may hold at the start
  Holdings,   \* the compounds a new process may have to put back
  MaxFiles,   \* bound of the model: files beyond which no more is held
  MaxKills,   \* bound of the model: how often the process is killed
  MaxAdds     \* bound of the model: how many files the user adds

Name == DrawnName \cup UserName

ASSUME CompoundsAssumption ==
  /\ IsFiniteSet(Name)
  /\ {Absent, Torn, Nothing} \cap Code = {} /\ Absent # Torn
  /\ Nothing \notin Name \cup [name : UserName, code : Code]
  /\ \A shelf \in Shelves : shelf \in [Name -> Code \cup {Absent}]
  /\ \A bag \in Holdings : bag \in [Code -> Nat]
  /\ {MaxFiles, MaxKills, MaxAdds} \subseteq Nat

\* create_filename checks the name it draws against the files that exist; the
\* user who copies a file later must not hit on the very name it has drawn.
ASSUME NamesApart == DrawnName \cap UserName = {}

VARIABLES
  file,       \* the directory: Absent, Torn or a compound for each name
  pc,         \* the next call of the process; "off" and "failed": no process
  listing,    \* namelist of sysenv_get_comp
  name, buf,  \* the file the process works on and the compound it carries
  held,       \* the compounds that are with the process and its cells
  adding,     \* the file the user has opened and what goes in, or Nothing
  adds, kills \* how many files the user added, how often the process was killed

process == <<pc, listing, name, buf, held>>
user == <<adding, adds>>
vars == <<file, process, user, kills>>

Phases == {"off", "failed", "list", "idle", "pick", "loaded", "naming", "named", "open"}

Alive == pc \notin {"off", "failed"}
Existing == {n \in Name : file[n] # Absent}
Broken == {n \in Name : file[n] = Torn}
Empty == [x \in Code |-> 0]

-----------------------------------------------------------------------------

Init ==
  /\ file \in Shelves
  /\ pc = "off" /\ listing = {} /\ name = Nothing /\ buf = Nothing
  /\ held = Empty
  /\ adding = Nothing /\ adds = 0 /\ kills = 0

EndWith(p) ==
  /\ pc' = p
  /\ listing' = {} /\ name' = Nothing /\ buf' = Nothing /\ held' = Empty

\* A failed ASSERT ends the process.
Fail == EndWith("failed") /\ UNCHANGED <<file, user, kills>>

Start ==
  /\ ~Alive
  /\ pc' = "list"
  /\ \E bag \in Holdings :
       /\ bag = Empty \/ Cardinality(Existing) <= MaxFiles
       /\ held' = bag
  /\ UNCHANGED <<file, listing, name, buf, user, kills>>

\* Mutant: a file that is too short is loaded all the same.
LoadableAny(n) == file[n] # Absent

\* comp_load_from_file asserts that the file opens and has 16 bytes.
Loadable(n) == file[n] \in Code

\* update_all_code_list loads every file of the directory.
ListCodes ==
  /\ pc = "list"
  /\ IF \A n \in Existing : Loadable(n)
     THEN pc' = "idle" /\ UNCHANGED <<file, listing, name, buf, held, user, kills>>
     ELSE Fail

\* The file update_code makes it do so again.
Relist ==
  /\ pc = "idle"
  /\ pc' = "list"
  /\ UNCHANGED <<file, listing, name, buf, held, user, kills>>

-----------------------------------------------------------------------------
(* sysenv_get_comp *)

\* scandir; an empty directory ends the call.
Scan ==
  /\ pc = "idle" /\ Existing # {}
  /\ listing' = Existing
  /\ pc' = "pick"
  /\ UNCHANGED <<file, name, buf, held, user, kills>>

Load ==
  /\ pc = "pick"
  /\ \E n \in listing :
       IF Loadable(n)
       THEN /\ name' = n /\ buf' = file[n]
            /\ listing' = {}
            /\ pc' = "loaded"
            /\ UNCHANGED <<file, held, user, kills>>
       ELSE Fail

\* Mutant: the file that was read stays.
RemoveForgotten ==
  /\ pc = "loaded"
  /\ held' = [held EXCEPT ![buf] = @ + 1]
  /\ pc' = "idle" /\ name' = Nothing /\ buf' = Nothing
  /\ UNCHANGED <<file, listing, user, kills>>

Remove ==
  /\ pc = "loaded"
  /\ file' = [file EXCEPT ![name] = Absent]
  /\ held' = [held EXCEPT ![buf] = @ + 1]
  /\ pc' = "idle" /\ name' = Nothing /\ buf' = Nothing
  /\ UNCHANGED <<listing, user, kills>>

-----------------------------------------------------------------------------
(* sysenv_put_comp *)

BeginPut ==
  /\ pc = "idle"
  /\ \E x \in Code : held[x] > 0 /\ buf' = x
  /\ pc' = "naming"
  /\ UNCHANGED <<file, listing, name, held, user, kills>>

\* Mutant: the test of create_filename is dropped.
FreeAny(n) == TRUE

Free(n) == file[n] = Absent

\* Mutant: is_named is never set.
DrawNameAgain ==
  /\ pc = "naming"
  /\ \E n \in DrawnName : Free(n) /\ name' = n
  /\ UNCHANGED <<file, pc, listing, buf, held, user, kills>>

\* create_filename: dsy-name draws until no file has the name.  A draw that
\* fails changes nothing.
DrawName ==
  /\ pc = "naming"
  /\ \E n \in DrawnName : Free(n) /\ name' = n
  /\ pc' = "named"
  /\ UNCHANGED <<file, listing, buf, held, user, kills>>

\* comp_save_to_file: fopen("w+b") truncates, the content follows at fclose.
OpenNew ==
  /\ pc = "named"
  /\ file' = [file EXCEPT ![name] = Torn]
  /\ pc' = "open"
  /\ UNCHANGED <<listing, name, buf, held, user, kills>>

\* Mutant: nothing is written into the new file.
WriteNewNothing ==
  /\ pc = "open"
  /\ held' = [held EXCEPT ![buf] = @ - 1]
  /\ pc' = "idle" /\ name' = Nothing /\ buf' = Nothing
  /\ UNCHANGED <<file, listing, user, kills>>

WriteNew ==
  /\ pc = "open"
  /\ file' = [file EXCEPT ![name] = buf]
  /\ held' = [held EXCEPT ![buf] = @ - 1]
  /\ pc' = "idle" /\ name' = Nothing /\ buf' = Nothing
  /\ UNCHANGED <<listing, user, kills>>

-----------------------------------------------------------------------------
(* The user and the operating system *)

AddOpen ==
  /\ adding = Nothing /\ adds < MaxAdds
  /\ \E n \in UserName, x \in Code :
       /\ file[n] = Absent
       /\ file' = [file EXCEPT ![n] = Torn]
       /\ adding' = [name |-> n, code |-> x]
  /\ adds' = adds + 1
  /\ UNCHANGED <<process, kills>>

AddWrite ==
  /\ adding # Nothing
  /\ file' = [file EXCEPT ![adding.name] = adding.code]
  /\ adding' = Nothing
  /\ UNCHANGED <<process, adds, kills>>

Stop == Alive /\ pc = "idle" /\ EndWith("off") /\ UNCHANGED <<file, user, kills>>

Kill ==
  /\ Alive /\ kills < MaxKills
  /\ kills' = kills + 1
  /\ EndWith("failed")
  /\ UNCHANGED <<file, user>>

\* docs/tips.md: after a crash, throw away the files that are not 16 bytes long.
Repair ==
  /\ ~Alive /\ adding = Nothing /\ Broken # {}
  /\ file' = [n \in Name |-> IF file[n] = Torn THEN Absent ELSE file[n]]
  /\ UNCHANGED <<process, user, kills>>

-----------------------------------------------------------------------------

Process ==
  \/ ListCodes \/ Scan \/ Load \/ Remove
  \/ DrawName \/ OpenNew \/ WriteNew

Next ==
  \/ Process \/ Relist \/ BeginPut
  \/ Start \/ Stop \/ Kill \/ Repair \/ AddOpen \/ AddWrite

Spec == Init /\ [][Next]_vars

\* Every call returns, and dsy-name, whose draws are random, finds a free name
\* in the end if there is one.
Live == Spec /\ WF_vars(Process)

-----------------------------------------------------------------------------

TypeOK ==
  /\ file \in [Name -> Code \cup {Absent, Torn}]
  /\ pc \in Phases
  /\ listing \subseteq Name
  /\ name \in Name \cup {Nothing}
  /\ buf \in Code \cup {Nothing}
  /\ held \in [Code -> Nat]
  /\ adding \in {Nothing} \cup [name : UserName, code : Code]
  /\ adds \in 0..MaxAdds
  /\ kills \in 0..MaxKills

(***************************************************************************)
(* What the process knows of a file still holds when it uses it: the files *)
(* it listed exist, the file it read has not changed when it removes it,   *)
(* the name it found free is free when it opens it, and the file it opened *)
(* is the one it fills (sysenv.c:34-54, 199-220).                          *)
(***************************************************************************)
Fresh ==
  /\ listing \subseteq Existing
  /\ pc = "loaded" => name # Nothing /\ buf # Nothing /\ file[name] = buf
  /\ pc \in {"naming", "named", "open"} => buf # Nothing /\ held[buf] > 0
  /\ pc = "named" => name \in DrawnName /\ file[name] = Absent
  /\ pc = "open" => name \in DrawnName /\ file[name] = Torn
  /\ adding # Nothing => file[adding.name] = Torn

InProgress ==
  (IF pc = "open" THEN {name} ELSE {})
    \cup (IF adding # Nothing THEN {adding.name} ELSE {})

\* The broken files are the one being written, the one being copied in, and
\* one for each kill: no abort of the program leaves one (compound.c:45-58).
BrokenFiles == Cardinality(Broken \ InProgress) <= kills

(***************************************************************************)
(* A file that a kill left broken is never picked, for no process gets     *)
(* beyond the first listing while it is there: the whole environment       *)
(* stands still until the user throws it away (sysenv.c:110, 160-165).     *)
(***************************************************************************)
BrokenBlocks == Broken \ InProgress # {} => pc \in {"off", "failed", "list"}

(***************************************************************************)
(* Through all names, files, copies, kills and restarts the directory is a *)
(* bag: a compound is taken by one call, none is overwritten by another,   *)
(* none is in two files, and a kill loses no more than what the process    *)
(* holds.                                                                  *)
(***************************************************************************)
CodeBag == [x \in Code |-> Cardinality({n \in Name : file[n] = x})]
StoreBags ==
  {[x \in Code |-> Cardinality({n \in Name : shelf[n] = x})] : shelf \in Shelves}

Bag == INSTANCE Store WITH code <- CodeBag, up <- Alive, Stores <- StoreBags

Implements == Bag!Spec

\* A compound that is put back gets a name and a file, unless the process ends:
\* there are more names than files (sysenv.c:34).
PutEnds == pc = "naming" ~> pc \notin {"naming", "named", "open"}
============================================================================
