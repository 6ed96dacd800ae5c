------------------------------ MODULE AllCodes ------------------------------
(***************************************************************************)
(* The list of all codes, an array of fixed length in the memory of        *)
(* dsy-sysenv: it is rebuilt from the DNA of every cell and from code/, in *)
(* the first cycle and on request, one compound after the other, while the *)
(* user adds compounds and cells; mutation draws from it.  Ecosystem and   *)
(* SysEnv know it as a set of instructions; here are its entries, its      *)
(* length and the order in which it comes about.                           *)
(***************************************************************************)
EXTENDS Integers, FiniteSets

CONSTANTS
  Compound,     \* the instructions: their eight bytes int64 and their length len
  ListLen,      \* ALL_CODE_LIST_LEN = 4096
  Founders      \* what the cells may be made of at the start

Word(c) == c.int64
Words(C) == {Word(c) : c \in C}

ASSUME AllCodesAssumption ==
  /\ \A c \in Compound : c = [int64 |-> c.int64, len |-> c.len] /\ c.len \in Nat \ {0}
  /\ IsFiniteSet(Words(Compound))
  /\ ListLen \in Nat
  /\ Founders \subseteq SUBSET Compound

VARIABLES
  dna,            \* the instructions in the DNA of the living cells
  code,           \* the instructions of the compounds in code/
  all_code_list,
  num_all_codes,
  brought,        \* history: the eight bytes of what came in cell files since cell/
                  \* was read for the list
  names,          \* what scandir found in code/
  todo,           \* what this loop has still to add
  stage

codesVars == <<dna, code, all_code_list, num_all_codes, brought, names, todo, stage>>
list == <<all_code_list, num_all_codes>>

Index == 0..(ListLen - 1)
Used == {i \in Index : i < num_all_codes}
Listed == {all_code_list[i].int64 : i \in Used}
Unset == [int64 |-> 0, len |-> 0]

CodesInit ==
  /\ dna \in Founders /\ code = {}
  /\ all_code_list = [i \in Index |-> Unset] /\ num_all_codes = 0
  /\ brought = {} /\ names = {} /\ todo = {}
  /\ stage = "start"

-----------------------------------------------------------------------------
(* update_all_code_list *)

\* The scandir of a cycle that is going to rebuild the list.
ScanCells ==
  /\ stage \in {"start", "ready"}
  /\ todo' = dna /\ brought' = {}
  /\ stage' = "scanned"
  /\ UNCHANGED <<dna, code, all_code_list, num_all_codes, names>>

Clear ==
  /\ stage = "scanned"
  /\ all_code_list' = [i \in Index |-> [all_code_list[i] EXCEPT !.len = 0]]
  /\ num_all_codes' = 0
  /\ stage' = "cells"
  /\ UNCHANGED <<dna, code, brought, names, todo>>

\* Mutant: the search goes through the whole array, entries of the last list included.
KnownAny(c) == \E i \in Index : Word(c) = all_code_list[i].int64

\* Mutant: the search leaves out the entry added last.
KnownBefore(c) ==
  \E i \in Used : i < num_all_codes - 1 /\ Word(c) = all_code_list[i].int64

Known(c) == \E i \in Used : Word(c) = all_code_list[i].int64

\* Mutant: the length is not copied.
AddWord(c) ==
  IF Known(c) THEN UNCHANGED <<all_code_list, num_all_codes, stage>>
  ELSE IF num_all_codes \in Index
  THEN /\ all_code_list' = [all_code_list EXCEPT ![num_all_codes].int64 = Word(c)]
       /\ num_all_codes' = num_all_codes + 1 /\ UNCHANGED stage
  ELSE stage' = "overrun" /\ UNCHANGED list

\* There is no test of ALL_CODE_LIST_LEN: one entry more is written behind the array.
Add(c) ==
  IF Known(c) THEN UNCHANGED <<all_code_list, num_all_codes, stage>>
  ELSE IF num_all_codes \in Index
  THEN /\ all_code_list' = [all_code_list EXCEPT ![num_all_codes] =
                              [int64 |-> Word(c), len |-> c.len]]
       /\ num_all_codes' = num_all_codes + 1 /\ UNCHANGED stage
  ELSE stage' = "overrun" /\ UNCHANGED list

\* Directories and DNAs are read in any order.
AddNext ==
  /\ stage \in {"cells", "code"}
  /\ \E c \in todo : Add(c) /\ todo' = todo \ {c}
  /\ UNCHANGED <<dna, code, brought, names>>

\* scandir: what the user adds to code/ from now on is not seen
ScanCode ==
  /\ stage = "cells" /\ todo = {}
  /\ names' = code /\ todo' = code
  /\ stage' = "code"
  /\ UNCHANGED <<dna, code, all_code_list, num_all_codes, brought>>

Updated ==
  /\ stage = "code" /\ todo = {}
  /\ stage' = "ready"
  /\ UNCHANGED <<dna, code, all_code_list, num_all_codes, brought, names, todo>>

-----------------------------------------------------------------------------
(* The turns of the cells *)

\* sysenv_get_mutated_codon, for a cell with a codon to mutate: rand() % num_all_codes.
\* Modulo zero is the end of the process.
GetMutatedCodon ==
  /\ stage = "ready" /\ dna # {}
  /\ IF num_all_codes = 0
     THEN stage' = "divided by zero" /\ UNCHANGED dna
     ELSE (\E i \in Used : dna' = dna \cup {all_code_list[i]}) /\ UNCHANGED stage
  /\ UNCHANGED <<code, all_code_list, num_all_codes, brought, names, todo>>

\* The last cell with an instruction dies.
Release ==
  /\ stage = "ready"
  /\ \E c \in dna : dna' = dna \ {c} /\ code' = code \cup {c}
  /\ UNCHANGED <<all_code_list, num_all_codes, brought, names, todo, stage>>

\* The last compound of an instruction bonds to a codon with the same eight bytes.
Bond ==
  /\ stage = "ready"
  /\ \E c \in code : Word(c) \in Words(dna) /\ code' = code \ {c}
  /\ UNCHANGED <<dna, all_code_list, num_all_codes, brought, names, todo, stage>>

\* The user adds compound files to code/.
Supply ==
  /\ \E c \in Compound \ code : code' = code \cup {c}
  /\ UNCHANGED <<dna, all_code_list, num_all_codes, brought, names, todo, stage>>

\* The user places a cell file: it has turns from the next cycle on, and no list is
\* rebuilt for it (docs/tips.md:54-56).
Place ==
  /\ \E c \in Compound : dna' = dna \cup {c} /\ brought' = brought \cup {Word(c)}
  /\ UNCHANGED <<code, all_code_list, num_all_codes, names, todo, stage>>

\* The process ended and is started again: the array is zero.
Restart ==
  /\ stage # "start" /\ stage' = "start"
  /\ all_code_list' = [i \in Index |-> Unset] /\ num_all_codes' = 0
  /\ brought' = {} /\ names' = {} /\ todo' = {}
  /\ UNCHANGED <<dna, code>>

CodesNext ==
  \/ ScanCells \/ Clear \/ AddNext \/ ScanCode \/ Updated
  \/ GetMutatedCodon \/ Release \/ Bond \/ Supply \/ Place \/ Restart

CodesSpec == CodesInit /\ [][CodesNext]_codesVars

-----------------------------------------------------------------------------

CodesTypeOK ==
  /\ dna \subseteq Compound /\ code \subseteq Compound
  /\ all_code_list \in [Index -> [int64 : Words(Compound) \cup {0}, len : Nat]]
  /\ num_all_codes \in 0..ListLen /\ brought \subseteq Words(Compound)
  /\ names \subseteq Compound /\ todo \subseteq Compound
  /\ stage \in {"start", "scanned", "cells", "code", "ready", "overrun", "divided by zero"}

(***************************************************************************)
(* sysenv.c:66 does not look at the length of the array.  However often    *)
(* the list is rebuilt, and however many compounds and cells share their   *)
(* instructions, it writes behind the array only in an environment that    *)
(* has more different instructions than the array has entries.             *)
(***************************************************************************)
Fits == stage = "overrun" => Cardinality(Words(dna \cup code)) > ListLen

(***************************************************************************)
(* Every entry is an instruction with its own length, never the bytes of   *)
(* one with the length of another or a cleared one, and it exists in the   *)
(* environment: what mutation writes into a codon is real (sysenv.c:283).  *)
(***************************************************************************)
Genuine ==
  \A i \in Used : all_code_list[i] \in Compound /\ Word(all_code_list[i]) \in Words(dna \cup code)

(***************************************************************************)
(* Once rebuilt, the list has every instruction of every living DNA and of *)
(* every compound that was in code/ when it was read, except those that    *)
(* came in a cell file after cell/ was read.  So rand() is divided by zero *)
(* for such a cell only (sysenv.c:149, 282).                               *)
(***************************************************************************)
Complete ==
  stage \in {"ready", "divided by zero"}
    => Words(dna \cup names) \subseteq Listed \cup brought

\* Each instruction has one entry, so that all are drawn equally often
\* (sysenv.c:61-64): a compound that is there a thousand times is listed once.
Once ==
  \A i, j \in Used : all_code_list[i].int64 = all_code_list[j].int64 => i = j
============================================================================
