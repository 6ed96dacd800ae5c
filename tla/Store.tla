------------------------------- MODULE Store -------------------------------
(***************************************************************************)
(* What sysenv_get_comp and sysenv_put_comp promise of a directory of      *)
(* compounds (code/ or data/): it is a bag from which the process takes    *)
(* and into which it puts one compound at a time.  No file, no name and no *)
(* moment at which a file is half written.  Compounds implements it.       *)
(***************************************************************************)
EXTENDS Integers

CONSTANTS
  Code,      \* what a compound can be
  Stores,    \* what the directory may hold at the start: bags of compounds
  Holdings   \* what a new process may have to put back: bags of compounds

VARIABLES
  code,  \* how many compounds of each kind the directory holds
  held,  \* how many compounds of each kind the process holds
  up     \* whether there is a process

vars == <<code, held, up>>

Empty == [x \in Code |-> 0]
More(bag, x) == [bag EXCEPT ![x] = @ + 1]
Less(bag, x) == [bag EXCEPT ![x] = @ - 1]

Init == code \in Stores /\ held = Empty /\ up = FALSE

Take(x) ==
  /\ up /\ code[x] > 0
  /\ code' = Less(code, x) /\ held' = More(held, x)
  /\ UNCHANGED up

Put(x) ==
  /\ up /\ held[x] > 0
  /\ code' = More(code, x) /\ held' = Less(held, x)
  /\ UNCHANGED up

\* The user adds a compound, whether a process runs or not.
Supply(x) == code' = More(code, x) /\ UNCHANGED <<held, up>>

Start == ~up /\ up' = TRUE /\ held' \in Holdings /\ UNCHANGED code

\* A process that ends, aborts or is killed loses what it holds in memory.
Stop == up /\ up' = FALSE /\ held' = Empty /\ UNCHANGED code

Next == Start \/ Stop \/ \E x \in Code : Take(x) \/ Put(x) \/ Supply(x)

Spec == Init /\ [][Next]_vars
============================================================================
