-------------------------- MODULE EnvironmentProofs --------------------------
(***************************************************************************)
(* Theorems about the two modules of the environment that stand for        *)
(* themselves: Compounds, for every set of names and instructions, any     *)
(* files at the start, any compounds held, any number of kills and copies; *)
(* and AllCodes, for any set of instructions with finitely many different  *)
(* values of their eight bytes, any length of the array, and any number of *)
(* updates, mutations, deaths, supplies and cell files placed.             *)
(***************************************************************************)
EXTENDS Compounds, AllCodes, FiniteSetTheorems, TLAPS

-----------------------------------------------------------------------------
(* Compounds *)

\* The inductive invariant: only a process that is about to pick a file uses
\* its listing, so no file it removes or loses can make that stale.
IInv ==
  /\ TypeOK
  /\ Fresh
  /\ pc # "pick" => listing = {}

-----------------------------------------------------------------------------

LEMMA InitIInv == Init => IInv
<1> SUFFICES ASSUME Init PROVE IInv
  OBVIOUS
<1>1. TypeOK
  <2>1. file \in [Name -> Code \cup {Absent, Torn}]
    BY CompoundsAssumption DEF Init
  <2>2. held \in [Code -> Nat]
    BY DEF Init, Empty
  <2> QED
    BY CompoundsAssumption, <2>1, <2>2 DEF Init, TypeOK, Phases
<1>2. Fresh
  BY DEF Init, Fresh
<1> QED
  BY <1>1, <1>2 DEF IInv, Init

\* The process ends and its memory is gone.
LEMMA EndIInv ==
  ASSUME IInv, NEW p \in {"off", "failed"}, EndWith(p),
         file' = file, UNCHANGED user, kills' \in 0..MaxKills
  PROVE  IInv'
<1>1. TypeOK'
  BY DEF IInv, TypeOK, EndWith, Phases, Empty, user
<1>2. Fresh'
  BY DEF IInv, Fresh, EndWith, user
<1> QED
  BY <1>1, <1>2 DEF IInv, EndWith

LEMMA FailIInv == ASSUME IInv, Fail PROVE IInv'
<1>1. kills' \in 0..MaxKills
  BY DEF Fail, IInv, TypeOK
<1> QED
  BY <1>1, EndIInv DEF Fail

\* The compound the process carries is one.
LEMMA Carried ==
  ASSUME IInv, pc \in {"loaded", "naming", "named", "open"}
  PROVE  buf \in Code
BY DEF IInv, TypeOK, Fresh

LEMMA NextIInv == IInv /\ [Next]_vars => IInv'
<1> SUFFICES ASSUME IInv, [Next]_vars PROVE IInv'
  OBVIOUS
<1> USE DEF IInv
<1>1. CASE ListCodes
  <2>1. CASE Fail
    BY <2>1, FailIInv
  <2>2. CASE ~Fail
    <3>1. pc = "list" /\ pc' = "idle" /\ UNCHANGED <<file, listing, name, buf, held, user, kills>>
      BY <1>1, <2>2 DEF ListCodes
    <3> QED
      BY <3>1 DEF TypeOK, Fresh, Phases, user, Existing
  <2> QED
    BY <2>1, <2>2
<1>2. CASE Scan
  BY <1>2 DEF Scan, TypeOK, Fresh, Phases, user, Existing
<1>3. CASE Load
  <2>1. CASE Fail
    BY <2>1, FailIInv
  <2>2. CASE ~Fail
    <3>1. PICK n \in listing :
            /\ Loadable(n) /\ name' = n /\ buf' = file[n] /\ listing' = {}
            /\ pc' = "loaded" /\ UNCHANGED <<file, held, user, kills>>
      BY <1>3, <2>2 DEF Load
    <3>2. n \in Name /\ file[n] \in Code
      BY <3>1 DEF TypeOK, Loadable
    <3>3. TypeOK'
      BY <3>1, <3>2 DEF TypeOK, Phases, user
    <3>4. Fresh'
      BY CompoundsAssumption, <3>1, <3>2 DEF Fresh, Existing, user
    <3> QED
      BY <3>1, <3>3, <3>4
  <2> QED
    BY <2>1, <2>2
<1>4. CASE Remove
  <2>1. buf \in Code /\ name \in Name /\ file[name] = buf /\ pc = "loaded" /\ listing = {}
    BY <1>4, Carried DEF Remove, TypeOK, Fresh
  <2>2. TypeOK'
    BY <1>4, <2>1 DEF Remove, TypeOK, Phases, user
  <2>3. adding # Nothing => adding.name # name
    BY CompoundsAssumption, <2>1 DEF Fresh
  <2>4. Fresh'
    BY <1>4, <2>1, <2>3 DEF Remove, Fresh, TypeOK, Existing, user
  <2> QED
    BY <1>4, <2>1, <2>2, <2>4 DEF Remove
<1>5. CASE DrawName
  <2>1. PICK n \in DrawnName : file[n] = Absent /\ name' = n
    BY <1>5 DEF DrawName, Free
  <2>2. pc = "naming" /\ pc' = "named" /\ UNCHANGED <<file, listing, buf, held, user, kills>>
    BY <1>5 DEF DrawName
  <2>3. TypeOK'
    BY <2>1, <2>2 DEF TypeOK, Phases, Name, user
  <2> QED
    BY <2>1, <2>2, <2>3 DEF Fresh, Existing, user
<1>6. CASE OpenNew
  <2>1. name \in DrawnName /\ file[name] = Absent /\ buf # Nothing /\ held[buf] > 0 /\ listing = {}
    BY <1>6 DEF OpenNew, Fresh
  <2>2. TypeOK'
    BY <1>6, <2>1 DEF OpenNew, TypeOK, Phases, user, Name
  <2>3. Fresh'
    BY <1>6, <2>1 DEF OpenNew, Fresh, TypeOK, Existing, user, Name
  <2> QED
    BY <1>6, <2>1, <2>2, <2>3 DEF OpenNew
<1>7. CASE WriteNew
  <2>1. name \in DrawnName /\ buf \in Code /\ held[buf] > 0 /\ listing = {}
    BY <1>7, Carried DEF WriteNew, Fresh
  <2>2. adding # Nothing => adding.name \in UserName
    BY DEF TypeOK
  <2>3. TypeOK'
    <3>1. held' \in [Code -> Nat]
      BY <1>7, <2>1 DEF WriteNew, TypeOK
    <3> QED
      BY <1>7, <2>1, <3>1 DEF WriteNew, TypeOK, Phases, user, Name
  <2>4. Fresh'
    BY NamesApart, CompoundsAssumption, <1>7, <2>1, <2>2
       DEF WriteNew, Fresh, TypeOK, Existing, user, Name
  <2> QED
    BY <1>7, <2>1, <2>3, <2>4 DEF WriteNew
<1>8. CASE Relist
  BY <1>8 DEF Relist, TypeOK, Fresh, Phases, user, Existing
<1>9. CASE BeginPut
  BY CompoundsAssumption, <1>9 DEF BeginPut, TypeOK, Fresh, Phases, user, Existing
<1>10. CASE Start
  <2>1. held' \in [Code -> Nat]
    BY CompoundsAssumption, <1>10 DEF Start
  <2>2. pc \in {"off", "failed"}
    BY <1>10 DEF Start, Alive
  <2> QED
    BY <1>10, <2>1, <2>2 DEF Start, TypeOK, Fresh, Phases, user, Existing
<1>11. CASE Stop
  <2>1. EndWith("off") /\ file' = file /\ UNCHANGED user /\ kills' \in 0..MaxKills
    BY <1>11 DEF Stop, TypeOK
  <2> QED
    BY <2>1, EndIInv
<1>12. CASE Kill
  <2>1. EndWith("failed") /\ file' = file /\ UNCHANGED user /\ kills' \in 0..MaxKills
    BY CompoundsAssumption, <1>12 DEF Kill, TypeOK
  <2> QED
    BY <2>1, EndIInv
<1>13. CASE Repair
  <2>1. pc \in {"off", "failed"} /\ listing = {} /\ adding = Nothing
    BY <1>13 DEF Repair, Alive
  <2>2. TypeOK'
    BY <1>13 DEF Repair, TypeOK, process, user
  <2> QED
    BY <1>13, <2>1, <2>2 DEF Repair, Fresh, process, user
<1>14. CASE AddOpen
  <2>1. PICK n \in UserName, x \in Code :
          /\ file[n] = Absent
          /\ file' = [file EXCEPT ![n] = Torn]
          /\ adding' = [name |-> n, code |-> x]
    BY <1>14 DEF AddOpen
  <2>2. UNCHANGED <<process, kills>> /\ adds' = adds + 1 /\ adds < MaxAdds
    BY <1>14 DEF AddOpen
  <2>3. TypeOK'
    <3>1. adding' \in [name : UserName, code : Code]
      BY <2>1
    <3>2. file' \in [Name -> Code \cup {Absent, Torn}]
      BY <2>1 DEF TypeOK
    <3>3. MaxAdds \in Nat /\ adds' \in 0..MaxAdds
      BY CompoundsAssumption, <2>2 DEF TypeOK
    <3> QED
      BY <2>2, <3>1, <3>2, <3>3 DEF TypeOK, process
  <2>4. Fresh'
    BY NamesApart, CompoundsAssumption, <2>1, <2>2, Carried
       DEF Fresh, TypeOK, Existing, process, Name
  <2> QED
    BY <2>2, <2>3, <2>4 DEF process
<1>15. CASE AddWrite
  <2>1. adding.name \in UserName /\ adding.code \in Code /\ file[adding.name] = Torn
    BY <1>15 DEF AddWrite, TypeOK, Fresh
  <2>2. TypeOK'
    BY <1>15, <2>1 DEF AddWrite, TypeOK, process
  <2>3. Fresh'
    BY NamesApart, CompoundsAssumption, <1>15, <2>1, Carried
       DEF AddWrite, Fresh, TypeOK, Existing, process, Name
  <2> QED
    BY <1>15, <2>2, <2>3 DEF AddWrite, process
<1>16. CASE UNCHANGED vars
  BY <1>16 DEF vars, process, user, TypeOK, Fresh, Existing
<1> QED
  BY <1>1, <1>2, <1>3, <1>4, <1>5, <1>6, <1>7, <1>8, <1>9, <1>10, <1>11, <1>12,
     <1>13, <1>14, <1>15, <1>16 DEF Next, Process

\* The inductive invariant holds in every reachable state.
THEOREM IInvTheorem == Spec => []IInv
<1> QED
  BY InitIInv, NextIInv, PTL DEF Spec

-----------------------------------------------------------------------------

(***************************************************************************)
(* Types: above all, the process never works on a file or a compound it    *)
(* has not read, and never puts back more than it holds.                   *)
(***************************************************************************)
THEOREM TypeTheorem == Spec => []TypeOK
<1>1. IInv => TypeOK
  BY DEF IInv
<1> QED
  BY <1>1, IInvTheorem, PTL

(***************************************************************************)
(* What the process knows of a file still holds when it uses it, whatever  *)
(* the user copies in between: sysenv_get_comp removes what it read, and   *)
(* comp_save_to_file overwrites no compound.                               *)
(***************************************************************************)
THEOREM FreshTheorem == Spec => []Fresh
<1>1. IInv => Fresh
  BY DEF IInv
<1> QED
  BY <1>1, IInvTheorem, PTL

-----------------------------------------------------------------------------
(* Broken files *)

\* The files that nobody is about to fill.
Left == Broken \ InProgress

LEMMA LeftFinite == IsFiniteSet(Left) /\ Left \subseteq Name
<1>1. Left \subseteq Name
  BY DEF Left, Broken
<1> QED
  BY CompoundsAssumption, <1>1, FS_Subset

\* A step leaves a broken file behind only if it is a kill, and then one.
LEMMA LeftStep ==
  ASSUME IInv, [Next]_vars
  PROVE  \/ Left' \subseteq Left /\ kills' = kills
         \/ /\ Kill /\ kills' = kills + 1
            /\ \E n : Left' \subseteq Left \cup {n}
<1> USE DEF Left, Broken, InProgress
<1>1. CASE ListCodes \/ Scan \/ Load \/ DrawName \/ Relist \/ BeginPut \/ Start \/ Stop
  <2>1. pc # "open" /\ pc' # "open" /\ file' = file /\ adding' = adding /\ kills' = kills
    BY <1>1 DEF ListCodes, Scan, Load, DrawName, Relist, BeginPut, Start, Stop,
                Fail, EndWith, user, Alive
  <2> QED
    BY <2>1
<1>2. CASE Remove
  <2>1. pc = "loaded" /\ pc' = "idle" /\ adding' = adding /\ kills' = kills
        /\ file' = [file EXCEPT ![name] = Absent]
    BY <1>2 DEF Remove, user
  <2> QED
    BY CompoundsAssumption, <2>1 DEF IInv, TypeOK
<1>3. CASE OpenNew
  <2>1. pc' = "open" /\ name' = name /\ adding' = adding /\ kills' = kills
        /\ file' = [file EXCEPT ![name] = Torn] /\ pc = "named"
    BY <1>3 DEF OpenNew, user
  <2> QED
    BY <2>1 DEF IInv, TypeOK
<1>4. CASE WriteNew
  <2>1. pc = "open" /\ pc' = "idle" /\ adding' = adding /\ kills' = kills
        /\ file' = [file EXCEPT ![name] = buf]
    BY <1>4 DEF WriteNew, user
  <2>2. buf # Torn /\ name \in Name
    BY CompoundsAssumption, <2>1, Carried DEF IInv, Fresh, Name
  <2> QED
    BY <2>1, <2>2 DEF IInv, TypeOK
<1>5. CASE Kill
  <2>1. file' = file /\ adding' = adding /\ kills' = kills + 1 /\ pc' = "failed"
    BY <1>5 DEF Kill, EndWith, user
  <2>2. CASE pc = "open"
    <3>1. Left' \subseteq Left \cup {name}
      BY <2>1, <2>2
    <3> HIDE DEF Left
    <3> QED
      BY <1>5, <2>1, <3>1
  <2>3. CASE pc # "open"
    <3>1. Left' \subseteq Left
      BY <2>1, <2>3
    <3>2. Left' \subseteq Left \cup {name}
      BY <3>1
    <3> HIDE DEF Left
    <3> QED
      BY <1>5, <2>1, <3>2
  <2> QED
    BY <2>2, <2>3
<1>6. CASE Repair
  <2>1. Broken' = {} /\ kills' = kills
    BY CompoundsAssumption, <1>6 DEF Repair
  <2> QED
    BY <2>1
<1>7. CASE AddOpen
  <2>1. PICK n \in UserName, x \in Code :
          file' = [file EXCEPT ![n] = Torn] /\ adding' = [name |-> n, code |-> x]
    BY <1>7 DEF AddOpen
  <2>2. adding = Nothing /\ UNCHANGED <<pc, name, kills>>
    BY <1>7 DEF AddOpen, process
  <2>3. adding' # Nothing
    BY CompoundsAssumption, <2>1
  <2> QED
    BY <2>1, <2>2, <2>3 DEF IInv, TypeOK
<1>8. CASE AddWrite
  <2>1. adding # Nothing /\ adding' = Nothing /\ UNCHANGED <<pc, name, kills>>
        /\ file' = [file EXCEPT ![adding.name] = adding.code]
    BY <1>8 DEF AddWrite, process
  <2>2. adding.code # Torn
    BY CompoundsAssumption, <2>1 DEF IInv, TypeOK
  <2> QED
    BY <2>1, <2>2 DEF IInv, TypeOK
<1>9. CASE UNCHANGED vars
  BY <1>9 DEF vars, process, user
<1> QED
  BY <1>1, <1>2, <1>3, <1>4, <1>5, <1>6, <1>7, <1>8, <1>9 DEF Next, Process

\* The inductive invariant with the bound on broken files.
LEMMA LeftBound == IInv /\ BrokenFiles /\ [Next]_vars => BrokenFiles'
<1> SUFFICES ASSUME IInv, BrokenFiles, [Next]_vars PROVE BrokenFiles'
  OBVIOUS
<1>1. IsFiniteSet(Left) /\ Cardinality(Left) \in Nat /\ Cardinality(Left) <= kills
  BY LeftFinite, FS_CardinalityType DEF BrokenFiles, Left
<1>2. kills \in Nat
  BY DEF IInv, TypeOK
<1>3. CASE Left' \subseteq Left /\ kills' = kills
  <2>1. Cardinality(Left') <= Cardinality(Left) /\ Cardinality(Left') \in Nat
    BY <1>1, <1>3, FS_Subset, FS_CardinalityType
  <2>2. Cardinality(Left') <= kills'
    BY <1>1, <1>2, <1>3, <2>1
  <2> QED
    BY <2>2 DEF BrokenFiles, Left
<1>4. CASE kills' = kills + 1 /\ \E n : Left' \subseteq Left \cup {n}
  <2>1. PICK n : Left' \subseteq Left \cup {n}
    BY <1>4
  <2>2. /\ IsFiniteSet(Left \cup {n}) /\ Cardinality(Left \cup {n}) \in Nat
        /\ Cardinality(Left \cup {n}) <= Cardinality(Left) + 1
    <3>1. IsFiniteSet(Left \cup {n})
          /\ Cardinality(Left \cup {n}) =
               IF n \in Left THEN Cardinality(Left) ELSE Cardinality(Left) + 1
      BY <1>1, FS_AddElement
    <3> HIDE DEF Left
    <3> QED
      BY <1>1, <3>1, FS_CardinalityType
  <2>3. Cardinality(Left') <= Cardinality(Left \cup {n}) /\ Cardinality(Left') \in Nat
    BY <2>1, <2>2, FS_Subset, FS_CardinalityType
  <2>4. Cardinality(Left') <= kills'
    BY <1>1, <1>2, <1>4, <2>2, <2>3
  <2> QED
    BY <2>4 DEF BrokenFiles, Left
<1> QED
  BY <1>3, <1>4, LeftStep

(***************************************************************************)
(* However often it is killed, the process leaves at most one broken file  *)
(* for each kill, and no abort of its own leaves any.                      *)
(***************************************************************************)
THEOREM BrokenTheorem == Spec => []BrokenFiles
<1>1. Init => BrokenFiles
  <2> SUFFICES ASSUME Init PROVE BrokenFiles
    OBVIOUS
  <2>1. Broken \ InProgress = {}
    BY CompoundsAssumption DEF Init, Broken
  <2> QED
    BY <2>1, FS_EmptySet DEF Init, BrokenFiles
<1> QED
  BY <1>1, LeftBound, IInvTheorem, PTL DEF Spec

(***************************************************************************)
(* While a broken file is there no process gets beyond its first listing:  *)
(* no cell takes it for a compound.                                        *)
(***************************************************************************)
THEOREM BlocksTheorem == Spec => []BrokenBlocks
<1>1. Init => BrokenBlocks
  BY DEF Init, BrokenBlocks
<1>2. IInv /\ BrokenBlocks /\ [Next]_vars => BrokenBlocks'
  <2> SUFFICES ASSUME IInv, BrokenBlocks, [Next]_vars PROVE BrokenBlocks'
    OBVIOUS
  <2>1. CASE Left = {}
    <3>1. Kill => pc' = "failed"
      BY DEF Kill, EndWith
    <3> QED
      BY <2>1, <3>1, LeftStep DEF BrokenBlocks, Left
  <2>2. CASE Left # {}
    <3>1. pc \in {"off", "failed", "list"}
      BY <2>2 DEF BrokenBlocks, Left
    <3>2. \E n \in Existing : ~Loadable(n)
      BY CompoundsAssumption, <2>2 DEF Left, Broken, Existing, Loadable
    <3>3. ~(pc' \in {"off", "failed", "list"}) => FALSE
      <4>1. ListCodes => Fail
        BY <3>2 DEF ListCodes
      <4> QED
        BY <3>1, <4>1 DEF Next, Process, Scan, Load, Remove, DrawName, OpenNew, WriteNew,
           Relist, BeginPut, Start, Stop, Kill, Repair, AddOpen, AddWrite, Fail, EndWith,
           Alive, vars, process
    <3> QED
      BY <3>3 DEF BrokenBlocks
  <2> QED
    BY <2>1, <2>2
<1> QED
  BY <1>1, <1>2, IInvTheorem, PTL DEF Spec

-----------------------------------------------------------------------------
(* The directory is a bag *)

\* The files of a compound.
Copies(x) == {n \in Name : file[n] = x}

\* A file that is no compound becomes one: its bag has one more.
LEMMA OneMore ==
  ASSUME IInv, NEW n \in Name, file[n] \notin Code, NEW x \in Code,
         file' = [file EXCEPT ![n] = x]
  PROVE  CodeBag' = [CodeBag EXCEPT ![x] = @ + 1]
<1>1. \A y \in Code : Copies(y)' = IF y = x THEN Copies(y) \cup {n} ELSE Copies(y)
  BY DEF Copies, IInv, TypeOK
<1>2. IsFiniteSet(Copies(x)) /\ n \notin Copies(x)
  BY CompoundsAssumption, FS_Subset DEF Copies
<1>3. Cardinality(Copies(x) \cup {n}) = Cardinality(Copies(x)) + 1
  BY <1>2, FS_AddElement
<1>4. \A y \in Code : Cardinality(Copies(y)') =
                       IF y = x THEN Cardinality(Copies(x)) + 1 ELSE Cardinality(Copies(y))
  BY <1>1, <1>3
<1> QED
  BY <1>4 DEF CodeBag, Copies

\* A file that was a compound is none: its bag has one less.
LEMMA OneLess ==
  ASSUME IInv, NEW n \in Name, file[n] \in Code, NEW v, v \notin Code,
         file' = [file EXCEPT ![n] = v]
  PROVE  /\ CodeBag' = [CodeBag EXCEPT ![file[n]] = @ - 1]
         /\ CodeBag[file[n]] > 0
<1> DEFINE x == file[n]
<1>1. \A y \in Code : Copies(y)' = IF y = x THEN Copies(y) \ {n} ELSE Copies(y)
  BY DEF Copies, IInv, TypeOK
<1>2. IsFiniteSet(Copies(x)) /\ n \in Copies(x) /\ Cardinality(Copies(x)) \in Nat
  BY CompoundsAssumption, FS_Subset, FS_CardinalityType DEF Copies
<1>3. Cardinality(Copies(x) \ {n}) = Cardinality(Copies(x)) - 1
  BY <1>2, FS_RemoveElement
<1>4. Cardinality(Copies(x)) > 0
  BY <1>2, FS_EmptySet
<1>5. \A y \in Code : Cardinality(Copies(y)') =
                       IF y = x THEN Cardinality(Copies(x)) - 1 ELSE Cardinality(Copies(y))
  BY <1>1, <1>3
<1> QED
  BY <1>4, <1>5 DEF CodeBag, Copies

\* No compound comes or goes: the bag stays.
LEMMA SameBag ==
  ASSUME \A n \in Name, x \in Code : file'[n] = x <=> file[n] = x
  PROVE  CodeBag' = CodeBag
<1>1. \A x \in Code : Copies(x)' = Copies(x)
  BY DEF Copies
<1> QED
  BY <1>1 DEF CodeBag, Copies

\* Each call of the process, each copy and each end is a step of the bag.
LEMMA Simulation == IInv /\ [Next]_vars => [Bag!Next]_(Bag!vars)
<1> SUFFICES ASSUME IInv, [Next]_vars PROVE [Bag!Next]_(Bag!vars)
  OBVIOUS
<1>0. file' = file => CodeBag' = CodeBag
  BY SameBag
<1>1. CASE ListCodes \/ Scan \/ Load
  <2>1. CASE Fail /\ Alive
    <3>1. Bag!Stop
      BY <1>0, <2>1 DEF Fail, EndWith, Alive, Bag!Stop, Empty, Bag!Empty
    <3> QED
      BY <3>1 DEF Bag!Next
  <2>2. CASE ~Fail
    BY <1>0, <1>1, <2>2 DEF ListCodes, Scan, Load, Alive, Bag!vars
  <2>3. Alive
    BY <1>1 DEF ListCodes, Scan, Load, Alive
  <2> QED
    BY <2>1, <2>2, <2>3
<1>2. CASE DrawName \/ Relist \/ BeginPut
  BY <1>0, <1>2 DEF DrawName, Relist, BeginPut, Alive, Bag!vars
<1>3. CASE Remove
  <2>1. name \in Name /\ file[name] = buf /\ buf \in Code
    BY <1>3, Carried DEF Remove, IInv, TypeOK, Fresh
  <2>2. CodeBag' = [CodeBag EXCEPT ![buf] = @ - 1] /\ CodeBag[buf] > 0
    BY CompoundsAssumption, <1>3, <2>1, OneLess DEF Remove
  <2>3. Bag!Take(buf)
    BY <1>3, <2>2 DEF Remove, Alive, Bag!Take, Bag!Less, Bag!More
  <2> QED
    BY <2>1, <2>3 DEF Bag!Next
<1>4. CASE OpenNew
  <2>1. name \in Name /\ file[name] = Absent
    BY <1>4 DEF OpenNew, IInv, Fresh, Name
  <2>2. \A n \in Name, x \in Code : file'[n] = x <=> file[n] = x
    BY CompoundsAssumption, <1>4, <2>1 DEF OpenNew, IInv, TypeOK
  <2> QED
    BY <1>4, <2>2, SameBag DEF OpenNew, Alive, Bag!vars
<1>5. CASE WriteNew
  <2>1. name \in Name /\ file[name] = Torn /\ buf \in Code /\ held[buf] > 0
    BY <1>5, Carried DEF WriteNew, IInv, Fresh, Name
  <2>2. CodeBag' = [CodeBag EXCEPT ![buf] = @ + 1]
    BY CompoundsAssumption, <1>5, <2>1, OneMore DEF WriteNew
  <2>3. Bag!Put(buf)
    BY <1>5, <2>1, <2>2 DEF WriteNew, Alive, Bag!Put, Bag!Less, Bag!More
  <2> QED
    BY <2>1, <2>3 DEF Bag!Next
<1>6. CASE Start
  BY <1>0, <1>6 DEF Start, Alive, Bag!Start, Bag!Next
<1>7. CASE Stop \/ Kill
  <2>1. Bag!Stop
    BY <1>0, <1>7 DEF Stop, Kill, EndWith, Alive, Bag!Stop, Empty, Bag!Empty
  <2> QED
    BY <2>1 DEF Bag!Next
<1>8. CASE Repair
  <2>1. \A n \in Name, x \in Code : file'[n] = x <=> file[n] = x
    BY CompoundsAssumption, <1>8 DEF Repair, IInv, TypeOK
  <2> QED
    BY <1>8, <2>1, SameBag DEF Repair, process, Alive, Bag!vars
<1>9. CASE AddOpen
  <2>1. \A n \in Name, x \in Code : file'[n] = x <=> file[n] = x
    BY CompoundsAssumption, <1>9 DEF AddOpen, IInv, TypeOK, Name
  <2> QED
    BY <1>9, <2>1, SameBag DEF AddOpen, process, Alive, Bag!vars
<1>10. CASE AddWrite
  <2>1. /\ adding.name \in Name /\ adding.code \in Code
        /\ file[adding.name] = Torn
    BY <1>10 DEF AddWrite, IInv, TypeOK, Fresh, Name
  <2>2. CodeBag' = [CodeBag EXCEPT ![adding.code] = @ + 1]
    BY CompoundsAssumption, <1>10, <2>1, OneMore DEF AddWrite
  <2>3. Bag!Supply(adding.code)
    BY <1>10, <2>2 DEF AddWrite, process, Alive, Bag!Supply, Bag!More
  <2> QED
    BY <2>1, <2>3 DEF Bag!Next
<1>11. CASE UNCHANGED vars
  BY <1>0, <1>11 DEF vars, process, Alive, Bag!vars
<1> QED
  BY <1>1, <1>2, <1>3, <1>4, <1>5, <1>6, <1>7, <1>8, <1>9, <1>10, <1>11 DEF Next, Process

(***************************************************************************)
(* For any number of files, names, kills and copies the directory is the   *)
(* bag of Store: taking and putting are each one step, in which no other   *)
(* compound is lost, doubled or overwritten.                               *)
(***************************************************************************)
THEOREM ImplementsTheorem == Spec => Implements
<1>1. Init => Bag!Init
  <2> SUFFICES ASSUME Init PROVE Bag!Init
    OBVIOUS
  <2>1. CodeBag \in StoreBags
    BY DEF Init, CodeBag, StoreBags
  <2> QED
    BY <2>1 DEF Init, Bag!Init, Alive, Empty, Bag!Empty
<1> QED
  BY <1>1, Simulation, IInvTheorem, PTL DEF Spec, Implements, Bag!Spec

-----------------------------------------------------------------------------
(* The list of all codes *)

\* Where the compounds that are still to be added come from.
Sources ==
  /\ stage \in {"scanned", "cells"} => todo \subseteq dna
  /\ stage = "code" => todo \subseteq names /\ names \subseteq code

\* What is not in the list yet is still to be added.
Covers ==
  /\ stage = "scanned" => Words(dna) \subseteq Words(todo) \cup brought
  /\ stage = "cells" => Words(dna) \subseteq Listed \cup Words(todo) \cup brought
  /\ stage = "code" => Words(dna \cup names) \subseteq Listed \cup Words(todo) \cup brought
  /\ stage \in {"ready", "divided by zero"} => Words(dna \cup names) \subseteq Listed \cup brought

\* The inductive invariant.
CodesInv == CodesTypeOK /\ Genuine /\ Once /\ Sources /\ Covers /\ Fits

-----------------------------------------------------------------------------
(* One entry more *)

\* What exists has finitely many values of its eight bytes.
LEMMA PresentFinite ==
  ASSUME CodesTypeOK
  PROVE  /\ IsFiniteSet(Words(dna \cup code))
         /\ Cardinality(Words(dna \cup code)) \in Nat
<1>1. Words(dna \cup code) \subseteq Words(Compound)
  BY DEF CodesTypeOK, Words
<1>2. IsFiniteSet(Words(Compound))
  BY AllCodesAssumption
<1>3. IsFiniteSet(Words(dna \cup code))
  BY <1>1, <1>2, FS_Subset
<1> QED
  BY <1>3, FS_CardinalityType

\* When a full list does not have an instruction, there are more than it has entries.
LEMMA ListFull ==
  ASSUME CodesTypeOK, Genuine, Once, num_all_codes = ListLen,
         NEW c \in Compound, Word(c) \in Words(dna \cup code), ~Known(c)
  PROVE  Cardinality(Words(dna \cup code)) > ListLen
<1>1. ListLen \in Nat
  BY AllCodesAssumption
<1> DEFINE f == [i \in 0..ListLen |-> IF i = ListLen THEN Word(c) ELSE all_code_list[i].int64]
           W == Words(dna \cup code)
<1>2. \A i \in 0..ListLen : i # ListLen => i \in Used
  BY <1>1 DEF Used, Index
<1>3. \A i \in Used : all_code_list[i].int64 \in W
  BY DEF Genuine, Word
<1>4. f \in [0..ListLen -> W]
  BY <1>2, <1>3
<1>5. ASSUME NEW i \in 0..ListLen, NEW j \in 0..ListLen, f[i] = f[j]
      PROVE  i = j
  <2>1. CASE i # ListLen /\ j # ListLen
    BY <1>2, <1>5, <2>1 DEF Once
  <2>2. CASE i # ListLen /\ j = ListLen
    BY <1>2, <1>5, <2>2 DEF Known
  <2>3. CASE i = ListLen /\ j # ListLen
    BY <1>2, <1>5, <2>3 DEF Known
  <2> QED
    BY <2>1, <2>2, <2>3
<1>6. f \in Injection(0..ListLen, W)
  BY <1>4, <1>5 DEF Injection, IsInjective
<1>7. Cardinality(0..ListLen) <= Cardinality(W) /\ Cardinality(W) \in Nat
  BY PresentFinite, <1>6, FS_Injection
<1>8. Cardinality(0..ListLen) = ListLen + 1
  <2>1. Cardinality(0..ListLen) = IF 0 > ListLen THEN 0 ELSE ListLen - 0 + 1
    <3>1. 0 \in Int /\ ListLen \in Int
      BY <1>1
    <3> QED
      BY <3>1, FS_Interval
  <2> QED
    BY <1>1, <2>1
<1> QED
  BY <1>1, <1>7, <1>8

\* What one call of add_to_all_code_list does.
LEMMA AddOne ==
  ASSUME CodesTypeOK, Genuine, Once, UNCHANGED <<dna, code>>,
         NEW c \in Compound, Word(c) \in Words(dna \cup code), Add(c)
  PROVE  /\ \/ stage' = stage /\ Listed' = Listed \cup {Word(c)}
            \/ stage' = "overrun" /\ Cardinality(Words(dna \cup code)) > ListLen
         /\ Genuine' /\ Once'
         /\ all_code_list' \in [Index -> [int64 : Words(Compound) \cup {0}, len : Nat]]
         /\ num_all_codes' \in 0..ListLen
<1>0. num_all_codes \in Nat /\ num_all_codes <= ListLen /\ ListLen \in Nat
      /\ all_code_list \in [Index -> [int64 : Words(Compound) \cup {0}, len : Nat]]
  <2>1. num_all_codes \in 0..ListLen
        /\ all_code_list \in [Index -> [int64 : Words(Compound) \cup {0}, len : Nat]]
    BY DEF CodesTypeOK
  <2> QED
    BY AllCodesAssumption, <2>1
<1>1. CASE Known(c)
  <2>1. UNCHANGED <<all_code_list, num_all_codes, stage>>
    BY <1>1 DEF Add
  <2>2. Word(c) \in Listed
    BY <1>1 DEF Known, Listed
  <2>3. Listed' = Listed
    BY <2>1 DEF Listed, Used
  <2>4. Used' = Used
    BY <2>1 DEF Used
  <2>5. Genuine' /\ Once'
    BY <2>1, <2>4 DEF Genuine, Once
  <2>6. Listed' = Listed \cup {Word(c)}
    BY <2>2, <2>3
  <2>7. num_all_codes' \in 0..ListLen
    BY <1>0, <2>1
  <2> QED
    BY <1>0, <2>1, <2>5, <2>6, <2>7
<1>2. CASE ~Known(c) /\ num_all_codes \notin Index
  <2>1. num_all_codes = ListLen
    BY <1>0, <1>2 DEF Index
  <2>2. stage' = "overrun" /\ UNCHANGED <<all_code_list, num_all_codes>>
    BY <1>2 DEF Add, list
  <2>3. Genuine' /\ Once'
    BY <2>2 DEF Genuine, Once, Used
  <2>4. Cardinality(Words(dna \cup code)) > ListLen
    BY <1>2, <2>1, ListFull
  <2> QED
    BY <1>0, <2>2, <2>3, <2>4
<1>3. CASE ~Known(c) /\ num_all_codes \in Index
  <2> DEFINE n == num_all_codes
             e == [int64 |-> Word(c), len |-> c.len]
  <2>1. n < ListLen /\ n \in Index
    BY <1>0, <1>3 DEF Index
  <2>2. /\ all_code_list' = [all_code_list EXCEPT ![n] = e]
        /\ num_all_codes' = n + 1 /\ stage' = stage
    BY <1>3, <2>1 DEF Add
  <2>3. e = c
    BY AllCodesAssumption DEF Word
  <2>4. e \in [int64 : Words(Compound) \cup {0}, len : Nat]
    BY AllCodesAssumption, <2>3 DEF Words, Word
  <2>5. n \notin Used /\ Used' = Used \cup {n}
    BY <1>0, <2>1, <2>2 DEF Used, Index
  <2>6. \A i \in Used : i \in Index /\ i # n /\ all_code_list'[i] = all_code_list[i]
    BY <1>0, <2>2, <2>5 DEF Used
  <2>7. all_code_list'[n] = e /\ e.int64 = Word(c)
    BY <1>0, <2>1, <2>2
  <2>8. Listed' = Listed \cup {Word(c)}
    BY <2>5, <2>6, <2>7 DEF Listed
  <2>9. Genuine'
    BY <2>3, <2>5, <2>6, <2>7 DEF Genuine
  <2>10. Once'
    <3> SUFFICES ASSUME NEW i \in Used', NEW j \in Used',
                        all_code_list'[i].int64 = all_code_list'[j].int64
                 PROVE  i = j
      BY DEF Once
    <3>1. \A k \in Used : all_code_list[k].int64 # Word(c)
      BY <1>3 DEF Known
    <3>2. CASE i \in Used /\ j \in Used
      BY <2>6, <3>2 DEF Once
    <3>3. CASE i = n /\ j \in Used
      BY <2>6, <2>7, <3>1, <3>3
    <3>4. CASE i \in Used /\ j = n
      BY <2>6, <2>7, <3>1, <3>4
    <3> QED
      BY <2>5, <3>2, <3>3, <3>4
  <2> QED
    BY <1>0, <2>1, <2>2, <2>4, <2>8, <2>9, <2>10
<1> QED
  BY <1>1, <1>2, <1>3

-----------------------------------------------------------------------------
(* The invariant *)

LEMMA InitCodesInv == CodesInit => CodesInv
<1> SUFFICES ASSUME CodesInit PROVE CodesInv
  OBVIOUS
<1>1. num_all_codes = 0 /\ ListLen \in Nat
  BY AllCodesAssumption DEF CodesInit
<1>2. Used = {}
  BY <1>1 DEF Used, Index
<1>3. Unset \in [int64 : Words(Compound) \cup {0}, len : Nat]
  BY DEF Unset
<1>4. CodesTypeOK
  BY AllCodesAssumption, <1>1, <1>3 DEF CodesInit, CodesTypeOK
<1> QED
  BY <1>2, <1>4 DEF CodesInit, CodesInv, Genuine, Once, Sources, Covers, Fits

\* An empty list, for the code that rebuilds it or for a new process.
LEMMA EmptyList ==
  ASSUME num_all_codes' = 0
  PROVE  Used' = {} /\ Genuine' /\ Once'
<1>1. Used' = {}
  BY DEF Used, Index
<1> QED
  BY <1>1 DEF Genuine, Once

\* What is added does not make the environment smaller.
LEMMA MoreWords ==
  ASSUME CodesTypeOK', Words(dna \cup code) \subseteq Words(dna' \cup code'),
         Cardinality(Words(dna \cup code)) > ListLen
  PROVE  Cardinality(Words(dna' \cup code')) > ListLen
<1>1. Words(dna' \cup code') \subseteq Words(Compound)
  BY DEF CodesTypeOK, Words
<1>2. IsFiniteSet(Words(dna' \cup code'))
  BY AllCodesAssumption, <1>1, FS_Subset
<1>3. IsFiniteSet(Words(dna \cup code))
  BY <1>2, FS_Subset
<1>4. /\ Cardinality(Words(dna \cup code)) <= Cardinality(Words(dna' \cup code'))
      /\ Cardinality(Words(dna \cup code)) \in Nat
      /\ Cardinality(Words(dna' \cup code')) \in Nat
  BY <1>2, <1>3, FS_Subset, FS_CardinalityType
<1> QED
  BY <1>4, AllCodesAssumption

LEMMA NextCodesInv == CodesInv /\ [CodesNext]_codesVars => CodesInv'
<1> SUFFICES ASSUME CodesInv, [CodesNext]_codesVars PROVE CodesInv'
  OBVIOUS
<1> USE DEF CodesInv
<1>0. CodesTypeOK /\ Genuine /\ Once /\ Sources /\ Covers /\ Fits
  OBVIOUS
<1>1. CASE Clear
  <2>1. /\ num_all_codes' = 0 /\ stage = "scanned" /\ stage' = "cells"
        /\ UNCHANGED <<dna, code, brought, names, todo>>
    BY <1>1 DEF Clear
  <2>2. CodesTypeOK'
    <3>1. \A i \in Index : [all_code_list[i] EXCEPT !.len = 0]
                            \in [int64 : Words(Compound) \cup {0}, len : Nat]
      BY DEF CodesTypeOK
    <3>2. all_code_list' \in [Index -> [int64 : Words(Compound) \cup {0}, len : Nat]]
      BY <1>1, <3>1 DEF Clear
    <3>3. num_all_codes' \in 0..ListLen
      BY AllCodesAssumption, <2>1
    <3>4. /\ dna' \subseteq Compound /\ code' \subseteq Compound
          /\ names' \subseteq Compound /\ todo' \subseteq Compound
          /\ brought' \subseteq Words(Compound)
      BY <2>1 DEF CodesTypeOK
    <3> QED
      BY <2>1, <3>2, <3>3, <3>4 DEF CodesTypeOK
  <2>3. Genuine' /\ Once'
    BY <2>1, EmptyList
  <2>4. Covers'
    BY <2>1 DEF Covers
  <2> QED
    BY <2>1, <2>2, <2>3, <2>4 DEF Sources, Fits
<1>2. CASE AddNext
  <2>1. PICK c \in todo : Add(c) /\ todo' = todo \ {c}
    BY <1>2 DEF AddNext
  <2>2. UNCHANGED <<dna, code, brought, names>> /\ stage \in {"cells", "code"}
    BY <1>2 DEF AddNext
  <2>3. c \in Compound /\ c \in dna \cup code
    BY <2>1, <2>2 DEF CodesTypeOK, Sources
  <2>4. Word(c) \in Words(dna \cup code)
    BY <2>3 DEF Words
  <2>5. /\ \/ stage' = stage /\ Listed' = Listed \cup {Word(c)}
           \/ stage' = "overrun" /\ Cardinality(Words(dna \cup code)) > ListLen
        /\ Genuine' /\ Once'
        /\ all_code_list' \in [Index -> [int64 : Words(Compound) \cup {0}, len : Nat]]
        /\ num_all_codes' \in 0..ListLen
    BY <2>1, <2>2, <2>3, <2>4, AddOne
  <2>6. CodesTypeOK'
    BY <2>1, <2>2, <2>5 DEF CodesTypeOK
  <2>7. CASE stage' = stage /\ Listed' = Listed \cup {Word(c)}
    <3>1. Words(todo) \subseteq {Word(c)} \cup Words(todo')
      BY <2>1 DEF Words
    <3>2. Sources' /\ Fits'
      BY <2>1, <2>2, <2>7 DEF Sources, Fits
    <3>3. Covers'
      BY <2>2, <2>7, <3>1 DEF Covers
    <3> QED
      BY <2>5, <2>6, <3>2, <3>3
  <2>8. CASE stage' = "overrun" /\ Cardinality(Words(dna \cup code)) > ListLen
    <3>1. Sources' /\ Covers' /\ Fits'
      BY <2>2, <2>8 DEF Sources, Covers, Fits
    <3> QED
      BY <2>5, <2>6, <3>1
  <2> QED
    BY <2>5, <2>7, <2>8
<1>3. CASE ScanCode
  <2>1. /\ stage = "cells" /\ stage' = "code" /\ todo = {} /\ names' = code /\ todo' = code
        /\ UNCHANGED <<dna, code, all_code_list, num_all_codes, brought>>
    BY <1>3 DEF ScanCode
  <2>2. Listed' = Listed /\ Words(todo) = {}
    BY <2>1 DEF Listed, Used, Words
  <2>3. Words(dna) \subseteq Listed \cup brought
    BY <2>1, <2>2 DEF Covers
  <2>4. Words(dna \cup names') \subseteq Listed \cup Words(todo') \cup brought
    BY <2>1, <2>3 DEF Words
  <2>5. Covers'
    BY <2>1, <2>2, <2>4 DEF Covers
  <2> QED
    BY <2>1, <2>5 DEF CodesTypeOK, Genuine, Once, Sources, Fits, Used
<1>4. CASE Updated
  <2>1. /\ stage = "code" /\ stage' = "ready" /\ todo = {}
        /\ UNCHANGED <<dna, code, all_code_list, num_all_codes, brought, names, todo>>
    BY <1>4 DEF Updated
  <2>2. Listed' = Listed /\ Words(todo) = {}
    BY <2>1 DEF Listed, Used, Words
  <2>3. Covers'
    BY <2>1, <2>2 DEF Covers
  <2> QED
    BY <2>1, <2>3 DEF CodesTypeOK, Genuine, Once, Sources, Fits, Used
<1>5. CASE GetMutatedCodon
  <2>1. stage = "ready" /\ UNCHANGED <<code, all_code_list, num_all_codes, brought, names, todo>>
    BY <1>5 DEF GetMutatedCodon
  <2>2. Listed' = Listed
    BY <2>1 DEF Listed, Used
  <2>3. CASE stage' = "divided by zero" /\ dna' = dna
    <3>1. Covers'
      BY <2>1, <2>2, <2>3 DEF Covers
    <3> QED
      BY <2>1, <2>3, <3>1 DEF CodesTypeOK, Genuine, Once, Sources, Fits, Used
  <2>4. CASE stage' = stage /\ \E i \in Used : dna' = dna \cup {all_code_list[i]}
    <3>1. PICK i \in Used : dna' = dna \cup {all_code_list[i]}
      BY <2>4
    <3>2. all_code_list[i] \in Compound /\ Word(all_code_list[i]) \in Listed
      BY DEF Genuine, Listed, Word
    <3>3. CodesTypeOK'
      BY <2>1, <2>4, <3>1, <3>2 DEF CodesTypeOK
    <3>4. Words(dna' \cup names) \subseteq Words(dna \cup names) \cup {Word(all_code_list[i])}
      BY <3>1 DEF Words
    <3>5. Covers'
      BY <2>1, <2>2, <2>4, <3>2, <3>4 DEF Covers
    <3>6. Words(dna \cup code) \subseteq Words(dna' \cup code')
      BY <2>1, <3>1 DEF Words
    <3>7. Genuine' /\ Once'
      BY <2>1, <3>6 DEF Genuine, Once, Used
    <3> QED
      BY <2>1, <2>4, <3>3, <3>5, <3>7 DEF Sources, Fits
  <2> QED
    BY <1>5, <2>3, <2>4 DEF GetMutatedCodon
<1>6. CASE Release
  <2>1. PICK c \in dna : dna' = dna \ {c} /\ code' = code \cup {c}
    BY <1>6 DEF Release
  <2>2. stage = "ready" /\ UNCHANGED <<all_code_list, num_all_codes, brought, names, todo, stage>>
    BY <1>6 DEF Release
  <2>3. Words(dna \cup code) \subseteq Words(dna' \cup code')
        /\ Words(dna' \cup names) \subseteq Words(dna \cup names)
    BY <2>1 DEF Words
  <2>4. Genuine' /\ Once' /\ Listed' = Listed
    BY <2>2, <2>3 DEF Genuine, Once, Used, Listed
  <2>5. CodesTypeOK'
    BY <2>1, <2>2 DEF CodesTypeOK
  <2> QED
    BY <2>2, <2>3, <2>4, <2>5 DEF Sources, Covers, Fits
<1>7. CASE Bond
  <2>1. PICK c \in code : Word(c) \in Words(dna) /\ code' = code \ {c}
    BY <1>7 DEF Bond
  <2>2. /\ stage = "ready"
        /\ UNCHANGED <<dna, all_code_list, num_all_codes, brought, names, todo, stage>>
    BY <1>7 DEF Bond
  <2>3. Words(dna \cup code) \subseteq Words(dna' \cup code')
    BY <2>1, <2>2 DEF Words
  <2>4. Genuine' /\ Once' /\ Listed' = Listed
    BY <2>2, <2>3 DEF Genuine, Once, Used, Listed
  <2>5. CodesTypeOK'
    BY <2>1, <2>2 DEF CodesTypeOK
  <2> QED
    BY <2>2, <2>4, <2>5 DEF Sources, Covers, Fits
<1>8. CASE Supply
  <2>1. PICK c \in Compound : code' = code \cup {c}
    BY <1>8 DEF Supply
  <2>2. UNCHANGED <<dna, all_code_list, num_all_codes, brought, names, todo, stage>>
    BY <1>8 DEF Supply
  <2>3. Words(dna \cup code) \subseteq Words(dna' \cup code')
    BY <2>1, <2>2 DEF Words
  <2>4. Genuine' /\ Once' /\ Listed' = Listed
    BY <2>2, <2>3 DEF Genuine, Once, Used, Listed
  <2>5. CodesTypeOK'
    BY <2>1, <2>2 DEF CodesTypeOK
  <2>6. Fits'
    BY <2>2, <2>3, <2>5, MoreWords DEF Fits
  <2> QED
    BY <2>1, <2>2, <2>4, <2>5, <2>6 DEF Sources, Covers
<1>9. CASE Place
  <2>1. PICK c \in Compound : dna' = dna \cup {c} /\ brought' = brought \cup {Word(c)}
    BY <1>9 DEF Place
  <2>2. UNCHANGED <<code, all_code_list, num_all_codes, names, todo, stage>>
    BY <1>9 DEF Place
  <2>3. Words(dna \cup code) \subseteq Words(dna' \cup code')
    BY <2>1, <2>2 DEF Words
  <2>4. Genuine' /\ Once' /\ Listed' = Listed
    BY <2>2, <2>3 DEF Genuine, Once, Used, Listed
  <2>5. CodesTypeOK'
    BY <2>1, <2>2 DEF CodesTypeOK, Words
  <2>6. Fits'
    BY <2>2, <2>3, <2>5, MoreWords DEF Fits
  <2>7. /\ Words(dna') = Words(dna) \cup {Word(c)}
        /\ Words(dna' \cup names) = Words(dna \cup names) \cup {Word(c)}
    BY <2>1 DEF Words
  <2>8. Covers'
    BY <2>1, <2>2, <2>4, <2>7 DEF Covers
  <2> QED
    BY <2>1, <2>2, <2>4, <2>5, <2>6, <2>8 DEF Sources
<1>10. CASE Restart
  <2>1. /\ num_all_codes' = 0 /\ stage' = "start"
        /\ all_code_list' = [i \in Index |-> Unset]
        /\ brought' = {} /\ names' = {} /\ todo' = {} /\ UNCHANGED <<dna, code>>
    BY <1>10 DEF Restart
  <2>2. Unset \in [int64 : Words(Compound) \cup {0}, len : Nat]
    BY DEF Unset
  <2>3. CodesTypeOK'
    <3>1. all_code_list' \in [Index -> [int64 : Words(Compound) \cup {0}, len : Nat]]
      BY <2>1, <2>2
    <3>2. num_all_codes' \in 0..ListLen
      BY AllCodesAssumption, <2>1
    <3>3. /\ dna' \subseteq Compound /\ code' \subseteq Compound
          /\ names' \subseteq Compound /\ todo' \subseteq Compound
          /\ brought' \subseteq Words(Compound)
      BY <2>1 DEF CodesTypeOK
    <3> QED
      BY <2>1, <3>1, <3>2, <3>3 DEF CodesTypeOK
  <2>4. Genuine' /\ Once'
    BY <2>1, EmptyList
  <2> QED
    BY <2>1, <2>3, <2>4 DEF Sources, Covers, Fits
<1>11. CASE ScanCells
  <2>1. /\ stage \in {"start", "ready"} /\ stage' = "scanned" /\ todo' = dna /\ brought' = {}
        /\ UNCHANGED <<dna, code, all_code_list, num_all_codes, names>>
    BY <1>11 DEF ScanCells
  <2>2. CodesTypeOK'
    BY <2>1 DEF CodesTypeOK
  <2> QED
    BY <2>1, <2>2 DEF Genuine, Once, Sources, Covers, Fits, Used
<1>12. CASE UNCHANGED codesVars
  BY <1>12 DEF codesVars, CodesTypeOK, Genuine, Once, Sources, Covers, Fits, Used, Listed
<1> QED
  BY <1>1, <1>2, <1>3, <1>4, <1>5, <1>6, <1>7, <1>8, <1>9, <1>10, <1>11, <1>12 DEF CodesNext

LEMMA CodesInvTheorem == CodesSpec => []CodesInv
  BY InitCodesInv, NextCodesInv, PTL DEF CodesSpec

-----------------------------------------------------------------------------

(***************************************************************************)
(* The array is overrun, in whatever order and however often it is         *)
(* rebuilt, only in an environment with more different instructions than   *)
(* the array has entries: sysenv.c:66 does not look at its length.         *)
(***************************************************************************)
THEOREM FitsTheorem == CodesSpec => []Fits
<1>1. CodesInv => Fits
  BY DEF CodesInv
<1> QED
  BY <1>1, CodesInvTheorem, PTL

\* Mutation never writes anything but an instruction that exists, with its own
\* length, whatever was in the array before.
THEOREM GenuineTheorem == CodesSpec => []Genuine
<1>1. CodesInv => Genuine
  BY DEF CodesInv
<1> QED
  BY <1>1, CodesInvTheorem, PTL

\* The list is complete for the living and what was in code/, but for what came in a
\* cell file after the directory was read; a draw that divides by zero is for such a
\* cell.
THEOREM CompleteTheorem == CodesSpec => []Complete
<1>1. CodesInv => Complete
  BY DEF CodesInv, Covers, Complete
<1> QED
  BY <1>1, CodesInvTheorem, PTL

\* No instruction has two entries.
THEOREM OnceTheorem == CodesSpec => []Once
<1>1. CodesInv => Once
  BY DEF CodesInv
<1> QED
  BY <1>1, CodesInvTheorem, PTL
=============================================================================
