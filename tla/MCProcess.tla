----------------------------- MODULE MCProcess -----------------------------
(***************************************************************************)
(* What the threads of the driver share as a process, for TLC: the handles *)
(* and named mutexes, the current directory, the environment and the cache *)
(* of code pages.  They have their own locks and no state in common (the   *)
(* PEB lock is held for a whole step of the environment): a behaviour is   *)
(* about one of them.                                                      *)
(***************************************************************************)
EXTENDS WaitObjects, CodePageCache, CurrentDirectory, Environment, TLC

VARIABLE topic     \* the one this behaviour is about

processVars == <<topic, vars, cpVars, dirVars, envVars>>

(* A behaviour about one of them finds the others as the driver starts.    *)
ProcessInit ==
  /\ topic \in {"handles", "code pages", "directory", "environment"}
  /\ Init /\ CPInit /\ CDInit /\ EnvInit
  /\ wanted = [c \in Converter |-> CHOOSE page \in Page : TRUE]

ProcessNext ==
  \/ topic = "handles" /\ Next /\ UNCHANGED <<topic, cpVars, dirVars, envVars>>
  \/ topic = "code pages" /\ CPNext /\ UNCHANGED <<topic, vars, dirVars, envVars>>
  \/ topic = "directory" /\ CDNext /\ UNCHANGED <<topic, vars, cpVars, envVars>>
  \/ topic = "environment" /\ EnvNext /\ UNCHANGED <<topic, vars, cpVars, dirVars>>

ProcessSpec == ProcessInit /\ [][ProcessNext]_processVars

(* Threads, objects and handles are alike, in each of the modules.         *)
Symmetry == Permutations(Thread) \cup Permutations(Obj) \cup Permutations(Handle)
=============================================================================
