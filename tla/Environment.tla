----------------------------- MODULE Environment -----------------------------
(***************************************************************************)
(* The environment of the process, src/src/ntdll/environ.c and the         *)
(* functions over it in src/src/kernel32/processenv.c: one block of the    *)
(* heap with the variables as NAME=value strings one after another and a   *)
(* NUL at the end.  Setting a variable builds a new block from the part    *)
(* before the place of the edit, the new string and the part after it.     *)
(*                                                                         *)
(* The PEB lock is held for the whole of a call of ntdll, which is one     *)
(* step.  GetEnvironmentVariableA makes two such calls.  A name stands for *)
(* its place in the order of names and a value for its length.  The cache  *)
(* of RtlQueryEnvironmentVariable_U is never filled: the driver passes     *)
(* NULL for the process's own block.                                       *)
(***************************************************************************)
EXTENDS Integers, Sequences

CONSTANTS
  EnvUser,     \* threads that read a variable (any thread may set one)
  EnvName,     \* names, in the order of RtlCompareUnicodeString
  MaxLength    \* bound: the longest value

ASSUME EnvironmentAssumption ==
  EnvName \subseteq Nat /\ EnvName # {} /\ MaxLength \in Nat

Length == 0..MaxLength
Absent == -1          \* the value of a variable that is not there
NameCells == 1        \* characters of a name

VARIABLES
  env,         \* the strings of the block
  envCells,    \* characters the block was allocated for
  envAt,       \* where each thread is in GetEnvironmentVariableA
  asked,       \* its name
  room,        \* MaximumLength of its second query
  answer,      \* what it has answered: a length, a size, an error, or just 0
  during       \* history: the values the variable has had since it began

envVars == <<env, envCells, envAt, asked, room, answer, during>>

Variable == [name : EnvName, value : Length]
Cells(v) == NameCells + 1 + v.value + 1

(* The characters of the last NUL and the first n strings.                 *)
BlockSums(b) ==
  LET sum[n \in 0..Len(b)] == IF n = 0 THEN 1 ELSE sum[n - 1] + Cells(b[n])
  IN  sum
BlockCells(b) == BlockSums(b)[Len(b)]

Places(b, n) == {k \in DOMAIN b : b[k].name = n}
Value(b, n) == IF Places(b, n) = {} THEN Absent ELSE b[CHOOSE k \in Places(b, n) : TRUE].value

EnvInit ==
  LET first == CHOOSE n \in EnvName : TRUE IN
  /\ env = <<[name |-> first, value |-> 0]>> /\ envCells = BlockCells(env)
  /\ envAt = [t \in EnvUser |-> "idle"]
  /\ asked = [t \in EnvUser |-> first]
  /\ room = [t \in EnvUser |-> 0]
  /\ answer = [t \in EnvUser |-> [kind |-> "value", length |-> 0]]
  /\ during = [t \in EnvUser |-> {0}]

-----------------------------------------------------------------------------
(* RtlSetEnvironmentVariable.                                              *)

(* The first variable with a name after n, else the end of the block.      *)
InsertBefore(n) ==
  LET after == {k \in DOMAIN env : n < env[k].name} IN
  IF after = {} THEN Len(env) + 1 ELSE CHOOSE k \in after : \A j \in after : k <= j

(* Where the old block is cut: EditStart up to EditEnd.                    *)
EditStart(n) == IF Places(env, n) = {} THEN InsertBefore(n) ELSE CHOOSE k \in Places(env, n) : TRUE

(* Fault: the string that is replaced is copied once more.                 *)
EditEndKeepsOld(n) == EditStart(n)

EditEnd(n) == IF Places(env, n) = {} THEN EditStart(n) ELSE EditStart(n) + 1

(* Every thread that is reading the variable sees another value.           *)
Witnessed(n, v) ==
  during' = [t \in EnvUser |->
               IF envAt[t] = "size" /\ asked[t] = n THEN during[t] \cup {v} ELSE during[t]]

RtlSetEnvironmentVariable(n, v) ==
  LET new == IF v = Absent THEN <<>> ELSE <<[name |-> n, value |-> v]>>
      removed == IF Places(env, n) = {} THEN 0 ELSE Cells(env[EditStart(n)])
      added == IF v = Absent THEN 0 ELSE Cells(new[1])
  IN
  /\ v # Absent \/ Places(env, n) # {}
  /\ env' = SubSeq(env, 1, EditStart(n) - 1) \o new \o SubSeq(env, EditEnd(n), Len(env))
  /\ envCells' = envCells - removed + added
  /\ Witnessed(n, v)
  /\ UNCHANGED <<envAt, asked, room, answer>>

-----------------------------------------------------------------------------
(* GetEnvironmentVariableA with a buffer of size characters.               *)

Fits(value, cells) == value # Absent /\ value <= cells
Answers(t, kind, length) ==
  /\ answer' = [answer EXCEPT ![t] = [kind |-> kind, length |-> length]]
  /\ envAt' = [envAt EXCEPT ![t] = "idle"]

(* The first query goes into a block as large as the caller's buffer.      *)
FirstQuery(t, n, size) ==
  LET value == Value(env, n) IN
  /\ envAt[t] = "idle"
  /\ asked' = [asked EXCEPT ![t] = n]
  /\ during' = [during EXCEPT ![t] = {value}]
  /\ \/ /\ Fits(value, size - 1) /\ Answers(t, "value", value)
        /\ UNCHANGED room
     \/ /\ value = Absent \/ (size = 0 /\ value = 0)
        /\ Answers(t, "failed", 0) /\ UNCHANGED room
     \/ /\ value # Absent /\ value > size - 1 /\ ~(size = 0 /\ value = 0)
        /\ room' = [room EXCEPT ![t] = value + 1]
        /\ envAt' = [envAt EXCEPT ![t] = "size"]
        /\ UNCHANGED answer
  /\ UNCHANGED <<env, envCells>>

(* The second one, for the size that the ANSI string needs: the variable   *)
(* may have grown or gone, and then the answer is 0 and no error is set.   *)
SecondQuery(t) ==
  LET value == Value(env, asked[t]) IN
  /\ envAt[t] = "size"
  /\ IF Fits(value, room[t]) THEN Answers(t, "size", value + 1) ELSE Answers(t, "zero", 0)
  /\ UNCHANGED <<env, envCells, asked, room, during>>

ReAllocateFails(t) ==
  /\ envAt[t] = "size"
  /\ Answers(t, "failed", 0)
  /\ UNCHANGED <<env, envCells, asked, room, during>>

EnvNext ==
  \/ \E n \in EnvName, v \in Length \cup {Absent} : RtlSetEnvironmentVariable(n, v)
  \/ \E t \in EnvUser :
       \/ \E n \in EnvName, size \in 0..MaxLength + 1 : FirstQuery(t, n, size)
       \/ SecondQuery(t) \/ ReAllocateFails(t)

EnvSpec == EnvInit /\ [][EnvNext]_envVars
-----------------------------------------------------------------------------
(* Properties.                                                             *)

EnvTypeOK ==
  /\ env \in Seq(Variable) /\ envCells \in Nat
  /\ envAt \in [EnvUser -> {"idle", "size"}]
  /\ asked \in [EnvUser -> EnvName]
  /\ room \in [EnvUser -> Nat]
  /\ answer \in [EnvUser -> [kind : {"value", "size", "failed", "zero"}, length : Nat]]
  /\ during \in [EnvUser -> SUBSET (Length \cup {Absent})]

(* Whatever is set and removed, the block has each name once, in order,    *)
(* and is exactly as long as its strings and the last NUL: the copies of   *)
(* RtlSetEnvironmentVariable neither overrun the block they allocate nor   *)
(* leave a part of it unwritten.                                           *)
EnvironmentBlockExact ==
  /\ \A j, k \in DOMAIN env : j < k => env[j].name < env[k].name
  /\ envCells = BlockCells(env)

(* What GetEnvironmentVariableA answers is a value that the variable had   *)
(* while the call was made, or the size of one; and it answers 0 without   *)
(* an error only when the variable has changed between its two queries.    *)
EnvironmentReadHolds ==
  \A t \in EnvUser : envAt[t] = "idle" =>
    CASE answer[t].kind = "value" -> answer[t].length \in during[t]
      [] answer[t].kind = "size" -> answer[t].length - 1 \in during[t]
      [] answer[t].kind = "zero" -> \E v, w \in during[t] : v # w
      [] OTHER -> TRUE

(* The block is a well-formed list of the variables after every edit, and  *)
(* a reader that asks twice is not misled by an edit in between.           *)
EnvironmentExact == EnvironmentBlockExact /\ EnvironmentReadHolds
=============================================================================
