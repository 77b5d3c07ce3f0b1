------------------------------- MODULE ApiCalls -------------------------------
(***************************************************************************)
(* A thread calls the functions of the API one after the other.  Every     *)
(* step that can fail does so in some behaviour, every branch and every    *)
(* number of turns of a loop is taken, and what the thread then holds and  *)
(* has been told is compared with what the function reports.               *)
(***************************************************************************)
EXTENDS FileQueries, SynchCalls, MessageCalls, NlsCalls, StartCalls, SystemCalls, ProcessCalls,
  TLC

Library ==
  FileLibrary @@ FileQueryLibrary @@ LibraryLibrary @@ SynchLibrary @@ MessageLibrary @@ NlsLibrary
  @@ StartLibrary @@ SystemLibrary @@ ProcessLibrary

SilentFailures == FileSilentFailures \union LibrarySilentFailures \union SynchSilentFailures
                  \union SystemSilentFailures

VARIABLES
  fn,        \* the function being executed, or Idle
  todo,      \* the steps still to take
  held,      \* what it has obtained and not given back
  given,     \* what it leaves to its caller
  failed,    \* has a step failed that the function needed?
  error,     \* the last error: "stale", "cause" (of the failure) or "noise"
  saved,     \* the last error that was put aside
  outcome    \* what the function has returned: "", "ok", "error", "status"

callVars == <<fn, todo, held, given, failed, error, saved, outcome>>

Idle == "none"
step == Head(todo)

CallInit ==
  /\ fn = Idle /\ todo = <<>> /\ held = {} /\ given = {}
  /\ failed = FALSE /\ error = "stale" /\ saved = "stale" /\ outcome = ""

Begin(f) ==
  /\ fn = Idle
  /\ fn' = f /\ todo' = Library[f]
  /\ UNCHANGED <<held, given, failed, error, saved, outcome>>

At(op) == fn # Idle /\ outcome = "" /\ todo # <<>> /\ step.op = op

(* A step that does its work, and goes on.                                 *)
Proceed ==
  /\ At("ask") \/ At("use") \/ At("take") \/ At("hold")
  /\ todo' = Tail(todo)
  /\ held' = IF step.op \in {"take", "hold"} THEN held \union {step.res} ELSE held
  /\ UNCHANGED <<fn, given, failed, error, saved, outcome>>

(* A step that fails: the function takes its way out.                      *)
StepFails ==
  /\ At("ask") \/ At("take")
  /\ todo' = step.alts[1] /\ failed' = TRUE
  /\ error' = IF step.sets THEN "cause" ELSE error
  /\ UNCHANGED <<fn, held, given, saved, outcome>>

GiveBack ==
  /\ At("free") \/ At("drop") \/ At("give") \/ At("keep")
  /\ todo' = Tail(todo) /\ held' = held \ {step.res}
  /\ given' = IF step.op = "give" THEN given \union {step.res} ELSE given
  /\ UNCHANGED <<fn, failed, error, saved, outcome>>

Branch ==
  /\ \/ At("branch") /\ \E i \in 1..2 : todo' = step.alts[i] \o Tail(todo)
     \/ At("loop") /\ todo' \in {Tail(todo), step.alts[1] \o todo}
  /\ UNCHANGED <<fn, held, given, failed, error, saved, outcome>>

LastError ==
  /\ \/ At("error") /\ error' = "cause" /\ UNCHANGED saved
     \/ At("noise") /\ error' \in {error, "noise"} /\ UNCHANGED saved
     \/ At("save") /\ saved' = error /\ UNCHANGED error
     \/ At("restore") /\ error' = saved /\ UNCHANGED saved
  /\ todo' = Tail(todo)
  /\ UNCHANGED <<fn, held, given, failed, outcome>>

Finish ==
  /\ fn # Idle /\ outcome = ""
  /\ \/ At("return") /\ outcome' = step.res
     \/ todo = <<>> /\ outcome' = "ok"
  /\ todo' = <<>>
  /\ UNCHANGED <<fn, held, given, failed, error, saved>>

(* The caller gets the outcome; whatever the function kept stays with it.  *)
Back ==
  /\ outcome # ""
  /\ fn' = Idle /\ held' = {} /\ given' = {} /\ failed' = FALSE
  /\ error' = "stale" /\ saved' = "stale" /\ outcome' = ""
  /\ UNCHANGED todo

CallNext ==
  \/ \E f \in DOMAIN Library : Begin(f)
  \/ Proceed \/ StepFails \/ GiveBack \/ Branch \/ LastError \/ Finish \/ Back

CallSpec == CallInit /\ [][CallNext]_callVars
-----------------------------------------------------------------------------
(* A function takes nothing over what it already holds, and neither uses   *)
(* nor gives back what it does not hold: no buffer is freed twice, no      *)
(* handle is used after it was closed, whichever steps failed before.      *)
OnlyWhatIsHeld ==
  todo # <<>> => /\ step.uses \subseteq held
                 /\ step.op \in {"take", "hold"} => step.res \notin held

(* The string of the TEB that Ldk8BitStringToStaticUnicodeString fills is  *)
(* the thread's, not the call's.                                           *)
Lasting == {"static"}

(* On every way out a function has given back what it obtained, except     *)
(* what it leaves to a caller to whom it reports success.                  *)
NothingLeaks ==
  outcome # "" => /\ held \subseteq Lasting
                  /\ outcome # "ok" => given = {}

(* Through every combination of failing steps a function of the API uses,  *)
(* frees and hands over exactly what it has obtained.                      *)
ResourcesExact == OnlyWhatIsHeld /\ NothingLeaks

(* A call whose work failed says so, and the last error it leaves is the   *)
(* one of that failure, not one that the cleanup has put in its place.     *)
FailureIsReported ==
  outcome # "" /\ failed /\ fn \notin SilentFailures =>
    /\ outcome # "ok"
    /\ outcome = "error" => error = "cause"
=============================================================================
