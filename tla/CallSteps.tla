------------------------------ MODULE CallSteps ------------------------------
(***************************************************************************)
(* The vocabulary in which the functions of the Win32 and native API are   *)
(* written.  A function is the sequence of the steps at which it obtains,  *)
(* uses, hands over or gives back something: a heap block, a handle, a     *)
(* reference, a lock.  A step that may fail carries the steps that the     *)
(* function takes when it does, up to its return.  What a step computes is *)
(* left out, and what the kernel answers is open.                          *)
(*                                                                         *)
(* A failing service returns a status, which the function turns into the   *)
(* thread's last error itself (SetError); a failing function of the Win32  *)
(* API has already done so when it returns.                                *)
(***************************************************************************)
EXTENDS Naturals, Sequences

Step(op, res, uses, sets, alts) ==
  [op |-> op, res |-> res, uses |-> uses, sets |-> sets, alts |-> alts]

(* A check, or a service that works on what the function holds.            *)
Ask(uses, exit)      == Step("ask", "", uses, FALSE, <<exit>>)
Check(exit)          == Ask({}, exit)
(* The same by a function that sets the last error when it fails.          *)
Call(uses, exit)     == Step("ask", "", uses, TRUE, <<exit>>)
(* An answer that changes nothing for the caller, whatever it is.          *)
Use(uses)            == Step("use", "", uses, FALSE, <<>>)

(* Obtain a resource, by a service or by a function of the API.            *)
Take(r, uses, exit)  == Step("take", r, uses, FALSE, <<exit>>)
Alloc(r, exit)       == Take(r, {}, exit)
CallFor(r, uses, exit) == Step("take", r, uses, TRUE, <<exit>>)
(* Take a lock, or a reference that cannot be refused.                     *)
Hold(r)              == Step("hold", r, {}, FALSE, <<>>)
(* Give it back; give it back if it was obtained; leave it to the caller;  *)
(* put it into a structure of the driver that outlives the call.           *)
Free(r)              == Step("free", r, {r}, FALSE, <<>>)
Drop(r)              == Step("drop", r, {}, FALSE, <<>>)
Give(r)              == Step("give", r, {r}, FALSE, <<>>)
Keep(r)              == Step("keep", r, {r}, FALSE, <<>>)

(* Branches that depend on arguments or on what a service answered.        *)
Either(a, b)         == Step("branch", "", {}, FALSE, <<a, b>>)
Opt(a)               == Either(a, <<>>)
Loop(a)              == Step("loop", "", {}, FALSE, <<a>>)
(* Obtain a resource if that succeeds, and do without it otherwise.        *)
Try(r)               == Either(<<Hold(r)>>, <<>>)

(* The last error: set to what went wrong; perhaps overwritten by a call   *)
(* whose failure nobody looks at; put aside and brought back.              *)
SetError             == Step("error", "", {}, FALSE, <<>>)
Noise(uses)          == Step("noise", "", uses, FALSE, <<>>)
SaveError            == Step("save", "", {}, FALSE, <<>>)
RestoreError         == Step("restore", "", {}, FALSE, <<>>)

(* How the function ends: "ok", "error" (a failure value, with the reason  *)
(* in the last error) or "status" (a status or result code).  A sequence   *)
(* that ends without one returns "ok".                                     *)
Return(how)          == Step("return", how, {}, FALSE, <<>>)

(* The usual ends of a failure: after cleaning up, set the last error and  *)
(* return; return, the error being set; return the status itself.          *)
Fail(cleanup)        == cleanup \o <<SetError, Return("error")>>
Pass(cleanup)        == cleanup \o <<Return("error")>>
Status(cleanup)      == cleanup \o <<Return("status")>>

(* Give back, in this order.                                               *)
Frees(rs)            == [i \in DOMAIN rs |-> Free(rs[i])]
Drops(rs)            == [i \in DOMAIN rs |-> Drop(rs[i])]
=============================================================================
