----------------------------- MODULE VkRegister -----------------------------
(***************************************************************************)
(* What the verification-key store of ZkContract promises its callers: one *)
(* register that holds a key or nothing.  A call is submitted, and later   *)
(* either takes effect in a single step and returns an answer computed     *)
(* from the register, or fails and leaves the register alone.  Chunks,     *)
(* headers, time-to-live counters and rolled back transactions are not     *)
(* visible at this level.  VkStore is shown to implement this module.      *)
(***************************************************************************)
CONSTANTS
  Client,     (* Accounts that submit transactions.                          *)
  Request,    (* Calls of the three entry points, with their arguments.      *)
  NoRequest,  (* The absence of a call.                                      *)
  NoKey,      (* The content of an empty register.                           *)
  Answer(_, _),  (* Answer(k, r): what call r returns when it finds k.        *)
  Effect(_, _)   (* Effect(k, r): what call r leaves in a register with k.    *)

VARIABLES
  key,        (* The content of the register.                                *)
  request,    (* request[c]: the call of c that is not answered yet.         *)
  result      (* result[c]: what the last call of c returned.                *)

vars == <<key, request, result>>

Init ==
  /\ key = NoKey
  /\ request = [c \in Client |-> NoRequest]
  /\ result = [c \in Client |-> "none"]

Submit(c, r) ==
  /\ request[c] = NoRequest
  /\ request' = [request EXCEPT ![c] = r]
  /\ result' = [result EXCEPT ![c] = "none"]
  /\ key' = key

Respond(c, answer) ==
  /\ request[c] # NoRequest
  /\ request' = [request EXCEPT ![c] = NoRequest]
  /\ result' = [result EXCEPT ![c] = answer]

Apply(c) ==
  /\ Respond(c, Answer(key, request[c]))
  /\ key' = Effect(key, request[c])

Fail(c) ==
  /\ Respond(c, "trap")
  /\ key' = key

Next ==
  \E c \in Client :
    \/ \E r \in Request : Submit(c, r)
    \/ Apply(c)
    \/ Fail(c)

Spec == Init /\ [][Next]_vars
=============================================================================
