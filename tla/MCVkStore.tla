----------------------------- MODULE MCVkStore -----------------------------
(***************************************************************************)
(* An instance of VkStore.  Key `one' fills one chunk exactly; the others  *)
(* end in the middle of their second chunk.  The first chunk of `right'    *)
(* followed by the second of `left' is a key too (`mixed'): keys of one    *)
(* circuit family do agree on whole chunks, and a torn write can then go   *)
(* unnoticed by every check of load_vk.                                    *)
(***************************************************************************)
EXTENDS VkStore, TLC

CONSTANTS one, left, mixed, right

MCByte == {"a", "b"}
MCSer == (one :> <<"a", "a">>) @@ (left :> <<"a", "a", "a">>)
           @@ (mixed :> <<"b", "b", "a">>) @@ (right :> <<"b", "b", "b">>)
MCVerdict == [p \in Keys \X Claim |->
                CASE p[1] = one   -> "true"
                  [] p[1] = left  -> "false"
                  [] p[1] = mixed -> "InvalidInput"
                  [] p[1] = right -> "true"]
=============================================================================
