----------------------------- MODULE ByteStream -----------------------------
(***************************************************************************)
(* What one direction of a net.Conn promises its users (io.Reader and      *)
(* io.Writer): the reader is handed the bytes that were written, each      *)
(* once and in order, until the stream ends.                               *)
(*                                                                         *)
(* A byte is its offset in the stream, so a chunk is where it starts and   *)
(* how long it is.                                                         *)
(***************************************************************************)
EXTENDS Naturals

VARIABLES
    sent,   \* bytes written so far
    got,    \* bytes handed to the reader so far
    out,    \* the chunk the last Read returned
    ended   \* Read has returned an error

vars == <<sent, got, out, ended>>

Init == sent = 0 /\ got = 0 /\ out = [from |-> 0, n |-> 0] /\ ended = FALSE

Send ==
    /\ sent' \in Nat /\ sent' > sent
    /\ UNCHANGED <<got, out, ended>>

(* The next bytes, and no others.                                          *)
Deliver ==
    /\ ~ended
    /\ got' \in Nat /\ got' > got /\ got' <= sent
    /\ out' = [from |-> got, n |-> got' - got]
    /\ UNCHANGED <<sent, ended>>

End == ended' = TRUE /\ UNCHANGED <<sent, got, out>>

Next == Send \/ Deliver \/ End

Spec == Init /\ [][Next]_vars
=============================================================================
