------------------------------ MODULE Mailbox ------------------------------
(***************************************************************************)
(* What a session's outbound channel promises the rest of the server: a    *)
(* bounded first-in first-out box.  An envelope enters at the back while   *)
(* there is room and the box is not shut, leaves from the front, and       *)
(* nothing enters once the box is shut; what it holds may still be taken.  *)
(* Connection.tla implements it with a Go channel, a flag and an RWMutex.  *)
(***************************************************************************)
EXTENDS Naturals, Sequences

CONSTANTS Envelope, SendCap

VARIABLES box, shut

vars == <<box, shut>>

Init == box = <<>> /\ shut = FALSE

Put(env) ==
  /\ ~shut
  /\ Len(box) < SendCap
  /\ box' = Append(box, env)
  /\ UNCHANGED shut

Take ==
  /\ box # <<>>
  /\ box' = Tail(box)
  /\ UNCHANGED shut

Shut ==
  /\ ~shut
  /\ shut' = TRUE
  /\ UNCHANGED box

Next == Take \/ Shut \/ \E env \in Envelope : Put(env)

Spec == Init /\ [][Next]_vars
=============================================================================
