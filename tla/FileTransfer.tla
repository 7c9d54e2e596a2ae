---------------------------- MODULE FileTransfer ----------------------------
(***************************************************************************)
(* What uploads and downloads promise: each of them is one step, that puts *)
(* a whole file under its name or nothing at all.  An acknowledgement that *)
(* comes too late may mix up names from then on, but never parts of files. *)
(* Session implements it.                                                  *)
(***************************************************************************)
CONSTANTS Files, Content(_), Nothing

VARIABLES
    stored,  \* stored[f]: what the server has under the name of f
    saved,   \* saved[f]: what the client has saved under that name
    inOrder  \* no acknowledgement has come too late

vars == <<stored, saved, inOrder>>

Init ==
    /\ \A f \in Files : stored[f] \in {Content(f), Nothing}
    /\ saved = [f \in Files |-> Nothing]
    /\ inOrder = TRUE

(* An upload of file g ends as the file of name f. *)
Upload(f, g) ==
    /\ inOrder => f = g
    /\ stored' = [stored EXCEPT ![f] = Content(g)]
    /\ UNCHANGED <<saved, inOrder>>

(* A download under the name f gives the file g. *)
Download(f, g) ==
    /\ inOrder => stored[f] = Content(g)
    /\ saved' = [saved EXCEPT ![f] = Content(g)]
    /\ UNCHANGED <<stored, inOrder>>

FallBehind ==
    /\ inOrder' = FALSE
    /\ UNCHANGED <<stored, saved>>

Next == FallBehind \/ \E f, g \in Files : Upload(f, g) \/ Download(f, g)

Spec == Init /\ [][Next]_vars
=============================================================================
