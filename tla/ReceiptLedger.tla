--------------------------- MODULE ReceiptLedger ----------------------------
(***************************************************************************)
(* What the answer DONE~OK of the upload server promises: the upload is in *)
(* a ledger that only grows, and is there again after a crash, unless the  *)
(* crash cut a save short.  Nothing is said of threads, locks, blocks or   *)
(* files.  UploadServer implements it.                                     *)
(***************************************************************************)
EXTENDS Sequences

CONSTANTS Unreadable

VARIABLES
    log,       \* the uploads recorded, batch by batch
    durable,   \* the log that a start would find, or Unreadable
    answered,  \* the uploads answered with DONE~OK
    running    \* the server runs

vars == <<log, durable, answered, running>>

(* The ledger begins with an empty batch. *)
Blank == <<{}>>

In(l) == UNION {l[i] : i \in DOMAIN l}

Init ==
    /\ log = Blank
    /\ durable = Blank
    /\ answered = {}
    /\ running = TRUE

(* A batch of uploads that are not in the log yet is put at its end. *)
Record ==
    LET batch == log'[Len(log')]
    IN  /\ running
        /\ log' = Append(log, batch)
        /\ batch # {}
        /\ batch \cap In(log) = {}
        /\ UNCHANGED <<durable, answered, running>>

BeginSave ==
    /\ running
    /\ durable' = Unreadable
    /\ UNCHANGED <<log, answered, running>>

EndSave ==
    /\ running
    /\ durable = Unreadable
    /\ durable' = log
    /\ UNCHANGED <<log, answered, running>>

Answer ==
    /\ running
    /\ \E t \in In(log) :
         /\ durable # Unreadable => t \in In(durable)
         /\ answered' = answered \cup {t}
    /\ UNCHANGED <<log, durable, running>>

Crash ==
    /\ running
    /\ running' = FALSE
    /\ log' = Blank
    /\ UNCHANGED <<durable, answered>>

Recover ==
    /\ ~ running
    /\ durable # Unreadable
    /\ running' = TRUE
    /\ log' = durable
    /\ UNCHANGED <<durable, answered>>

Next == Record \/ BeginSave \/ EndSave \/ Answer \/ Crash \/ Recover

Spec == Init /\ [][Next]_vars
=============================================================================
