------------------------------ MODULE Delivery ------------------------------
(***************************************************************************)
(* What log-streamer promises about a job's frames, whatever the network,  *)
(* the server and the steps do: a frame reaches the stored log at most     *)
(* once and never out of thin air.  A frame is produced, handed to the     *)
(* network at most once, and then stored or lost.                          *)
(***************************************************************************)
EXTENDS Integers, Sequences

CONSTANT Frame

VARIABLES todo,      \* frames not handed to the network yet
          transit,   \* frames handed over, neither stored nor lost
          produced,  \* frames produced
          stream     \* frames stored, in order

deliveryVars == <<produced, stream, todo, transit>>

DInit ==
    /\ todo = {}
    /\ transit = {}
    /\ produced = {}
    /\ stream = <<>>

Produces(f) ==
    /\ f \notin produced
    /\ produced' = produced \cup {f}
    /\ todo' = todo \cup {f}
    /\ UNCHANGED <<transit, stream>>

\* A frame is handed over; others may be given up in the same step.
Sends(f) ==
    /\ f \in todo
    /\ todo' \subseteq todo \ {f}
    /\ transit' = transit \cup {f}
    /\ UNCHANGED <<produced, stream>>

Stores(f) ==
    /\ f \in transit
    /\ stream' = Append(stream, f)
    /\ transit' = transit \ {f}
    /\ UNCHANGED <<todo, produced>>

\* A break, a refusal, a crash or the end of a process loses frames.
Loses ==
    /\ UNCHANGED <<produced, stream>>
    /\ todo' \subseteq todo
    /\ transit' \subseteq transit

DNext ==
    \/ Loses
    \/ \E f \in Frame : Produces(f) \/ Sends(f) \/ Stores(f)

DSpec == DInit /\ [][DNext]_deliveryVars

\* The log holds no frame twice.
AtMostOnce ==
    \A i, j \in DOMAIN stream : i # j => stream[i] # stream[j]
=============================================================================
