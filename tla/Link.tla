-------------------------------- MODULE Link --------------------------------
(***************************************************************************)
(* The websocket connections between ls-client and ls-server: one TCP      *)
(* connection per dial, with the bytes in flight on it.  This is the       *)
(* environment of the repository (gorilla/websocket and the kernel),       *)
(* modelled from how cmd/ls-client and internal/server use it:             *)
(*   - a successful write hands a frame to the kernel and says nothing     *)
(*     about its arrival;                                                  *)
(*   - frames of one connection arrive in order, and a connection that     *)
(*     breaks loses any suffix of what is still in flight;                 *)
(*   - a connection the client merely closes still delivers what was       *)
(*     written on it: its handler keeps draining beside a newer one's.     *)
(***************************************************************************)
EXTENDS Integers, Sequences

CONSTANTS MaxConns,     \* bound: connections that can be opened in all
          NumFrames,    \* bound: frames that can be produced in all
          BodyLen,      \* length of the body of each frame, in bytes
          MaxFaults     \* bound: breaks, timeouts, aborts, crashes and kills

ASSUME LinkAssumption ==
    /\ MaxConns \in Nat
    /\ NumFrames \in Nat
    /\ MaxFaults \in Nat
    /\ BodyLen \in [1..NumFrames -> Nat]

VARIABLES link,    \* link[c]: is connection c open at the client?
          sent,    \* sent[c]: frames the client wrote on c, in order
          reach,   \* reach[c]: how many of them can (still) arrive
          rcvd,    \* rcvd[c]: how many the server's reader has taken
          fin,     \* fin[c]: a websocket close frame follows the frames
          hello,   \* hello[c]: the server's hello on c, as BytesStored
          reply,   \* reply[c]: what the server answered at the end of c
          faults   \* faults so far, bounded by MaxFaults

linkVars == <<link, sent, reach, rcvd, fin, hello, reply, faults>>

Conns == 1..MaxConns
Frames == 1..NumFrames
NoHello == -1

LinkTypeOK ==
    /\ link \in [Conns -> {"idle", "up", "shut", "down"}]
    /\ sent \in [Conns -> Seq(Frames)]
    /\ reach \in [Conns -> Nat]
    /\ rcvd \in [Conns -> Nat]
    /\ fin \in [Conns -> BOOLEAN]
    /\ hello \in [Conns -> Nat \cup {NoHello}]
    /\ reply \in [Conns -> {"none", "closed", "error", "ack"}]
    /\ faults \in 0..MaxFaults

LinkInit ==
    /\ link = [c \in Conns |-> "idle"]
    /\ sent = [c \in Conns |-> <<>>]
    /\ reach = [c \in Conns |-> 0]
    /\ rcvd = [c \in Conns |-> 0]
    /\ fin = [c \in Conns |-> FALSE]
    /\ hello = [c \in Conns |-> NoHello]
    /\ reply = [c \in Conns |-> "none"]
    /\ faults = 0

\* Bytes of the uvarint that encoding/binary puts before a record of n bytes.
UvarintLen(n) == IF n < 128 THEN 1 ELSE IF n < 16384 THEN 2 ELSE 3

Fault == faults < MaxFaults /\ faults' = faults + 1

Open(c) == link[c] \in {"up", "shut"}

\* A close of the client's socket: what was written on it can still arrive.
Shut(c) == [link EXCEPT ![c] = IF @ = "up" THEN "shut" ELSE @]

Transmit(c, f) ==
    /\ sent' = [sent EXCEPT ![c] = Append(@, f)]
    /\ reach' = [reach EXCEPT ![c] = @ + 1]

\* The connection breaks.  The frames after the first n are lost, and so is
\* the close frame unless everything before it arrives.
Break(c, n) ==
    /\ Open(c)
    /\ n \in rcvd[c]..reach[c]
    /\ link' = [link EXCEPT ![c] = "down"]
    /\ reach' = [reach EXCEPT ![c] = n]
    /\ \E arrives \in BOOLEAN :
          /\ arrives => fin[c] /\ n = Len(sent[c])
          /\ fin' = [fin EXCEPT ![c] = arrives]
    /\ UNCHANGED <<sent, rcvd, hello, reply>>
=============================================================================
