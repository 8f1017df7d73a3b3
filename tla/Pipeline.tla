------------------------------ MODULE Pipeline ------------------------------
(***************************************************************************)
(* What a jsmock connection promises its client, whatever runs behind it:  *)
(* requests are taken one at a time and answered in the order they came,   *)
(* each response is sent whole and once before the next request is taken,  *)
(* nothing is taken after a request that asked to close, and nothing is    *)
(* sent on a closed connection.                                            *)
(***************************************************************************)
EXTENDS Naturals, Sequences

CONSTANTS Conn,      \* connections
          RespLen    \* units in a response

VARIABLES
    open,    \* may the server still use the connection?
    taken,   \* number of requests taken from it
    last,    \* the request taken last asked to close it
    sent,    \* units sent of the response to that request
    out      \* everything sent, each unit named by its request and place

vars == <<open, taken, last, sent, out>>

Init ==
    /\ open = [c \in Conn |-> TRUE]
    /\ taken = [c \in Conn |-> 0]
    /\ last = [c \in Conn |-> FALSE]
    /\ sent = [c \in Conn |-> RespLen]
    /\ out = [c \in Conn |-> <<>>]

\* Send n more units of the current response; then, if that completes it, the
\* next request may be taken.  A response that is the last one closes the
\* connection with the step that completes it; a failure may close it earlier.
Serve(c, n) ==
    LET now == sent[c] + n
    IN /\ open[c]
       /\ now <= RespLen
       /\ out' = [out EXCEPT ![c] = @ \o [j \in 1 .. n |-> <<taken[c], sent[c] + j>>]]
       /\ \/ /\ now = RespLen
             /\ ~last[c]
             /\ taken' = [taken EXCEPT ![c] = @ + 1]
             /\ sent' = [sent EXCEPT ![c] = 0]
             /\ \E close \in BOOLEAN : last' = [last EXCEPT ![c] = close]
             /\ UNCHANGED open
          \/ /\ ~(last[c] /\ now = RespLen)
             /\ sent' = [sent EXCEPT ![c] = now]
             /\ UNCHANGED <<open, taken, last>>
          \/ /\ sent' = [sent EXCEPT ![c] = now]
             /\ open' = [open EXCEPT ![c] = FALSE]
             /\ UNCHANGED <<taken, last>>

Next == \E c \in Conn, n \in 0 .. RespLen : Serve(c, n)

Spec == Init /\ [][Next]_vars
=============================================================================
