------------------------------ MODULE Exchange ------------------------------
(***************************************************************************)
(* What an HTTP connection to jsmock promises its client, above the bytes: *)
(* the n-th response is the reply to the n-th request, and the server ends *)
(* the connection only after the reply to a request that asked for it, on  *)
(* a request that is no HTTP request, or when the client hung up.          *)
(***************************************************************************)
EXTENDS Naturals, Sequences

CONSTANTS
    Request,
    Reply(_),     \* the response to a request
    Closes(_),    \* the request asks to close the connection
    Unfit(_)      \* the request need not be understood

VARIABLES
    asked,        \* the requests the client sent
    replies,      \* the responses it received in full
    hung,         \* the client hung up
    open          \* the server has not closed the connection

vars == <<asked, replies, hung, open>>

Init ==
    /\ asked = <<>>
    /\ replies = <<>>
    /\ hung = FALSE
    /\ open = TRUE

Ask(r) ==
    /\ asked' = Append(asked, r)
    /\ UNCHANGED <<replies, hung, open>>

HangUp ==
    /\ hung' = TRUE
    /\ UNCHANGED <<asked, replies, open>>

\* The n-th request has been sent and need not be understood.
UnfitAt(n) == n \in DOMAIN asked /\ Unfit(asked[n])

\* The reply to the oldest request that has none, some reply if that is unfit; the
\* server may find at once that the next one is unfit.
Answer ==
    LET n == Len(replies) + 1
    IN /\ open
       /\ n \in DOMAIN asked
       /\ Len(replies') = n
       /\ replies = SubSeq(replies', 1, n - 1)
       /\ \/ replies'[n] = Reply(asked[n])
          \/ UnfitAt(n)
       /\ open' \in BOOLEAN
       /\ \/ open' = ~Closes(asked[n])
          \/ UnfitAt(n)
          \/ UnfitAt(n + 1) /\ ~open'
       /\ UNCHANGED <<asked, hung>>

End ==
    /\ open
    /\ \/ hung
       \/ UnfitAt(Len(replies) + 1)
    /\ open' = FALSE
    /\ UNCHANGED <<asked, replies, hung>>

Next == HangUp \/ Answer \/ End \/ \E r \in Request : Ask(r)

Spec == Init /\ [][Next]_vars
=============================================================================
