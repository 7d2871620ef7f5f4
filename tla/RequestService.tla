--------------------------- MODULE RequestService ---------------------------
(***************************************************************************)
(* What class Link of s22-phoned promises the threads that use it: a       *)
(* request is asked once; the verdict recorded for it is its own; a reply  *)
(* recorded for it answers its command and, when it asked for strict       *)
(* matching, itself; it is woken by its verdict, a reply or the loss of    *)
(* the link, and by its verdict at once unless it wants a reply too.       *)
(* Numbers, frames, threads and the dict are not part of the promise.      *)
(***************************************************************************)
CONSTANTS Requests, Kinds, None

VARIABLES
    up,        \* the link is open
    asked,     \* requests made so far
    kind,      \* kind[r]: command, strict, want
    verdict,   \* verdict[r]: the request whose verdict r recorded, or None
    reply,     \* reply[r]: the request whose reply r recorded last, or None
    woken      \* woken[r]: whether r's caller may go on

Init ==
    /\ up = FALSE /\ asked = {} /\ kind \in [Requests -> Kinds]
    /\ verdict = [r \in Requests |-> None] /\ reply = [r \in Requests |-> None]
    /\ woken = [r \in Requests |-> FALSE]

Ask(r, k) ==
    /\ r \notin asked /\ asked' = asked \cup {r}
    /\ kind' = [kind EXCEPT ![r] = k]
    /\ UNCHANGED <<up, verdict, reply, woken>>

Judge(r) ==
    /\ up /\ r \in asked
    /\ verdict' = [verdict EXCEPT ![r] = r]
    /\ \/ woken' = [woken EXCEPT ![r] = TRUE]
       \/ kind[r].want /\ UNCHANGED woken
    /\ UNCHANGED <<up, asked, kind, reply>>

Reply(r, q) ==
    /\ up /\ {r, q} \subseteq asked
    /\ kind[q].cmd = kind[r].cmd /\ (kind[r].strict => q = r)
    /\ reply' = [reply EXCEPT ![r] = q]
    /\ woken' = [woken EXCEPT ![r] = TRUE]
    /\ UNCHANGED <<up, asked, kind, verdict>>

Lose(S) ==
    /\ up /\ up' = FALSE
    /\ woken' = [r \in Requests |-> woken[r] \/ r \in S]
    /\ UNCHANGED <<asked, kind, verdict, reply>>

Reopen == ~up /\ up' = TRUE /\ UNCHANGED <<asked, kind, verdict, reply, woken>>

Next ==
    \/ \E r \in Requests, k \in Kinds : Ask(r, k)
    \/ \E r \in Requests : Judge(r)
    \/ \E r, q \in Requests : Reply(r, q)
    \/ \E S \in SUBSET asked : Lose(S)
    \/ Reopen

Spec == Init /\ [][Next]_<<up, asked, kind, verdict, reply, woken>>
=============================================================================
