--------------------------- MODULE RequestService ---------------------------
(***************************************************************************)
(* What the queues of MsgQueue promise for one kind of request: requests   *)
(* are answered one at a time in the order they were asked, every answer   *)
(* goes to the end of the result queue of the user who asked, and nothing  *)
(* is lost, answered twice or answered to somebody else.  asked and        *)
(* answered record the past; results is what the users can observe.        *)
(***************************************************************************)
EXTENDS Naturals, Sequences, FiniteSets

CONSTANTS
    Users,         \* who asks
    Requests,      \* records with a field id, the user who asks
    AnswerTo(_)    \* the answer a request must get

VARIABLES
    asked,     \* every request asked so far, in order
    answered,  \* how many of them have been answered
    results,   \* results[u]: the answers to user u, in order
    up         \* the service runs

vars == <<asked, answered, results, up>>

Init ==
    /\ asked = <<>>
    /\ answered = 0
    /\ results = [u \in Users |-> <<>>]
    /\ up = TRUE

Ask(r) ==
    /\ up
    /\ asked' = Append(asked, r)
    /\ UNCHANGED <<answered, results, up>>

Answer ==
    /\ up
    /\ answered < Len(asked)
    /\ answered' = answered + 1
    /\ LET r == asked[answered + 1]
       IN  results' = [results EXCEPT ![r.id] = Append(@, AnswerTo(r))]
    /\ UNCHANGED <<asked, up>>

Stop ==
    /\ up
    /\ up' = FALSE
    /\ UNCHANGED <<asked, answered, results>>

Next == (\E r \in Requests : Ask(r)) \/ Answer \/ Stop

Spec == Init /\ [][Next]_vars
-----------------------------------------------------------------------------
\* The places, among the first n requests of the log, of those of user u.
AskedBy(u, n) == {k \in 1 .. n : asked[k].id = u}

\* What the users get: each has exactly one result for each request of his that
\* was answered, and the j-th result is the answer to the j-th of his requests.
Conserved ==
    /\ answered <= Len(asked)
    /\ \A u \in Users :
         /\ Len(results[u]) = Cardinality(AskedBy(u, answered))
         /\ \A k \in AskedBy(u, answered) :
              results[u][Cardinality(AskedBy(u, k))] = AnswerTo(asked[k])
=============================================================================
