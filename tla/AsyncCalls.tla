------------------------------ MODULE AsyncCalls ------------------------------
(***************************************************************************)
(* What QDBusConnection::sendWithAsyncReply promises the program: each     *)
(* call ends at most once, with the reply of the service or with an error  *)
(* in its place, and ends without either when the object that was to be    *)
(* told of it is destroyed first.  QDBusCalls is shown to implement it.    *)
(***************************************************************************)
CONSTANT Call

VARIABLES
    stage,     \* what the program knows of each call
    answered   \* the calls the service has replied to

Stage == {"idle", "waiting", "reply", "error", "cancelled"}

TypeOK ==
    /\ stage \in [Call -> Stage]
    /\ answered \subseteq Call

Init ==
    /\ stage = [c \in Call |-> "idle"]
    /\ answered = {}

Send(c) ==
    /\ stage[c] = "idle"
    /\ stage' = [stage EXCEPT ![c] = "waiting"]
    /\ UNCHANGED answered

(* The service replies, also to a call that has ended meanwhile. *)
Answer(c) ==
    /\ stage[c] # "idle"
    /\ c \notin answered
    /\ answered' = answered \cup {c}
    /\ UNCHANGED stage

(* The receiver is told how the call ended; a reply is the service's. *)
Tell(c) ==
    /\ stage[c] = "waiting"
    /\ \E result \in {"reply", "error"} :
          /\ result = "reply" => c \in answered
          /\ stage' = [stage EXCEPT ![c] = result]
    /\ UNCHANGED answered

(* A receiver is destroyed and its calls with it. *)
Cancel ==
    /\ \E C \in SUBSET {c \in Call : stage[c] = "waiting"} :
          stage' = [c \in Call |-> IF c \in C THEN "cancelled" ELSE stage[c]]
    /\ UNCHANGED answered

Next ==
    \/ \E c \in Call : Send(c) \/ Answer(c) \/ Tell(c)
    \/ Cancel

Spec == Init /\ [][Next]_<<stage, answered>>

=============================================================================
