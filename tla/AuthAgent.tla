------------------------------ MODULE AuthAgent ------------------------------
(***************************************************************************)
(* What every PolicyKit authentication agent of this repository promises   *)
(* the programs that call ObtainAuthorization on the session bus, whatever *)
(* dialog, helper process and main loop it is built from: one request is   *)
(* authenticated at a time, a request that comes meanwhile is refused, and *)
(* every request is given at most one answer.  The GNOME agent             *)
(* (GnomeManager) and the KDE agent (KdeService) are shown to implement it.*)
(***************************************************************************)
CONSTANT Request

VARIABLE outcome   \* what the caller of each request can know of it

Answered == {"gained", "denied", "refused", "lost"}
Outcome  == {"unsent", "waiting", "authenticating"} \cup Answered

TypeOK == outcome \in [Request -> Outcome]

Init == outcome = [r \in Request |-> "unsent"]

Authenticating == {r \in Request : outcome[r] = "authenticating"}

(* A caller sends its request. *)
Submit(r) ==
    /\ outcome[r] = "unsent"
    /\ outcome' = [outcome EXCEPT ![r] = "waiting"]

(* The agent turns a request away without asking the user. *)
Refuse(r) ==
    /\ outcome[r] = "waiting"
    /\ \E o \in {"refused", "denied"} : outcome' = [outcome EXCEPT ![r] = o]

(* The user is asked about a request, when about no other one. *)
Begin(r) ==
    /\ outcome[r] = "waiting"
    /\ Authenticating = {}
    /\ outcome' = [outcome EXCEPT ![r] = "authenticating"]

(* The authentication ends and the caller is told how. *)
Conclude(r) ==
    /\ outcome[r] = "authenticating"
    /\ \E o \in {"gained", "denied"} : outcome' = [outcome EXCEPT ![r] = o]

(* The agent's process ends: the bus tells the callers still waiting that  *)
(* there will be no answer.                                                *)
Die ==
    outcome' = [r \in Request |->
                   IF outcome[r] \in {"waiting", "authenticating"}
                   THEN "lost" ELSE outcome[r]]

Next ==
    \/ \E r \in Request : Submit(r) \/ Refuse(r) \/ Begin(r) \/ Conclude(r)
    \/ Die

Spec == Init /\ [][Next]_outcome

=============================================================================
