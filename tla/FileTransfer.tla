---------------------------- MODULE FileTransfer ----------------------------
(***************************************************************************)
(* What people who download a tunnelled file see, and all the tunnel may   *)
(* do to them: each body is a growing prefix of the one file, it is whole  *)
(* when the last chunk arrives, and the server cuts it short before the    *)
(* first chunk or never.  How requests meet the client's uploads is        *)
(* Tunnel's business.                                                      *)
(***************************************************************************)
EXTENDS Naturals, Sequences

CONSTANTS Downloads, FileLen

VARIABLES
    phase,   \* download -> "idle", "open" or how it ended
    body     \* download -> the chunks its body delivered

transferVars == <<phase, body>>

Init == /\ phase = [d \in Downloads |-> "idle"]
        /\ body = [d \in Downloads |-> <<>>]

\* The request is accepted, or answered 404.
Answer(d) ==
    /\ phase[d] = "idle"
    /\ phase' = [phase EXCEPT ![d] = "open"] \/ phase' = [phase EXCEPT ![d] = "refused"]
    /\ UNCHANGED body

Deliver(d) ==
    /\ phase[d] = "open"
    /\ body' = [body EXCEPT ![d] = Append(@, Len(@) + 1)]
    /\ phase' = [phase EXCEPT ![d] = IF Len(body[d]) + 1 = FileLen THEN "whole" ELSE @]

\* Another request for the file took this one's place.
CutShort(d) ==
    /\ phase[d] = "open" /\ body[d] = <<>>
    /\ phase' = [phase EXCEPT ![d] = "short"]
    /\ UNCHANGED body

\* The readers in S are disconnected, by themselves or by a crash.
Disconnect(S) ==
    /\ \A d \in S : phase[d] = "open"
    /\ phase' = [d \in Downloads |-> IF d \in S THEN "gone" ELSE phase[d]]
    /\ UNCHANGED body

Next == \/ \E d \in Downloads : Answer(d) \/ Deliver(d) \/ CutShort(d)
        \/ \E S \in SUBSET Downloads : Disconnect(S)

Spec == Init /\ [][Next]_transferVars
=============================================================================
