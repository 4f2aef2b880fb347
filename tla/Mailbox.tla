-------------------------------- MODULE Mailbox -------------------------------
(***************************************************************************)
(* What a Connection promises to the two programs it joins: each takes the *)
(* other's messages one by one, whole and in the order of the sends.       *)
(***************************************************************************)
EXTENDS Naturals, Sequences

CONSTANTS Ends, Messages, Other(_)

VARIABLES sent, received

Init == sent = [e \in Ends |-> <<>>] /\ received = [e \in Ends |-> <<>>]

Send(e, m) == /\ sent' = [sent EXCEPT ![e] = Append(@, m)]
              /\ UNCHANGED received

Receive(e) ==
    /\ Len(received[e]) < Len(sent[Other(e)])
    /\ received' = [received EXCEPT ![e] = Append(@, sent[Other(e)][Len(@) + 1])]
    /\ UNCHANGED sent

Next == \E e \in Ends : Receive(e) \/ \E m \in Messages : Send(e, m)
Spec == Init /\ [][Next]_<<sent, received>>
===============================================================================
