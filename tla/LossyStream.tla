----------------------------- MODULE LossyStream -----------------------------
(***************************************************************************)
(* What the WebSocket gateway promises to a dashboard: of the messages     *)
(* published on the topics that its tenant_id matches it is shown some,    *)
(* those of a topic in the order of publication and each at most once.     *)
(***************************************************************************)
EXTENDS Integers, Sequences, SequencesExt

CONSTANTS Client, Tenant, Subject

Topic == [tenant : Tenant, subject : Subject]

VARIABLES published,      \* how many messages each topic has had
          received,       \* what each client has been shown
          scope           \* the tenants that what each client asks for matches

Init ==
    /\ published = [t \in Topic |-> 0]
    /\ received = [c \in Client |-> << >>]
    /\ scope \in [Client -> SUBSET Tenant]

Publish(t) ==
    /\ published' = [published EXCEPT ![t] = @ + 1]
    /\ UNCHANGED <<received, scope>>

Show(c, t, n) ==
    /\ t.tenant \in scope[c]
    /\ n \in 1 .. published[t]
    /\ \A m \in ToSet(received[c]) : m.topic = t => m.n < n
    /\ received' = [received EXCEPT ![c] = Append(@, [topic |-> t, n |-> n])]
    /\ UNCHANGED <<published, scope>>

Next == \/ \E t \in Topic : Publish(t)
        \/ \E c \in Client, t \in Topic : \E n \in 1 .. published[t] : Show(c, t, n)

Spec == Init /\ [][Next]_<<published, received, scope>>
=============================================================================
