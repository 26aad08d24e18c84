----------------------- MODULE MCOrderEventsConsumer -----------------------
(* Small instances of OrderEventsConsumer: the topics a relay may leave.    *)
EXTENDS OrderEventsConsumer, TLC

Placed(o) == [name |-> "OrderPlaced", order |-> o]
Cancel(o) == [name |-> "OrderCancelled", order |-> o]
Broken(o) == [name |-> "Broken", order |-> o]
Other(o) == [name |-> "Other", order |-> o]

\* One order: placed, sent again as after a rolled back batch, and cancelled;
\* and one placed between messages that the handlers cannot or need not take.
CancelledOrderTopics ==
    UNION {{<<Placed(o), Placed(o), Cancel(o)>>,
            <<Broken(o), Placed(o), Other(o)>>} : o \in Orders}

PlacedTopics == {<<Placed(o)>> : o \in Orders}

RepeatedTopics == {<<Placed(o), Placed(o)>> : o \in Orders}

MixedTopics ==
    {<<Placed(o), Broken(o), Cancel(o)>> : o \in Orders}
        \cup {<<Other(o), Placed(o), Broken(o)>> : o \in Orders}

Symmetry == Permutations(Payments)
=============================================================================
