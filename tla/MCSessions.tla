----------------------------- MODULE MCSessions -----------------------------
EXTENDS Sessions

CONSTANTS a, b

MCPatterns == {{a}}

MCKeys == {[stream |-> a, day |-> 1], [stream |-> a, day |-> 2]}

\* Data in order of time, and a gap filled late.
InOrder == [i \in 1 .. MaxTime |-> [start |-> i, end |-> i + 1]]
GapFilled == [i \in 1 .. MaxTime |-> IF i % 3 = 0 THEN [start |-> 1, end |-> 1]
                                                 ELSE [start |-> i, end |-> i + 1]]
MCDataTimes == {InOrder, GapFilled}

\* Authentication that grants writing and limits to a stream, and one that
\* forbids a stream and grants nothing else.
Trusted == [write |-> TRUE, allowed |-> {{a}}, forbidden |-> {}]
Limited == [write |-> FALSE, allowed |-> {}, forbidden |-> {{a}}]

Anyone(protocol, limit, data, wanted_) ==
  [protocol |-> protocol, limit |-> limit, data |-> data, required |-> FALSE, write |-> FALSE,
   allowed |-> Streams, answers |-> {}, wanted |-> wanted_]

\* Data times do not matter to a client that only writes.
MCClients ==
  {[Anyone("reader", IF d = InOrder THEN 2 ELSE 3, d, {})
      EXCEPT !.required = TRUE, !.answers = {Trusted, Limited}] : d \in MCDataTimes}
  \cup
  {[Anyone("writer", 3, InOrder, {}) EXCEPT !.write = TRUE, !.answers = {Trusted}],
   Anyone("seedlink3", 2, GapFilled, {a, b}), Anyone("seedlink3", 3, InOrder, {}),
   Anyone("seedlink4", 2, InOrder, {a, b}),
   [Anyone("seedlink4", 2, GapFilled, {a}) EXCEPT !.required = TRUE, !.allowed = {a},
                                                  !.answers = {Limited}]}

=============================================================================
