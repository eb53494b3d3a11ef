----------------------------- MODULE MCGroupChat -----------------------------
EXTENDS GroupChat

CONSTANTS h, a, b

One(m) == [turns |-> <<m>>, parallel |-> FALSE]

\* m is named twice, by its id and by its name.
Both(m, n) == [turns |-> <<m, n, m, User>>, parallel |-> TRUE]

MCMessages ==
  {[Silence EXCEPT !.route = <<One(a), One(b), One(h)>>, !.note = a]}

Relays == [Silence EXCEPT !.route = <<One(a), One(b)>>, !.note = b]
Together == [Silence EXCEPT !.route = <<Both(b, a)>>]
HandsOver ==
  [Silence EXCEPT !.route = <<One(h), One(User)>>, !.note = User, !.end = TRUE]
Asks == [Silence EXCEPT !.asked = TRUE, !.note = a]

MCSpeeches ==
  [m \in Members |->
     CASE m = h -> {Silence, Relays, Together, HandsOver, Asks}
       [] m = a -> {Relays, Together}
       [] m = b -> {HandsOver, Asks}]
=============================================================================
