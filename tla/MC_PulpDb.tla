------------------------------ MODULE MC_PulpDb -----------------------------
EXTENDS PulpDb

Of(index) == [size |-> 1, index |-> index]

\* One field or two, one value or a list, a value twice, an empty list, a value
\* that raises behind one that does not, no index at all, and no data.
MCMessages ==
  {Of([f |-> <<1>>]), Of([f |-> <<2, 1, 2>>]), Of([f |-> <<3>>, g |-> <<1>>]), Of([g |-> <<>>]),
   Of([f |-> <<1>>, g |-> <<1, 0>>]), [size |-> 0, index |-> [g |-> <<2>>]]}

=============================================================================
