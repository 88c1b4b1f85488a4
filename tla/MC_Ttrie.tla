------------------------------ MODULE MC_Ttrie ------------------------------
EXTENDS Ttrie

\* Five first letters, one more than arrays of three-bit sizes hold, on either side
\* of the sign; keys that begin one another and that share letters; three nodes with
\* the children 0 and 2, one more than a choice table has rows; a suffix whose
\* length has the sign bit.
MCKeys ==
  {<<>>, <<0>>, <<4>>, <<7>>, <<0, 0>>, <<0, 2>>, <<2, 0>>, <<2, 2>>,
   <<5, 5, 0>>, <<5, 5, 5, 5>>}

=============================================================================
