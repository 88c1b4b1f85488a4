------------------------------ MODULE MC_Rtrie ------------------------------
EXTENDS Rtrie

\* Two keys, the bytes of one with the sign bit set: bytes 0 and 128 and more.
MCSignKeys == {<<0>>, <<5>>}

=============================================================================
