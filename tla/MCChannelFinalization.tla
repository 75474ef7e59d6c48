----------------------- MODULE MCChannelFinalization -----------------------
EXTENDS ChannelFinalization

CONSTANTS c1, c2

AnEntry(c, a) == [channel |-> c, authorized |-> a, voucher |-> TRUE]

\* The whole task, again and again, with a voucher for what each channel owes,
\* and a request naming a channel twice, which is rejected.
WholeTask == {<<AnEntry(c1, 1), AnEntry(c2, 2)>>, <<AnEntry(c1, 1), AnEntry(c1, 1)>>}

SomeStates == {"opening", "sealed", "distributed"}
=============================================================================
