--------------------------- MODULE MCChannelFraming ---------------------------
EXTENDS ChannelFraming

(* Empty and small data, cut at the length field, around the end of the     *)
(* header, inside the data, and not at all.                                 *)
SmallSplits == {<<42>>, <<4, 38>>, <<43>>, <<42, 8>>, <<41, 2>>, <<4, 38, 8>>}
==============================================================================
