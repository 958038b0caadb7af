---------------------------- MODULE MCOverlayScreen ----------------------------
(* A small instance of OverlayScreen for TLC.                              *)
EXTENDS OverlayScreen

CONSTANT t1

\* A reset of the region, a region that reaches too far and one upside down;
\* colours longer than any region; the cursor hidden; text.
MCChildSequences ==
    { <<"ESC", "[", "r">>,
      <<"ESC", "[", "2", ";", "9", "r">>,
      <<"x", "ESC", "[", "9", ";", "2", "r">>,
      <<"ESC", "[", "2", ";", "2", ";", "2", ";", "2", "m">>,
      <<"ESC", "[", "?", "2", "l">> }

MCByte == UNION {ToSet(s) : s \in MCChildSequences}

ASSUME UninterruptedAssumption == Uninterrupted

=============================================================================
