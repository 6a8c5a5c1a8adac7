---------------------------- MODULE MCMetronome ----------------------------
(* Metronome with two worker threads.                                      *)
EXTENDS Metronome

CONSTANTS h1, h2

TwoHandlers == {h1, h2}
ZeroOrMore == {0, 3}
=============================================================================
