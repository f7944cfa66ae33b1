----------------------- MODULE MCDispatchCoordinator -----------------------
EXTENDS DispatchCoordinator

\* Two events, of which one is delivered twice: with a window of one, all three
\* deliveries are dispatched when the other event is claimed in between.
OneTwice == {<<1, 2, 1>>}
=============================================================================
