---------------------------- MODULE MCSubscriber ----------------------------
EXTENDS Subscriber

CONSTANTS g1, g2

MCGoroutine == {Main, g1, g2}
=============================================================================
