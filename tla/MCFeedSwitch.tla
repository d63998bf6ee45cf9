---------------------------- MODULE MCFeedSwitch ----------------------------
EXTENDS FeedSwitch, TLC
=============================================================================
