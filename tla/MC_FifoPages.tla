----------------------------- MODULE MC_FifoPages -----------------------------
EXTENDS FifoPages
=============================================================================
