----------------------------- MODULE MCStreaming -----------------------------
EXTENDS Streaming
=============================================================================
