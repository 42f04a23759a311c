---------------------------- MODULE MCHttp2Serve ----------------------------
EXTENDS Http2Serve
=============================================================================
