--------------------------- MODULE MCHttp2Origin ---------------------------
EXTENDS Http2Origin
=============================================================================
