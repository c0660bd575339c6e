--------------------------- MODULE MCSecureChannel ---------------------------
\* Two handshakes (an envelope of one may arrive during the other), two payloads
\* (a swapped or repeated message shows), a counter exhausted after two messages.
EXTENDS SecureChannel

CONSTANTS s1, s2, m1, m2

MCSessions == {s1, s2}
MCMessages == {m1, m2}
=============================================================================
