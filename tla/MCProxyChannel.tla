--------------------------- MODULE MCProxyChannel ---------------------------
EXTENDS ProxyChannel
=============================================================================
