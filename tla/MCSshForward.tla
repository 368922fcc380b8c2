---------------------------- MODULE MCSshForward ----------------------------
EXTENDS SshForward
=============================================================================
