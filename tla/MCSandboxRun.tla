---------------------------- MODULE MCSandboxRun ----------------------------
EXTENDS SandboxRun
=============================================================================
