------------------------ MODULE MCVideoRenderRuntime ------------------------
EXTENDS VideoRenderRuntime

CONSTANTS j1, j2, j3, j4
=============================================================================
