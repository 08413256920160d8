--------------------------- MODULE MCViewerServer ---------------------------
(* A small instance of the viewer's server.                                *)
EXTENDS ViewerServer
=============================================================================
