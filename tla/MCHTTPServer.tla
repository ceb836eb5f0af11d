---------------------------- MODULE MCHTTPServer ----------------------------
(* The instance of HTTPServer for TLC: WebServer.cfg gives its constants.  *)
EXTENDS HTTPServer
=============================================================================
