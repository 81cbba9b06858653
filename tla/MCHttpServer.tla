---------------------------- MODULE MCHttpServer ----------------------------
\* The instance of HttpServer for TLC alone.
EXTENDS HttpServer
=============================================================================
