---------------------------- MODULE MCHttpRequest ----------------------------
(* Small instances of HttpRequest for TLC. *)
EXTENDS HttpRequest

AnyUrl == UrlKind
=============================================================================
