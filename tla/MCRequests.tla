------------------------------- MODULE MCRequests ------------------------------
(* An instance of Requests for TLC. *)
EXTENDS Requests

CONSTANTS s1, s2

\* Both servers, one of them, and an error page.
MCPages == {<<s1, s2>>, <<s2>>, <<Blank>>}
================================================================================
