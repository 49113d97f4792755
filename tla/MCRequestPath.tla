---------------------------- MODULE MCRequestPath -----------------------------
(* The instance of RequestPath for TLC.                                       *)
EXTENDS RequestPath

\* Requests that are retried and requests that are not, answered at once or
\* as a stream.
AllKinds == {"plain", "stream", "upload", "upload_stream"}

=============================================================================
