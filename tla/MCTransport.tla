---------------------------- MODULE MCTransport ----------------------------
(* Instances of Transport: the client's own connection thread and another   *)
(* thread that dispatches to the client.                                    *)
EXTENDS Transport

\* One value, and two that fill a batch
Values == {<<"value">>, <<"value", "value">>}
\* The same, and a dispatch that starts inline and ends in the queue
Mixed == Values \cup {<<"value", "text">>}
=============================================================================
