----------------------------- MODULE MCCliInit -----------------------------
(* A small instance of CliInit for TLC.                                    *)
EXTENDS CliInit

\* The default, the same with blanks and repetitions, an order without an
\* adapter, and one that names nobody.
Orders == {<<"cloudflare", "ngrok">>, <<"ngrok", "", "ngrok">>, <<"other">>, <<"">>}

Default == <<"cloudflare", "ngrok">>

=============================================================================
