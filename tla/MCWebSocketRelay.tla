-------------------------- MODULE MCWebSocketRelay --------------------------
(***************************************************************************)
(* Clients that open with a request, with other text or with a ping, that  *)
(* close or stay; upstreams that answer, close in the middle, or stay.     *)
(***************************************************************************)
EXTENDS WebSocketRelay, TLC

MCClientScript == {
  << >>, <<"create", "text", "create">>, <<"create", "close">>,
  <<"ping", "create">>, <<"text", "create">>}

MCUpstreamScript == {
  << >>, <<"event", "completed", "close">>, <<"noise", "completed", "completed">>,
  <<"event", "noise", "event">>}

=============================================================================
