--------------------------- MODULE MCHubSessions ---------------------------
(* HubSessions with sessions as numbers: odd ones WebSockets, even ones requests. *)
EXTENDS HubSessions

OneWs == {1}
OneHttp == {2}

=============================================================================
