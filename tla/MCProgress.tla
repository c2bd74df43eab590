------------------------------ MODULE MCProgress ------------------------------
(* Two people in one room, followed from the lobby.                         *)
EXTENDS Progress

FromLobby == {Lobby}
=============================================================================
