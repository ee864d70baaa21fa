-------------------------- MODULE MCControlSurface --------------------------
(* Instance of ControlSurface for TLC.                                      *)
EXTENDS ControlSurface

Moves == {<<14, <<176, 0, 10>>>>, <<14, <<176, 8, 20>>>>, <<14, <<176, 0, 40>>>>}
LetGo == <<14, <<144, 3, 0>>>>
Play == <<14, <<144, 10, 78>>>>
Select == <<14, <<144, 0, 64>>>>
Modes == {<<14, <<144, 2, 77>>>>, <<14, <<144, 4, 77>>>>}
Socket == <<0, <<144, 60, 100>>>>

MCScenes == {
    Moves \cup {LetGo},
    {<<14, <<176, 0, 10>>>>, LetGo, Play, Select},
    Modes \cup {Socket}}

MCCommands == {<<240, 1, 2, 3, 247>>}
=============================================================================
