---------------------------- MODULE MCMidiBridge ----------------------------
(* Instance of MidiBridge for TLC.                                          *)
EXTENDS MidiBridge

On1 == Note(1, TRUE)
Off1 == Note(1, FALSE)
Pan == Other(2, TRUE)

Scene(s, w, b, m, f, t, r) ==
    [speaks |-> s, words |-> w, buttons |-> b, moves |-> m, faults |-> f, tears |-> t,
     replies |-> r]

MCScenes == {
    Scene({}, 0, {1, 2}, 3, 0, FALSE, TRUE),
    Scene({On1, Off1}, 1, {1}, 2, 0, FALSE, TRUE),
    Scene({}, 0, {1}, 4, 1, TRUE, FALSE),
    Scene({Fader(0), Fader(1), Fader(2)}, 3, {}, 0, 1, FALSE, TRUE),
    Scene({On1, Off1, Pan, Text}, 3, {}, 0, 1, FALSE, TRUE)}
=============================================================================
