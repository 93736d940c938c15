---------------------------- MODULE MCPrograms -----------------------------
(***************************************************************************)
(* The joystick's queue holds two events, which a burst of changes fills;  *)
(* the menu's lists are longer than its pane; the board of life is the     *)
(* real one.                                                               *)
(***************************************************************************)
EXTENDS Programs

Block == {<<3, 3>>, <<3, 4>>, <<4, 3>>, <<4, 4>>}

\* Random boards: an empty one, one that never changes, one that blinks over an
\* edge, one that dies out, and a crowded one.
MCRandomBoards ==
  {{}, Block, {<<0, 7>>, <<0, 0>>, <<0, 1>>}, {<<5, 5>>, <<2, 7>>},
   {<<y, x>> \in (0 .. 7) \X (0 .. 7) : (y * 3 + x * 5) % 7 < 2}}

\* Calibrations: rising and falling, points next to each other, at the ends of
\* what a register holds, level, and two that the driver must refuse.
Humidities   == {<<40, -3, 160, 7>>, <<160, 7, 41, -4>>, <<0, -32768, 255, 32767>>,
                 <<255, 32767, 1, -32768>>, <<61, 0, 61, 9>>, <<255, 5, 0, 6>>,
                 <<20, 8, 90, 8>>}
Temperatures == {<<0, -32768, 1023, 32767>>, <<160, 300, 300, -7>>, <<1023, 5, 255, 6>>,
                 <<257, 4, 515, 4>>}

MCDevices ==
  {[h0 |-> h[1], h0_out |-> h[2], h1 |-> h[3], h1_out |-> h[4],
    t0 |-> t[1], t0_out |-> t[2], t1 |-> t[3], t1_out |-> t[4]] :
     h \in Humidities, t \in Temperatures}

MCRaws      == {-32768, -4, -3, 0, 2, 7, 1000, 32767}
MCPressures == {-8388608, -41, -1, 0, 40, 41, 4149841, 8388607}
=============================================================================
