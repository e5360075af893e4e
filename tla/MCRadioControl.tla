--------------------------- MODULE MCRadioControl ---------------------------
(***************************************************************************)
(* A small RX888 mk II for TLC: tables of two or three steps instead of up *)
(* to 127, in tenths of a dB, with the ends and a middle that is not half  *)
(* way.                                                                    *)
(***************************************************************************)
EXTENDS RadioControl

MCGainTable ==
    [attHF |-> <<-315, 0>>, gainHF |-> <<-186, 18, 140>>,
     attVHF |-> <<0, 144, 496>>, gainVHF |-> <<-47, 408>>]

MCGains == {-400, 100}
=============================================================================
