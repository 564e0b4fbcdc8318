------------------------------ MODULE MCExtended ------------------------------
(***************************************************************************)
(* The values of PgExtended for TLC: with bytes of four values an int16 is *)
(* -8..7, an int32 -128..127 and an int64 -32768..32767. Each set holds    *)
(* the ends of its range, of the narrower one, and the numbers around 0;   *)
(* MCMicros the times around 1970 and 2000 and whole seconds.              *)
(***************************************************************************)
EXTENDS PgExtended

MCInt16s == {-8, -7, -1, 0, 1, 7}
MCInt32s == {-128, -127, -9, -1, 0, 1, 8, 15, 127}
MCInt64s == {-32768, -32767, -129, -1, 0, 1, 128, 255, 32767}
MCMicros == {-301, -300, -201, -200, -199, -110, -101, -100, -99, -1, 0, 1, 10, 99, 100,
             101, 199, 200, 299, 300, 301, 350, 400}
MCZones == {-2, 0, 1, 2}
=============================================================================
