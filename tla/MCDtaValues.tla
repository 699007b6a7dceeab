---------------------------- MODULE MCDtaValues ----------------------------
(* Values around the limits of the types, for the runs of DtaValues. *)
EXTENDS DtaValues

Around(n) == {n - 1, n, n + 1}

Limit64 == 1048575

IntegersTried ==
  UNION {Around(n) : n \in {-32768, -32767, -128, -127, 0, 100, 127, 255,
                            32740, 32767, 65535, 2147483620}}
  \cup UNION {Around(n) \cup Around(-n) : n \in {1024, 2050, 2053, Limit64}}
  \cup {2 * Limit64 - n : n \in {-2, -1, 0, 1023, 1024}}
  \cup {-2147483647 - 1, -2147483647, 2147483647}

Sizes == {1, 100, 101, 256, 257, 32740, 32741, 65536}

Micros == UNION {Around(n) : n \in {-2000, -1000, -1, 0, 999, 1000, 1500}}
          \cup UNION {{n, -n} : n \in {712000, 712999, 713000, 1046500, 1047500,
                                      Limit64 - 1000, Limit64 - 1, Limit64}}

Doubles == {-2147483647, -2147483646, -1, 0, 1, 2147483646, 2147483647}

\* Texts that are empty, that end with a NUL, with bytes that begin none, one
\* and two bytes of UTF-8; and the characters at the ends of Latin-1.
Text(latin1, utf8) == [latin1 |-> latin1, utf8 |-> utf8]
TextSamples ==
  {Text(<<>>, <<>>), Text(<<97>>, <<97>>), Text(<<97, 0>>, <<97, 0>>),
   Text(<<127, 128>>, <<127, 194, 128>>), Text(<<195, 255, 98>>, <<195, 131, 195, 191, 98>>)}

\* References that differ in one byte only, from the least significant of v
\* and of o to the most significant that some format keeps.
Ref(v, o) == [v |-> v, o |-> o]
RefSamples ==
  {Ref(<<1, 0, 0, 0>>, <<1, 0, 0, 0, 0, 0, 0, 0>>),
   Ref(<<1, 0, 0, 0>>, <<0, 1, 0, 0, 0, 0, 0, 0>>),
   Ref(<<0, 1, 0, 0>>, <<1, 0, 0, 0, 0, 0, 0, 0>>),
   Ref(<<1, 0, 1, 0>>, <<1, 0, 0, 0, 0, 0, 0, 0>>),
   Ref(<<1, 0, 0, 1>>, <<1, 0, 0, 0, 0, 0, 0, 0>>),
   Ref(<<1, 0, 0, 0>>, <<1, 0, 0, 2, 0, 0, 0, 0>>),
   Ref(<<1, 0, 0, 0>>, <<1, 0, 0, 0, 3, 0, 0, 0>>),
   Ref(<<1, 0, 0, 0>>, <<1, 0, 0, 0, 0, 4, 0, 0>>)}
=============================================================================
